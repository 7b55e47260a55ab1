------------------------------ MODULE Refusals ------------------------------
(* A handler's early returns, in the order the code asks: the first condition
   that applies decides. *)
EXTENDS Integers, Sequences, FiniteSetsExt

Refusal(when, kind) == [when |-> when, kind |-> kind]

(* The first of a list of refusals that applies, or "pass". *)
First(refusals) ==
    LET hits == {i \in DOMAIN refusals : refusals[i].when}
    IN  IF hits = {} THEN "pass" ELSE refusals[Min(hits)].kind
=============================================================================
