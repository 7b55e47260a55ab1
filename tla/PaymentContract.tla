--------------------------- MODULE PaymentContract ---------------------------
(***************************************************************************)
(* What the facilitator promises about one payment, with the stores, the   *)
(* tasks and the clock left out.  A payment is issued once, may fail any   *)
(* number of times, and is paid by one transaction for good.  Only a       *)
(* process restart or a failed store statement in the middle of a settle   *)
(* (`interrupted') lets a paid payment be settled a second time.           *)
(***************************************************************************)
CONSTANTS Payments, Txs, NoTx

VARIABLES
    phase,        \* per payment
    paidBy,       \* the transaction its success is recorded with
    interrupted   \* a settle has been cut short somewhere

Phases == {"unissued", "open", "lapsed", "failed", "paid"}

Init ==
    /\ phase = [p \in Payments |-> "unissued"]
    /\ paidBy = [p \in Payments |-> NoTx]
    /\ interrupted = FALSE

Issue(p) ==
    /\ phase[p] = "unissued"
    /\ phase' = [phase EXCEPT ![p] = "open"]
    /\ UNCHANGED <<paidBy, interrupted>>

(* A paid payment may be settled again only after an interruption. *)
MaySettle(p) ==
    \/ phase[p] \in {"open", "lapsed", "failed"}
    \/ phase[p] = "paid" /\ interrupted

Pay(p, tx) ==
    /\ MaySettle(p)
    /\ phase' = [phase EXCEPT ![p] = "paid"]
    /\ paidBy' = [paidBy EXCEPT ![p] = tx]
    /\ UNCHANGED interrupted

Fail(p) ==
    /\ MaySettle(p)
    /\ phase' = [phase EXCEPT ![p] = "failed"]
    /\ paidBy' = [paidBy EXCEPT ![p] = NoTx]
    /\ UNCHANGED interrupted

(* The sweeper forgets open payments; a settle already under way may still *)
(* end one of them.                                                        *)
Lapse(ps) ==
    /\ \A p \in ps : phase[p] = "open"
    /\ phase' = [p \in Payments |-> IF p \in ps THEN "lapsed" ELSE phase[p]]
    /\ UNCHANGED <<paidBy, interrupted>>

Interrupt ==
    /\ interrupted' = TRUE
    /\ UNCHANGED <<phase, paidBy>>

Next ==
    \/ \E p \in Payments : Issue(p) \/ Fail(p) \/ \E tx \in Txs : Pay(p, tx)
    \/ \E ps \in SUBSET Payments : Lapse(ps)
    \/ Interrupt

vars == <<phase, paidBy, interrupted>>

Spec == Init /\ [][Next]_vars
=============================================================================
