----------------------------- MODULE MCRevocation -----------------------------
(* Small instances of Revocation for TLC. *)
EXTENDS Revocation, TLC

(* Requests and token ids are interchangeable. *)
Symmetry == Permutations(Checks) \cup Permutations(Tokens)
=============================================================================
