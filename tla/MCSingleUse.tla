----------------------------- MODULE MCSingleUse -----------------------------
(* Small instances of SingleUse for TLC. *)
EXTENDS SingleUse, TLC

(* Requests, token ids and intents are interchangeable. *)
Symmetry == Permutations(Tasks) \cup Permutations(Jtis) \cup Permutations(Intents)
=============================================================================
