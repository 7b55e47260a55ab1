----------------------------- MODULE MCDpopReplay -----------------------------
(* Small instances of DpopReplay for TLC. *)
EXTENDS DpopReplay, TLC

(* Requests and proof ids are interchangeable. *)
Symmetry == Permutations(Tasks) \cup Permutations(Keys)
=============================================================================
