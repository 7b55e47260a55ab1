--------------------------- MODULE MCRateLimiter ---------------------------
(* Requests are interchangeable: they are told apart by their calls only. *)
EXTENDS RateLimiter, TLC

MCSymmetry == Permutations(Requests)
=============================================================================
