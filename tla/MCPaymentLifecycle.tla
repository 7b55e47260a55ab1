-------------------------- MODULE MCPaymentLifecycle --------------------------
(* Small instances of PaymentLifecycle for TLC. *)
EXTENDS PaymentLifecycle, TLC

(* Payment ids, transactions and concurrent requests are interchangeable. *)
Symmetry == Permutations(Payments) \cup Permutations(Txs)
            \cup Permutations(Settlers) \cup Permutations(Preparers)
=============================================================================
