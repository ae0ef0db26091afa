----------------------- MODULE MCTransactionLifecycle -----------------------
(* Instances of TransactionLifecycle for TLC. *)
EXTENDS TransactionLifecycle, TLC

Symmetry == Permutations(Ids)
=============================================================================
