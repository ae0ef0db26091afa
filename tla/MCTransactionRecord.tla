------------------------ MODULE MCTransactionRecord ------------------------
(* Instances of TransactionRecord for TLC. *)
EXTENDS TransactionRecord, TLC
=============================================================================
