--------------------------- MODULE MCTransactions ---------------------------
(* Transactions and executions are values; both may be permuted. *)
EXTENDS Transactions, TLC

Symmetric == Permutations(Tnx) \cup Permutations(Work)
=============================================================================
