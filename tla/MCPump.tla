------------------------------- MODULE MCPump -------------------------------
(* Instances of Pump for TLC.                                               *)
EXTENDS Pump, TLC

\* Transactions of pump are told apart only by who holds them.
TxnSymmetry == Permutations(Txn)

=============================================================================
