--------------------------- MODULE MCTransactions ---------------------------
(* Two clients, two keys; clients and keys are interchangeable. *)
EXTENDS Transactions, TLC

Symmetry == Permutations(Conn) \cup Permutations(Key)
=============================================================================
