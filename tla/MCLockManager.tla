--------------------------- MODULE MCLockManager ---------------------------
(* TLC instance of LockManager: three transactions, a table and a record.  *)
EXTENDS LockManager, TLC

Symmetry == Permutations(Txns)

=============================================================================
