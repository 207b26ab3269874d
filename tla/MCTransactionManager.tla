----------------------- MODULE MCTransactionManager -----------------------
(* TLC instances of TransactionManager.                                    *)
EXTENDS TransactionManager, TLC

Symmetry == Permutations(Txns) \cup Permutations(Sessions)

=============================================================================
