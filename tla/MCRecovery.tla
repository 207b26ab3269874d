---------------------------- MODULE MCRecovery ----------------------------
(* TLC instances of Recovery.                                              *)
EXTENDS Recovery

B(txns, open, pages, slots, values, len, rollbacks, starts) ==
    [txns |-> txns, open |-> open, pages |-> pages, slots |-> slots, values |-> values,
     log |-> len, aborts |-> rollbacks, restarts |-> starts]

\* Pages of two records, that share a page lsn, and tables that grow; and one transaction after the
\* other on one record: a delete, its rollback, and an update of what it restored, before the crash.
MCBounds ==
    <<B(2, 2, 2, 2, Values, 5, 1, 2),
      B(3, 1, 1, 1, {CHOOSE v \in Values : TRUE}, 8, 1, 1)>>

\* One restart of a log that holds a rolled back transaction.
MCAborted == <<B(2, 2, 1, 1, Values, 6, 1, 1)>>

=============================================================================
