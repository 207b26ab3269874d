--------------------------- MODULE MCRecordFile ---------------------------
(* TLC instances of RecordFile.                                            *)
EXTENDS RecordFile, TLC

=============================================================================
