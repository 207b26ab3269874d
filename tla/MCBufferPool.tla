---------------------------- MODULE MCBufferPool ----------------------------
(* TLC instance of BufferPool: two frames, one descriptor that is reused   *)
(* for two files, two clients.                                             *)
EXTENDS BufferPool, TLC

Symmetry == Permutations(Clients) \cup Permutations(Files)

=============================================================================
