---------------------------- MODULE MCBPlusTree ----------------------------
(* TLC instance of BPlusTree: pages of at most three pairs, and tables     *)
(* whose rows were inserted in ascending, descending and mixed order.      *)
EXTENDS BPlusTree

Ascending == <<2, 4, 6, 8, 10, 12, 14, 16>>
Mixed == <<8, 16, 4, 12, 2, 10, 6, 14>>
MCLoads == {Ascending, Reverse(Ascending), Mixed, <<>>}

=============================================================================
