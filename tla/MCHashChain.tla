---------------------------- MODULE MCHashChain ----------------------------
(***************************************************************************)
(* Three inode numbers share a chain, so that a node can be first, last or *)
(* in the middle of it. One is -1, which diskfs_lookup_hard hands down for *)
(* a name with a dot that it did not find.                                 *)
(***************************************************************************)
EXTENDS HashChain

MCInum == {-1, 0, 1, 3}
=============================================================================
