---------------------------- MODULE MCPageRead -----------------------------
(***************************************************************************)
(* A file system with two inode allocation groups of two extents, one of   *)
(* which does not exist. The inode under test is a file of up to three     *)
(* blocks, with holes and one block behind the end of the store, of every  *)
(* size, or a symlink.                                                     *)
(***************************************************************************)
EXTENDS PageRead

(* The blocks of the extents; PAGE \div BSIZE blocks make a page. *)
MCInodeExtent == [e \in 0 .. 3 |-> IF e = 1 THEN NoBlock ELSE (2 + e) * (PAGE \div BSIZE)]

Pxd(b) == IF b = NoBlock THEN [len |-> 0, addr |-> 0] ELSE [len |-> 1, addr |-> b]

MCIagMap ==
  [l \in {IAGTOLBLK(g) : g \in 0 .. 1} |->
     [x \in 0 .. EXTSPERIAG - 1 |->
        Pxd(MCInodeExtent[(l \div (PAGE \div BSIZE) - 1) * EXTSPERIAG + x])]]

(* Where files have their blocks: around the inodes and at the end. *)
DataBlocks == {0, 1, StoreSize \div BSIZE - 1, StoreSize \div BSIZE}

Layouts ==
  {m \in [0 .. 2 -> DataBlocks \cup {NoBlock}] :
     \A i, j \in 0 .. 2 : i # j /\ m[i] = m[j] => m[i] = NoBlock}

MCFile ==
  [size : 0 .. 3 * BSIZE, lnk : {FALSE}, map : Layouts]
    \cup [size : {1}, lnk : {TRUE}, map : Layouts]
=============================================================================
