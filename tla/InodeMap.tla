----------------------------- MODULE InodeMap ------------------------------
(***************************************************************************)
(* How an inode number becomes an inode (jfs_inode.c): find_inode computes *)
(* the inode allocation group, the extent in it and the place in the       *)
(* extent, and xRead copies the inode from the mapped disk, through a      *)
(* buffer of whole blocks when it is not one itself.                       *)
(*                                                                         *)
(* Addresses are counted in units of 512 bytes, the size of an inode. What *)
(* find_iag finds (module XTree) is the function IagMap. The powers of two *)
(* of the source are constants here; shifts and masks by them are          *)
(* divisions and remainders.                                               *)
(***************************************************************************)
EXTENDS Integers, Sequences

CONSTANTS
  INOSPEREXT,   \* inodes in an extent
  EXTSPERIAG,   \* extents in an inode allocation group
  BSIZE,        \* jfs_sb->s_bsize
  PAGE,         \* PSIZE, vm_page_size and 4096
  IagMap,       \* the group pages, by their block in the inode map
  InodeExtent,  \* reference: the block of each inode extent, by its number
  NoBlock

INOSPERIAG == INOSPEREXT * EXTSPERIAG

INOTOIAG(ino) == ino \div INOSPERIAG

IAGTOLBLK(iagno) == (iagno + 1) * (PAGE \div BSIZE)

(***************************************************************************)
(* What a file system on disk looks like: extent e holds the inodes from   *)
(* e * INOSPEREXT on; it is entry e % EXTSPERIAG of group e \div           *)
(* EXTSPERIAG, and has length 0 there when there is no such extent.        *)
(***************************************************************************)
ASSUME MapAssumption ==
  /\ INOSPEREXT \in Nat \ {0} /\ EXTSPERIAG \in Nat \ {0}
  /\ BSIZE \in Nat \ {0} /\ PAGE \in Nat \ {0} /\ PAGE % BSIZE = 0
  /\ NoBlock \notin Nat
  /\ DOMAIN InodeExtent \subseteq Nat
  /\ \A e \in DOMAIN InodeExtent :
       /\ InodeExtent[e] \in Nat \cup {NoBlock}
       /\ IAGTOLBLK(e \div EXTSPERIAG) \in DOMAIN IagMap
  /\ \A l \in DOMAIN IagMap, x \in 0 .. EXTSPERIAG - 1 :
       LET e == (l \div (PAGE \div BSIZE) - 1) * EXTSPERIAG + x
       IN  IF e \in DOMAIN InodeExtent /\ InodeExtent[e] # NoBlock
           THEN IagMap[l][x].len # 0 /\ IagMap[l][x].addr = InodeExtent[e]
           ELSE IagMap[l][x].len = 0

NoAddress == -1

(* (inum & (INOSPERIAG - 1)) >> L2INOSPEREXT *)
extnum(inum) == (inum % INOSPERIAG) \div INOSPEREXT

(* No group, or an extent of length 0: 1 is returned. *)
find_inode(inum) ==
  LET lblk == IAGTOLBLK(INOTOIAG(inum))
  IN  IF lblk \notin DOMAIN IagMap THEN NoAddress
      ELSE LET pxd == IagMap[lblk][extnum(inum)]
           IN  IF pxd.len = 0 THEN NoAddress
               ELSE pxd.addr * BSIZE + (inum % INOSPEREXT)

(* ujfs_read_diskblocks: a copy of the mapped disk. A unit is represented   *)
(* by its address.                                                          *)
ujfs_read_diskblocks(address, length) == [k \in 1 .. length |-> address + k - 1]

(* xRead of a unit or more: from a block boundary up to one. *)
Aligned(address, count) == address % BSIZE = 0 /\ count % BSIZE = 0

(* Mutant: the copy starts at the beginning of the block. *)
OffsetNone(address) == 0

offset(address) == address % BSIZE

xRead(address, count) ==
  LET o      == offset(address)
      length == ((o + count + BSIZE - 1) \div BSIZE) * BSIZE
  IN  IF Aligned(address, count) THEN ujfs_read_diskblocks(address, count)
      ELSE SubSeq(ujfs_read_diskblocks(address - (address % BSIZE), length), o + 1, o + count)

-----------------------------------------------------------------------------
(* Reference: where inode inum is, if there is one. *)
Backed(inum) ==
  /\ inum \div INOSPEREXT \in DOMAIN InodeExtent
  /\ InodeExtent[inum \div INOSPEREXT] # NoBlock

PlaceOf(inum) == InodeExtent[inum \div INOSPEREXT] * BSIZE + (inum % INOSPEREXT)
=============================================================================
