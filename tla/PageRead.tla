----------------------------- MODULE PageRead ------------------------------
(***************************************************************************)
(* pager_read_page (pager.c): one page of a file or of the disk is read    *)
(* from the store, with the inode found by module InodeMap, and what the   *)
(* kernel may do with the page on this read-only medium.                   *)
(*                                                                         *)
(* Sizes and offsets are counted in units that divide a store block; pages *)
(* and file blocks start at store blocks, so that shifting an address by   *)
(* store->log2_block_size and back changes nothing. A unit of the store    *)
(* holds its own address; Zero is a unit of zeros. The code has the number *)
(* 4096 where vm_page_size or s_bsize is meant, so PAGE stands for both.   *)
(* What xt_Lookup finds for a file block (module XTree) is the function    *)
(* map of the inode. The lengths it finds are not used by the code.        *)
(***************************************************************************)
EXTENDS InodeMap

CONSTANTS
  StoreSize, \* units in the store
  File,      \* contents of an inode: [size, lnk, map], lnk for a symlink
  Inums,     \* the inode numbers of the nodes whose pages are read
  MaxPage,   \* bound: the last page that is read, counted in pages
  Zero

ASSUME PageAssumption ==
  /\ StoreSize \in Nat /\ MaxPage \in Nat
  /\ Inums \subseteq Nat
  /\ Zero \notin Nat
  /\ \A f \in File :
       /\ f.size \in Nat /\ f.lnk \in BOOLEAN
       /\ \A b \in DOMAIN f.map : f.map[b] \in Nat \cup {NoBlock}

VARIABLES
  inum,    \* np->cache_id
  file,    \* the inode of that number on disk
  pc,      \* "idle", "inode", "lookup", "read" at store_read, "done"
  type,    \* upi->type
  page,    \* offset of the page
  inode,   \* the inode that was read
  addr,    \* where store_read starts
  overrun, \* units behind the end of the file
  buf,     \* *buf
  ret,     \* the result
  failed,  \* history: malloc or store_read failed during this call
  mem      \* the kernel's page: "none", "locked" against writing,
           \* "writable", "dirty", or "abort" once pager_write_page was called

disk == <<inum, file>>
vars == <<inum, file, pc, type, page, inode, addr, overrun, buf, ret, failed, mem>>

NoBuf == <<>>

(* An inode as it is on disk, with its di_number; inodes that are not under *)
(* test are empty files.                                                    *)
Inode(n, f) == [number |-> n, size |-> f.size, lnk |-> f.lnk, map |-> f.map]
Empty == [size |-> 0, lnk |-> FALSE, map |-> <<>>]

(* The inode in a unit of the disk. Number -1 is no inode at all. *)
InodeAt(u) ==
  IF Backed(inum) /\ u = PlaceOf(inum) THEN Inode(inum, file) ELSE Inode(-1, Empty)

(* st_size as read_node sets it: a symlink has none. *)
st_size == IF file.lnk THEN 0 ELSE file.size

TypeOK ==
  /\ inum \in Inums /\ file \in File
  /\ pc \in {"idle", "inode", "lookup", "read", "done"}
  /\ type \in {"FILE_DATA", "DISK"}
  /\ page \in Nat /\ addr \in Nat
  /\ overrun \in 0 .. PAGE - 1
  /\ buf = NoBuf \/ buf \in [1 .. PAGE -> (0 .. StoreSize - 1) \cup {Zero}]
  /\ ret \in {"0", "1", "EIO"}
  /\ failed \in BOOLEAN
  /\ mem \in {"none", "locked", "writable", "dirty", "abort"}

Init ==
  /\ inum \in Inums /\ file \in File
  /\ pc = "idle" /\ type = "DISK"
  /\ page = 0 /\ addr = 0 /\ overrun = 0 /\ buf = NoBuf /\ ret = "0"
  /\ inode = Inode(-1, Empty) /\ failed = FALSE /\ mem = "none"

-----------------------------------------------------------------------------
(* What xt_Lookup finds. *)
xt_Lookup(f, xoff) == IF xoff \in DOMAIN f.map THEN f.map[xoff] ELSE NoBlock

ZeroPage == [k \in 1 .. PAGE |-> Zero]

Return(b, r) == pc' = "done" /\ buf' = b /\ ret' = r

(* The kernel asks the pager of the file, or the disk pager, for a page. *)
PageIn(ty, n) ==
  /\ pc = "idle" /\ mem = "none"
  /\ pc' = (IF ty = "DISK" THEN "lookup" ELSE "inode")
  /\ type' = ty /\ page' = n * PAGE
  /\ UNCHANGED <<disk, inode, addr, overrun, buf, ret, failed, mem>>

(* find_inode finds no inode of this number. *)
InodeFails ==
  /\ pc = "inode"
  /\ find_inode(inum) = NoAddress
  /\ Return(NoBuf, "1")
  /\ UNCHANGED <<disk, type, page, inode, addr, overrun, failed, mem>>

(* malloc fails in an xRead, of find_iag for the fileset inode or of        *)
(* pager_read_page.                                                         *)
InodeNoMemory ==
  /\ pc = "inode"
  /\ ~Aligned(0, 1)
  /\ failed' = TRUE
  /\ Return(NoBuf, "1")
  /\ UNCHANGED <<disk, type, page, inode, addr, overrun, mem>>

(* find_inode and xRead, sizeof (dinode_t) being one unit. *)
ReadInode ==
  /\ pc = "inode"
  /\ find_inode(inum) # NoAddress
  /\ inode' = InodeAt(xRead(find_inode(inum), 1)[1])
  /\ pc' = "lookup"
  /\ UNCHANGED <<disk, type, page, addr, overrun, buf, ret, failed, mem>>

(* xt_Lookup finds nothing: a page of zeros behind the end, else an error. *)
LookupMiss ==
  /\ pc = "lookup" /\ type = "FILE_DATA"
  /\ xt_Lookup(inode, page \div PAGE) = NoBlock
  /\ IF page >= st_size THEN Return(ZeroPage, "0") ELSE Return(NoBuf, "1")
  /\ UNCHANGED <<disk, type, page, inode, addr, overrun, failed, mem>>

(* Mutant: the overrun is computed for every page. *)
OverrunAlways == page + PAGE - st_size

Overrun == IF page + PAGE > st_size THEN page + PAGE - st_size ELSE 0

(* xt_Lookup finds the block: a page of zeros behind the end all the same,   *)
(* else on to store_read.                                                    *)
LookupHit ==
  /\ pc = "lookup" /\ type = "FILE_DATA"
  /\ xt_Lookup(inode, page \div PAGE) # NoBlock
  /\ addr' = xt_Lookup(inode, page \div PAGE) * PAGE
  /\ IF page >= st_size
     THEN Return(ZeroPage, "0") /\ UNCHANGED overrun
     ELSE /\ overrun' = Overrun
          /\ pc' = "read" /\ UNCHANGED <<buf, ret>>
  /\ UNCHANGED <<disk, type, page, inode, failed, mem>>

(* A page of the disk is where it is. *)
DiskAddress ==
  /\ pc = "lookup" /\ type = "DISK"
  /\ addr' = page
  /\ pc' = "read"
  /\ UNCHANGED <<disk, type, page, inode, overrun, buf, ret, failed, mem>>

(* Mutants: the last page of the store is refused; what is behind the end   *)
(* of the file is not cleared.                                              *)
ShortAtEnd == addr + PAGE >= StoreSize
UnclearedPage == [k \in 1 .. PAGE |-> addr + k - 1]

(* read != vm_page_size *)
Short == addr + PAGE > StoreSize

(* What store_read reads, and bzero of the overrun. *)
ClearedPage == [k \in 1 .. PAGE |-> IF k > PAGE - overrun THEN Zero ELSE addr + k - 1]

(* store_read of as much as the store has; less than a page is EIO. *)
StoreRead ==
  /\ pc = "read"
  /\ IF Short THEN Return(NoBuf, "EIO") ELSE Return(ClearedPage, "0")
  /\ UNCHANGED <<disk, type, page, inode, addr, overrun, failed, mem>>

(* store_read fails on a block of the store: err is not looked at, but read  *)
(* is not a page either.                                                     *)
StoreFails ==
  /\ pc = "read"
  /\ failed' = TRUE
  /\ Return(NoBuf, "EIO")
  /\ UNCHANGED <<disk, type, page, inode, addr, overrun, mem>>

-----------------------------------------------------------------------------
(* The kernel and libpager.                                                 *)

(* Mutant: pager_unlock_page grants the access. *)
UnlockedGranted == "writable"

(* *writelock = 1, and pager_unlock_page returns EROFS. *)
Supplied == "locked"

Unlocked == "locked"

(* The page is handed to the kernel, or the error is. *)
Supply ==
  /\ pc = "done"
  /\ mem' = (IF ret = "0" THEN Supplied ELSE mem)
  /\ pc' = "idle" /\ type' = "DISK"
  /\ page' = 0 /\ addr' = 0 /\ overrun' = 0 /\ buf' = NoBuf /\ ret' = "0"
  /\ inode' = Inode(-1, Empty) /\ failed' = FALSE
  /\ UNCHANGED disk

(* What the kernel does with a page: it asks for a page that a client wants *)
(* to write to be unlocked, drops clean pages, lets clients write to pages  *)
(* that are not locked, and sends dirty ones back, to the assert (0) of     *)
(* pager_write_page.                                                        *)
Transition == {<<"locked", Unlocked>>, <<"locked", "none">>, <<"writable", "none">>,
               <<"writable", "dirty">>, <<"dirty", "abort">>}

Kernel ==
  /\ pc = "idle"
  /\ \E t \in Transition : mem = t[1] /\ mem' = t[2]
  /\ UNCHANGED <<disk, pc, type, page, inode, addr, overrun, buf, ret, failed>>

Next ==
  \/ \E ty \in {"FILE_DATA", "DISK"}, n \in 0 .. MaxPage : PageIn(ty, n)
  \/ InodeFails \/ InodeNoMemory \/ ReadInode
  \/ LookupMiss \/ LookupHit \/ DiskAddress \/ StoreRead \/ StoreFails
  \/ Supply \/ Kernel

Spec == Init /\ [][Next]_vars

-----------------------------------------------------------------------------
(* Properties.                                                              *)

(***************************************************************************)
(* The shifts and masks of find_inode, over the group page that find_iag   *)
(* found, and the copy of xRead out of a block lead to the inode that      *)
(* carries the number looked for (di_number), and an inode that exists is  *)
(* always found.                                                           *)
(***************************************************************************)
RightInode ==
  /\ pc = "lookup" /\ type = "FILE_DATA" => inode.number = inum
  /\ pc = "done" /\ type = "FILE_DATA" /\ inode.number # inum => ~Backed(inum) \/ failed

(* Reference: the unit of the store that holds unit o of file f. *)
UnitOf(f, o) ==
  LET block == xt_Lookup(f, o \div BSIZE)
  IN  IF block = NoBlock THEN Zero ELSE block * BSIZE + (o % BSIZE)

Offset(k) == page + k - 1

(***************************************************************************)
(* A page read without an error holds the units of the file that the       *)
(* extents give, and zeros behind the end of the file (pager.c:227-252),   *)
(* and a page of the disk pager is that part of the store. A page of the   *)
(* file that has no extent is not among them: pager_read_page returns 1    *)
(* for it (pager.c:222). The comment pager.c:168-170 promises this for any *)
(* block size: "This may need to read several filesystem blocks to satisfy *)
(* one page".                                                              *)
(***************************************************************************)
PageContents ==
  pc = "done" /\ ret = "0" =>
    \A k \in 1 .. PAGE :
      buf[k] = CASE type = "DISK"        -> Offset(k)
                 [] type = "FILE_DATA" /\ Offset(k) < st_size  -> UnitOf(file, Offset(k))
                 [] type = "FILE_DATA" /\ Offset(k) >= st_size -> Zero

(* Reference: the block of unit o of file f is there, all of it. *)
InStore(f, o) ==
  LET block == xt_Lookup(f, o \div BSIZE)
  IN  block # NoBlock /\ (block + 1) * BSIZE <= StoreSize

(***************************************************************************)
(* No page fault fails that need not: unless malloc or store_read fails, a *)
(* page of an existing file that is behind its end, or whose blocks all    *)
(* have extents inside the store, is read.                                 *)
(***************************************************************************)
MappedPageRead ==
  pc = "done" /\ type = "FILE_DATA" /\ Backed(inum) /\ ~failed
    /\ (\A k \in 1 .. PAGE : Offset(k) < st_size => InStore(file, Offset(k))) =>
    ret = "0"

(***************************************************************************)
(* "This is a read-only medium" (pager.c:192): since pages are handed out  *)
(* locked against writing and never unlocked, no sequence of accesses by   *)
(* clients makes the kernel send one back, and the assertion of            *)
(* pager_write_page (pager.c:347) never fails.                             *)
(***************************************************************************)
NoWriteBack == mem # "abort"

=============================================================================
