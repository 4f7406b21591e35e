------------------------------- MODULE XTree -------------------------------
(***************************************************************************)
(* The search of an extent tree: xt_Lookup (jfs_fileread.c), which maps a  *)
(* block of a file to a block of the disk, and find_iag (jfs_inode.c),     *)
(* which finds the inode allocation group of an inode with the same search *)
(* over the tree of the fileset inode.                                     *)
(*                                                                         *)
(* Both search each page by halving the range of entries and go down to    *)
(* the child whose key is the last one not above the search key. The slots *)
(* 0 and 1 of a page hold its header, so that an index below XTENTRYSTART  *)
(* would read header bytes as an extent.                                   *)
(*                                                                         *)
(* ujfs_read_diskblocks copies from the mapped disk and reports no error,  *)
(* so reading a child page always succeeds; only the read of the fileset   *)
(* inode, which xRead does through a malloc, can fail. Block numbers stand *)
(* for the byte addresses of find_iag (both are shifted by l2bsize alike). *)
(***************************************************************************)
EXTENDS Integers

CONSTANTS
  Root,       \* the page inside the inode, di_btroot
  MaxKey,     \* search keys lie in 0..MaxKey-1
  Trees,      \* the trees to search, see WellFormed
  Lengths,    \* the values of *xlen callers ask for
  PageBlocks  \* blocks per page, 2^(L2PSIZE - l2bsize)

XTENTRYSTART == 2

(* A xad_t with its offset, length and address. *)
Xad == [off : Nat, len : Nat \ {0}, addr : Nat]

(* The indices of the entries of a page: the header says nextindex. *)
Entries(pg) == XTENTRYSTART .. pg.nextindex - 1

(***************************************************************************)
(* A tree is a record of its pages and, to say what makes it well formed,  *)
(* of the range lo[q] .. hi[q]-1 of keys each page q is responsible for.   *)
(* The root is responsible for all keys. An internal page splits its range *)
(* at the keys of its entries, the first of which is the start of its      *)
(* range; a leaf lists disjoint extents inside its range in ascending      *)
(* order. Only the root may be empty, and only as a leaf.                  *)
(***************************************************************************)
IsPage(pg) ==
  /\ pg.leaf \in BOOLEAN
  /\ pg.nextindex \in Nat /\ pg.nextindex >= XTENTRYSTART
  /\ pg.xad \in [Entries(pg) -> Xad]

LeafOK(pg, lo, hi) ==
  \A i \in Entries(pg) :
    /\ lo <= pg.xad[i].off /\ pg.xad[i].off + pg.xad[i].len <= hi
    /\ \A j \in Entries(pg) : i < j => pg.xad[i].off + pg.xad[i].len <= pg.xad[j].off

InternalOK(T, q) ==
  LET pg == T.page[q]
  IN  /\ pg.xad[XTENTRYSTART].off = T.lo[q]
      /\ \A i \in Entries(pg) :
           /\ pg.xad[i].addr \in DOMAIN T.page \ {Root}
           /\ T.lo[pg.xad[i].addr] = pg.xad[i].off
           /\ pg.xad[i].off + pg.xad[i].len <= T.hi[pg.xad[i].addr]
           /\ i = pg.nextindex - 1 => T.hi[pg.xad[i].addr] = T.hi[q]
           /\ i + 1 \in Entries(pg) => T.hi[pg.xad[i].addr] = pg.xad[i + 1].off
           /\ \A j \in Entries(pg) :
                i < j => pg.xad[i].off + pg.xad[i].len <= pg.xad[j].off

WellFormed(T) ==
  /\ Root \in DOMAIN T.page
  /\ T.lo \in [DOMAIN T.page -> Nat]
  /\ T.hi \in [DOMAIN T.page -> Nat]
  /\ T.lo[Root] = 0 /\ T.hi[Root] = MaxKey
  /\ \A q \in DOMAIN T.page :
       /\ IsPage(T.page[q])
       /\ T.page[q].leaf => LeafOK(T.page[q], T.lo[q], T.hi[q])
       /\ ~T.page[q].leaf => InternalOK(T, q)
       /\ q # Root \/ ~T.page[q].leaf => T.page[q].nextindex > XTENTRYSTART
  /\ \A q, r \in DOMAIN T.page :
       q # r /\ T.page[q].leaf /\ T.page[r].leaf =>
         T.hi[q] <= T.lo[r] \/ T.hi[r] <= T.lo[q]

ASSUME TreeAssumption ==
  /\ MaxKey \in Nat \ {0}
  /\ \A T \in Trees : WellFormed(T)
  /\ Lengths \subseteq Nat \ {0}
  /\ PageBlocks \in Nat \ {0}

VARIABLES
  tree,    \* the tree on disk, never written
  fn,      \* which of the two functions runs
  pc,      \* where it is
  key,     \* xoff, or iagblock
  want,    \* *xlen as the caller set it
  p,       \* the current page
  base, lim, index, cmp,
  rc,      \* the return value
  xaddr,   \* *xaddr, or *address in blocks
  xlen     \* *xlen on return

vars == <<tree, fn, pc, key, want, p, base, lim, index, cmp, rc, xaddr, xlen>>

call   == <<tree, fn, key, want>>   \* what a call leaves alone once it is made
result == <<rc, xaddr, xlen>>

Page == tree.page[p]

TypeOK ==
  /\ tree  \in Trees
  /\ fn    \in {"xt_Lookup", "find_iag"}
  /\ pc    \in {"call", "page", "loop", "compare", "descend", "done", "failed"}
  /\ key   \in 0 .. MaxKey - 1
  /\ want  \in Nat
  /\ p     \in DOMAIN tree.page
  /\ base  \in Nat /\ lim \in Nat /\ index \in Nat
  /\ cmp   \in {-1, 0, 1}
  /\ rc    \in {-1, 0, 1}
  /\ xaddr \in Nat
  /\ xlen  \in Nat

(* Before a call; the local variables start without a value, here 0. *)
Init ==
  /\ tree \in Trees
  /\ fn   \in {"xt_Lookup", "find_iag"}
  /\ pc   = "call"
  /\ key  = 0 /\ want = 0
  /\ p    = Root
  /\ base = 0 /\ lim = 0 /\ index = 0
  /\ cmp  = 1
  /\ rc   = 0 /\ xaddr = 0 /\ xlen = 0

-----------------------------------------------------------------------------
(* xt_Lookup (&inode, k, &xaddr, &xlen), with *xlen = w. *)
CallLookup(k, w) ==
  /\ pc = "call" /\ fn = "xt_Lookup"
  /\ key' = k /\ want' = w
  /\ pc' = "page"
  /\ UNCHANGED <<tree, fn, p, base, lim, index, cmp, result>>

(* find_iag (iagnum, ...): iagblock = IAGTOLBLK (iagnum, L2PSIZE - l2bsize). *)
CallFindIag(iagnum) ==
  /\ pc = "call" /\ fn = "find_iag"
  /\ key' = (iagnum + 1) * PageBlocks /\ want' = 1
  /\ pc' = "page"
  /\ UNCHANGED <<tree, fn, p, base, lim, index, cmp, result>>

(* xRead of the fileset inode fails: find_iag returns 1. *)
FindIagFails ==
  /\ pc = "call" /\ fn = "find_iag"
  /\ rc' = 1
  /\ pc' = "failed"
  /\ UNCHANGED <<call, p, base, lim, index, cmp, xaddr, xlen>>

(* Mutant: the last entry is left out. *)
CountShort(pg) == pg.nextindex - XTENTRYSTART - 1

(* The number of entries of a page. *)
Count(pg) == pg.nextindex - XTENTRYSTART

(* base = XTENTRYSTART, lim = nextindex - XTENTRYSTART. *)
SearchPage ==
  /\ pc = "page"
  /\ base' = XTENTRYSTART
  /\ lim' = Count(Page)
  /\ pc' = "loop"
  /\ UNCHANGED <<call, p, index, cmp, result>>

(* index = base + (lim >> 1) *)
Probe ==
  /\ pc = "loop" /\ lim # 0
  /\ index' = base + lim \div 2
  /\ pc' = "compare"
  /\ UNCHANGED <<call, p, base, lim, cmp, result>>

(* XT_CMP and XT_CMP_4 *)
XT_CMP(k, x) ==
  IF k >= x.off + x.len THEN 1 ELSE IF k < x.off THEN -1 ELSE 0

(* Mutant: one block at a time. *)
ClipOne(w, r) == 1

(* MIN *)
Clip(w, r) == IF w < r THEN w ELSE r

(* A hit in a leaf: the address of the block and the length that is left of *)
(* the extent, at most what was asked for. find_iag has no length.          *)
Found ==
  /\ pc = "compare"
  /\ XT_CMP(key, Page.xad[index]) = 0 /\ Page.leaf
  /\ LET x == Page.xad[index]
         t == key - x.off
     IN  /\ xaddr' = x.addr + t
         /\ xlen' = Clip(want, x.len - t)
  /\ cmp' = 0 /\ rc' = 0
  /\ pc' = "done"
  /\ UNCHANGED <<call, p, base, lim, index>>

(* A hit in an internal page. *)
HitInternal ==
  /\ pc = "compare"
  /\ XT_CMP(key, Page.xad[index]) = 0 /\ ~Page.leaf
  /\ cmp' = 0
  /\ pc' = "descend"
  /\ UNCHANGED <<call, p, base, lim, index, result>>

(* Mutants: --lim is forgotten; the range is not halved. *)
RightOfFar(l) == l \div 2
LeftOfStuck(l) == l

(* What is left of a range of l entries on either side of the probe: --lim  *)
(* and lim >>= 1, or lim >>= 1 alone.                                       *)
RightOf(l) == (l - 1) \div 2

LeftOf(l) == l \div 2

(* base = index + 1, --lim, and lim >>= 1 at the end of the turn. *)
GoRight ==
  /\ pc = "compare"
  /\ XT_CMP(key, Page.xad[index]) > 0
  /\ cmp' = 1
  /\ base' = index + 1
  /\ lim' = RightOf(lim)
  /\ pc' = "loop"
  /\ UNCHANGED <<call, p, index, result>>

GoLeft ==
  /\ pc = "compare"
  /\ XT_CMP(key, Page.xad[index]) < 0
  /\ cmp' = -1
  /\ lim' = LeftOf(lim)
  /\ pc' = "loop"
  /\ UNCHANGED <<call, p, base, index, result>>

(* A miss in a leaf: xt_Lookup returns the last comparison, find_iag 1. *)
MissLeaf ==
  /\ pc = "loop" /\ lim = 0 /\ Page.leaf
  /\ rc' = IF fn = "xt_Lookup" THEN cmp ELSE 1
  /\ xlen' = want
  /\ pc' = "done"
  /\ UNCHANGED <<call, p, base, lim, index, cmp, xaddr>>

(* index = base ? base - 1 : base *)
BeforeBase(b) == IF b # 0 THEN b - 1 ELSE b

(* A miss in an internal page: the child before base. *)
MissInternal ==
  /\ pc = "loop" /\ lim = 0 /\ ~Page.leaf
  /\ index' = BeforeBase(base)
  /\ pc' = "descend"
  /\ UNCHANGED <<call, p, base, lim, cmp, result>>

(* Read the child page and search it. *)
Descend ==
  /\ pc = "descend"
  /\ p' = Page.xad[index].addr
  /\ pc' = "page"
  /\ UNCHANGED <<call, base, lim, index, cmp, result>>

Step ==
  \/ SearchPage \/ Probe \/ Found \/ HitInternal \/ GoRight \/ GoLeft
  \/ MissLeaf \/ MissInternal \/ Descend

Call ==
  \/ \E k \in 0 .. MaxKey - 1, w \in Lengths : CallLookup(k, w)
  \/ \E iagnum \in 0 .. MaxKey - 1 :
       (iagnum + 1) * PageBlocks < MaxKey /\ CallFindIag(iagnum)

Next == Call \/ FindIagFails \/ Step

Spec == Init /\ [][Next]_vars

(* A call that was made runs to its end. *)
FairSpec == Spec /\ WF_vars(Step)

-----------------------------------------------------------------------------
(* Properties.                                                              *)

(***************************************************************************)
(* Neither function ever reads an entry outside the ones in use: not the   *)
(* header slots below XTENTRYSTART, though a miss takes the entry before   *)
(* base (jfs_fileread.c:155), and not the slots from nextindex on.         *)
(***************************************************************************)
IndexInBounds ==
  pc \in {"compare", "descend"} => index \in Entries(Page)

(* The reference: the file is the set of the extents of all leaves. *)
Extents ==
  UNION {{tree.page[q].xad[i] : i \in Entries(tree.page[q])} :
            q \in {r \in DOMAIN tree.page : tree.page[r].leaf}}

Covering == {x \in Extents : x.off <= key /\ key < x.off + x.len}

(***************************************************************************)
(* The search agrees with the tree read as the set of the extents of all   *)
(* its leaves: it returns 0 exactly when one of them covers the block, and *)
(* then its disk address and a length that stays inside the extent.        *)
(***************************************************************************)
LookupCorrect ==
  pc = "done" =>
    /\ rc = 0 => \E x \in Covering :
         /\ xaddr = x.addr + (key - x.off)
         /\ 0 < xlen /\ xlen <= want
         /\ key + xlen <= x.off + x.len
    /\ rc # 0 => Covering = {}

(***************************************************************************)
(* Both functions return: the range of entries shrinks in every turn of    *)
(* the loop and every descent gets closer to a leaf.                       *)
(***************************************************************************)
LookupEnds == (pc = "page") ~> (pc = "done")

(* What a caller sees of a search: that it is under way. *)
Status == IF pc \in {"call", "done", "failed"} THEN pc ELSE "busy"

Map == INSTANCE ExtentMap WITH
  Block <- 0 .. MaxKey - 1, Length <- Lengths \cup {1},
  extents <- Extents, status <- Status

(***************************************************************************)
(* The descent of xt_Lookup and find_iag through the pages of a tree is,   *)
(* to their callers, one lookup in the set of extents of the file: each    *)
(* call is answered once, at its end, with the extent that covers the      *)
(* block or with the fact that none does, and nothing is written to *xaddr *)
(* and *xlen on the way down.                                              *)
(***************************************************************************)
ImplementsMap == Map!Spec

=============================================================================
