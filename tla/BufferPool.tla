----------------------------- MODULE BufferPool -----------------------------
(***************************************************************************)
(* The page buffers of xt_Lookup (jfs_fileread.c): bRead takes a buffer    *)
(* from the list bCachelist, which bAllocate refills when it is empty, and *)
(* copies a page of the extent tree into it; bRelease puts it back. The    *)
(* threads that serve page faults run xt_Lookup at the same time, and no   *)
(* lock protects the list, so every access to it is a step of its own.     *)
(*                                                                         *)
(* What a thread finds in a page is left to module XTree: here a page is   *)
(* internal or a leaf as the tree has it, and the child of page d of the   *)
(* tree that thread t searches is page d + 1. The root is in the inode and *)
(* takes no buffer. ujfs_read_diskblocks copies from the mapped disk and   *)
(* always returns 0, so that the error branch of bRead (lines 207 to 211)  *)
(* is never taken. nBuffer is counted and never read.                      *)
(***************************************************************************)
EXTENDS Integers, FiniteSets, FiniteSetsExt

CONSTANTS
  Thread,     \* the threads that serve page faults
  MaxBuf,     \* bound: the buffers there is memory for
  Sizes,      \* the values NBUFFER may be compiled with (8 in the source)
  Height,     \* bound: the pages below the root on the way to a leaf
  Onward,     \* bound: whether searches begin once operations have overlapped
  Null, NoPage

ASSUME PoolAssumption ==
  /\ IsFiniteSet(Thread)
  /\ MaxBuf \in Nat /\ Sizes \subseteq Nat \ {0} /\ Height \in Nat /\ Onward \in BOOLEAN
  /\ Null \notin 1 .. MaxBuf /\ NoPage \notin Thread \X (1 .. Height)

(* The buffers, numbered in the order in which they are allocated. *)
Buf == 1 .. MaxBuf

(* The pages below the root of the tree that each thread searches. *)
Page == Thread \X (1 .. Height)

(* The page that an entry of an internal page names. *)
Child(pg) == <<pg[1], pg[2] + 1>>

VARIABLES
  NBUFFER,      \* the buffers bAllocate adds at a time, never changed
  bCachelist,   \* the head of the list
  b_next,       \* the link of each buffer
  b_data,       \* the page in each buffer
  pool,         \* the buffers allocated so far
  pc,           \* where each thread is
  bp,           \* its buffer, in xt_Lookup or in bRead
  next,         \* the loaded bp->b_next
  t64,          \* the child page it reads or has read, NoPage in the root
  todo,         \* the buffers bAllocate has not put on the list yet
  ended,        \* "no", or how the translator ended: "exit" or "fault"
  raced         \* history: two operations on the list have overlapped

list   == <<bCachelist, b_next, pool>>
local  == <<bp, next, t64, todo>>
vars   == <<NBUFFER, bCachelist, b_next, b_data, pool, pc, bp, next, t64, todo, ended, raced>>

(* In the middle of bRelease, of bAllocate or of the unlinking of bRead:    *)
(* the list was read and is not yet written.                                *)
Inside == {"push", "malloc", "alink", "apush", "head", "next", "take"}

TypeOK ==
  /\ NBUFFER \in Sizes
  /\ bCachelist \in Buf \cup {Null}
  /\ b_next \in [Buf -> Buf \cup {Null}]
  /\ b_data \in [Buf -> Page \cup {NoPage}]
  /\ pool   \in SUBSET Buf
  /\ pc     \in [Thread -> {"idle", "search", "link", "test", "fill"} \cup Inside]
  /\ bp     \in [Thread -> Buf \cup {Null}]
  /\ next   \in [Thread -> Buf \cup {Null}]
  /\ t64    \in [Thread -> Page \cup {NoPage}]
  /\ todo   \in [Thread -> SUBSET Buf]
  /\ ended  \in {"no", "exit", "fault"}
  /\ raced  \in BOOLEAN

Init ==
  /\ NBUFFER \in Sizes
  /\ bCachelist = Null
  /\ b_next = [b \in Buf |-> Null]
  /\ b_data = [b \in Buf |-> NoPage]
  /\ pool   = {}
  /\ pc     = [t \in Thread |-> "idle"]
  /\ bp     = [t \in Thread |-> Null]
  /\ next   = [t \in Thread |-> Null]
  /\ t64    = [t \in Thread |-> NoPage]
  /\ todo   = [t \in Thread |-> {}]
  /\ ended  = "no"
  /\ raced  = FALSE

Goto(t, label) == pc' = [pc EXCEPT ![t] = label]

-----------------------------------------------------------------------------
(* xt_Lookup                                                                *)

(* bp = NULL, and the search begins in the root. *)
xt_Lookup(t) ==
  /\ pc[t] = "idle"
  /\ raced => Onward
  /\ bp' = [bp EXCEPT ![t] = Null]
  /\ Goto(t, "search")
  /\ UNCHANGED <<list, b_data, next, t64, todo, ended>>

(* Mutant: the buffer of the leaf is not released. *)
AfterLeafKept(t) == "idle"

(* Where a search goes on after an internal page and after a leaf: if there *)
(* is a buffer it is released first.                                        *)
AfterParent(t) == IF bp[t] = Null THEN "test" ELSE "link"

AfterLeaf(t) == IF bp[t] = Null THEN "idle" ELSE "link"

(* An internal page: t64 is read from it before its buffer is released. The *)
(* child is the one of the page that is in the buffer.                      *)
Descend(t) ==
  /\ pc[t] = "search"
  /\ \E pg \in Page :
       /\ pg = IF bp[t] = Null THEN <<t, 1>> ELSE Child(b_data[bp[t]])
       /\ t64' = [t64 EXCEPT ![t] = pg]
  /\ Goto(t, AfterParent(t))
  /\ UNCHANGED <<list, b_data, bp, next, todo, ended>>

(* A leaf: out. *)
Out(t) ==
  /\ pc[t] = "search"
  /\ t64' = [t64 EXCEPT ![t] = NoPage]
  /\ Goto(t, AfterLeaf(t))
  /\ UNCHANGED <<list, b_data, bp, next, todo, ended>>

-----------------------------------------------------------------------------
(* bRelease: bp->b_next = bCachelist, then bCachelist = bp. The value of bp  *)
(* is not used again: xt_Lookup returns or bRead sets it.                    *)

ReleaseLink(t) ==
  /\ pc[t] = "link"
  /\ b_next' = [b_next EXCEPT ![bp[t]] = bCachelist]
  /\ Goto(t, "push")
  /\ UNCHANGED <<bCachelist, pool, b_data, local, ended>>

ReleasePush(t) ==
  /\ pc[t] = "push"
  /\ bCachelist' = bp[t]
  /\ bp' = [bp EXCEPT ![t] = Null]
  /\ Goto(t, IF t64[t] = NoPage THEN "idle" ELSE "test")
  /\ UNCHANGED <<b_next, pool, b_data, next, t64, todo, ended>>

-----------------------------------------------------------------------------
(* bRead and bAllocate                                                      *)

(* if (bCachelist == NULL) *)
Test(t) ==
  /\ pc[t] = "test"
  /\ Goto(t, IF bCachelist = Null THEN "malloc" ELSE "head")
  /\ UNCHANGED <<list, b_data, local, ended>>

(* malloc fails: exit (0), for all threads. *)
NoMemory(t) ==
  /\ pc[t] = "malloc"
  /\ ended' = "exit"
  /\ UNCHANGED <<list, b_data, pc, local>>

(* Mutant: the loop of bAllocate goes one too far. *)
LoopedFar(new) == new \cup {Max(new) + 1}

(* The buffers that the loop of bAllocate puts on the list. *)
Looped(new) == new

(* NBUFFER new buffers, not yet on the list. *)
Malloc(t) ==
  LET n   == Cardinality(pool)
      new == n + 1 .. n + NBUFFER
  IN  /\ pc[t] = "malloc"
      /\ new \subseteq Buf
      /\ pool' = pool \cup new
      /\ todo' = [todo EXCEPT ![t] = Looped(new)]
      /\ Goto(t, "alink")
      /\ UNCHANGED <<bCachelist, b_next, b_data, bp, next, t64, ended>>

(* The loop of bAllocate, in ascending order: bp->b_next = bCachelist, then  *)
(* bCachelist = bp.                                                          *)
AllocLink(t) ==
  /\ pc[t] = "alink"
  /\ LET b == Min(todo[t])
     IN  /\ b_next' = [b_next EXCEPT ![b] = bCachelist]
         /\ bp'     = [bp EXCEPT ![t] = b]
         /\ todo'   = [todo EXCEPT ![t] = @ \ {b}]
  /\ Goto(t, "apush")
  /\ UNCHANGED <<bCachelist, pool, b_data, next, t64, ended>>

AllocPush(t) ==
  /\ pc[t] = "apush"
  /\ bCachelist' = bp[t]
  /\ Goto(t, IF todo[t] = {} THEN "head" ELSE "alink")
  /\ UNCHANGED <<b_next, pool, b_data, local, ended>>

(* bp = bCachelist *)
Head(t) ==
  /\ pc[t] = "head"
  /\ bp' = [bp EXCEPT ![t] = bCachelist]
  /\ Goto(t, "next")
  /\ UNCHANGED <<list, b_data, next, t64, todo, ended>>

(* bp->b_next is loaded. If another thread emptied the list since the test,  *)
(* bp is NULL and the translator faults.                                     *)
LoadNext(t) ==
  /\ pc[t] = "next" /\ bp[t] # Null
  /\ next' = [next EXCEPT ![t] = b_next[bp[t]]]
  /\ Goto(t, "take")
  /\ UNCHANGED <<list, b_data, bp, t64, todo, ended>>

Fault(t) ==
  /\ pc[t] = "next" /\ bp[t] = Null
  /\ ended' = "fault"
  /\ UNCHANGED <<list, b_data, pc, local>>

(* Mutant: the wrong field of the buffer. *)
TakenData(t) == b_data[bp[t]]

Taken(t) == next[t]

(* bCachelist = bp->b_next *)
Take(t) ==
  /\ pc[t] = "take"
  /\ bCachelist' = Taken(t)
  /\ next' = [next EXCEPT ![t] = Null]
  /\ Goto(t, "fill")
  /\ UNCHANGED <<b_next, pool, b_data, bp, t64, todo, ended>>

(* Mutant: a buffer that holds some page already is not read again. *)
CopiedOnce(t) == IF b_data[bp[t]] = NoPage THEN t64[t] ELSE b_data[bp[t]]

Copied(t) == t64[t]

(* ujfs_read_diskblocks copies the page; *bpp = bp, and p = bp->b_data. *)
Fill(t) ==
  /\ pc[t] = "fill"
  /\ b_data' = [b_data EXCEPT ![bp[t]] = Copied(t)]
  /\ Goto(t, "search")
  /\ UNCHANGED <<list, local, ended>>

-----------------------------------------------------------------------------
Step(t) ==
  \/ Descend(t) \/ Out(t)
  \/ ReleaseLink(t) \/ ReleasePush(t)
  \/ Test(t) \/ NoMemory(t) \/ Malloc(t)
  \/ AllocLink(t) \/ AllocPush(t)
  \/ Head(t) \/ LoadNext(t) \/ Fault(t) \/ Take(t) \/ Fill(t)

Next ==
  /\ ended = "no"
  /\ \E t \in Thread : xt_Lookup(t) \/ Step(t)
  /\ NBUFFER' = NBUFFER
  /\ raced' = (raced \/ Cardinality({t \in Thread : pc'[t] \in Inside}) > 1)

Spec == Init /\ [][Next]_vars

-----------------------------------------------------------------------------
(* Properties.                                                              *)

(* The list, followed for k links. *)
Nth[k \in Nat] ==
  IF k = 0 THEN bCachelist ELSE IF Nth[k - 1] = Null THEN Null ELSE b_next[Nth[k - 1]]

Free == {Nth[k] : k \in 0 .. Cardinality(Buf)} \ {Null}

(* The threads that have a buffer of their own in bp. *)
Holders == {t \in Thread : \/ pc[t] \in {"link", "push", "apush", "fill"}
                           \/ pc[t] = "search" /\ bp[t] # Null}

InHand == {bp[t] : t \in Holders} \cup UNION {todo[t] : t \in Thread}

(***************************************************************************)
(* As long as no two operations on bCachelist have overlapped, every       *)
(* buffer that was allocated is on the list once or in the hands of one    *)
(* thread: none is lost, none is shared, and the list ends. It is never    *)
(* empty when its head is taken, and since a search has at most one buffer *)
(* in hand the pool grows only while all others hold one: it stays within  *)
(* one buffer per other thread and one allocation. Overlapping operations  *)
(* (jfs_fileread.c:196-199 and 248-249) are the only way in which the pool *)
(* goes wrong.                                                             *)
(***************************************************************************)
PoolSound ==
  ~raced =>
    /\ Free \cup InHand = pool
    /\ Free \cap InHand = {}
    /\ \A t, u \in Holders : bp[t] = bp[u] => t = u
    /\ Nth[Cardinality(Free)] = Null
    /\ ended # "fault"
    /\ Cardinality(pool) <= Cardinality(Thread) - 1 + NBUFFER

(***************************************************************************)
(* Without such an overlap a thread searches the page it asked for,        *)
(* although its parent's buffer was released, and perhaps overwritten by   *)
(* another search, before the child was read.                              *)
(***************************************************************************)
OwnPage ==
  ~raced => \A t \in Thread :
    pc[t] = "search" /\ bp[t] # Null => b_data[bp[t]] = t64[t] /\ t64[t][1] = t

(***************************************************************************)
(* Whatever overlaps, the list and the buffers in use are memory that      *)
(* bAllocate obtained: an overlap loses or shares buffers, it does not     *)
(* make the translator write to other memory.                              *)
(***************************************************************************)
ListInPool == Free \cup InHand \subseteq pool

=============================================================================
