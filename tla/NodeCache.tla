----------------------------- MODULE NodeCache -----------------------------
(***************************************************************************)
(* The in-core node cache of the translator (dir.c): nodehash, the node    *)
(* reference counts and the two kinds of lock around them.                 *)
(*                                                                         *)
(* Every RPC thread enters the cache through diskfs_cached_lookup, which   *)
(* finds or creates the node of an inode number, and leaves it through     *)
(* libdiskfs (diskfs_nref, diskfs_nput, diskfs_nrele), which calls back    *)
(* diskfs_node_norefs when the last reference is gone.                     *)
(*                                                                         *)
(* Sections under diskfs_node_refcnt_lock are single steps, except that a  *)
(* change of np->references is a load step and a store step: dir.c:358     *)
(* increments the count with no lock held, so its load and store can fall  *)
(* between those of any other thread.                                      *)
(*                                                                         *)
(* Abstractions: nodehash is the set of nodes it holds (the links of its   *)
(* chains are the subject of module HashChain); an address is used  *)
(* for one node only; light references belong to module FilePager. A step  *)
(* that would touch a freed node is undefined in C: the guard np[t] \in     *)
(* hashed ends the behaviour of that thread there.                         *)
(***************************************************************************)
EXTENDS Integers, FiniteSets

CONSTANTS
  Thread,        \* RPC threads of the translator
  Node,          \* addresses diskfs_make_node can return
  Inum,          \* inode numbers that are looked up
  BadInum,       \* those for which find_inode or xRead fails
  MaxKeep,       \* bound: extra references clients keep on one node
  CatchMayFail,  \* whether diskfs_catch_exception may return an error
  NoThread, NoNode, NoInum

ASSUME CacheAssumption ==
  /\ IsFiniteSet(Thread)
  /\ BadInum \subseteq Inum
  /\ MaxKeep \in Nat
  /\ CatchMayFail \in BOOLEAN
  /\ NoThread \notin Thread /\ NoNode \notin Node /\ NoInum \notin Inum

VARIABLES
  hashed,   \* the nodes in nodehash
  used,     \* the nodes ever returned by diskfs_make_node
  inum,     \* np->cache_id
  refs,     \* np->references
  stat,     \* np->dn_stat: not read, partly filled in, complete
  mutex,    \* np->lock: the thread that locked it
  spin,     \* diskfs_node_refcnt_lock: the thread that holds it
  pc,       \* where each thread is
  np,       \* the node each thread works on
  reg,      \* the loaded value of np->references of a pending update
  err,      \* what diskfs_cached_lookup returned, or will return
  keeps,    \* references kept by clients beyond the RPC that took them
  leak,     \* history: references that nobody is going to release
  lost      \* history: net change of references overwritten by stores

vars == <<hashed, used, inum, refs, stat, mutex, spin,
          pc, np, reg, err, keeps, leak, lost>>

(***************************************************************************)
(* The places of a thread. "hit", "nref", "nput" and "nrele" lie between   *)
(* the load and the store of np->references under the spin lock, "fill"    *)
(* between the first and the last assignment of read_node under it.        *)
(* "load" and "store" are the two halves of dir.c:358.                     *)
(***************************************************************************)
Updating == {"hit", "nref", "nput", "nrele"}
Creating == {"read", "fill", "load", "store"}
Holding  == {"mutex", "use", "nref", "nput"}
PC       == {"idle"} \cup Updating \cup Creating \cup Holding

Errors == {"ok", "EIO", "exception", "ENOMEM"}

TypeOK ==
  /\ hashed \in SUBSET Node
  /\ used   \in SUBSET Node
  /\ hashed \subseteq used
  /\ inum   \in [Node -> Inum \cup {NoInum}]
  /\ refs   \in [Node -> Nat]
  /\ stat   \in [Node -> {"unread", "raw", "ready"}]
  /\ mutex  \in [Node -> Thread \cup {NoThread}]
  /\ spin   \in Thread \cup {NoThread}
  /\ pc     \in [Thread -> PC]
  /\ np     \in [Thread -> Node \cup {NoNode}]
  /\ reg    \in [Thread -> Nat]
  /\ err    \in [Thread -> Errors]
  /\ keeps  \in [Node -> Nat]
  /\ leak   \in [Node -> Nat]
  /\ lost   \in [Node -> Int]

(* inode_init empties nodehash; no thread has looked anything up yet. *)
Init ==
  /\ hashed = {}
  /\ used   = {}
  /\ inum   = [n \in Node |-> NoInum]
  /\ refs   = [n \in Node |-> 0]
  /\ stat   = [n \in Node |-> "unread"]
  /\ mutex  = [n \in Node |-> NoThread]
  /\ spin   = NoThread
  /\ pc     = [t \in Thread |-> "idle"]
  /\ np     = [t \in Thread |-> NoNode]
  /\ reg    = [t \in Thread |-> 0]
  /\ err    = [t \in Thread |-> "ok"]
  /\ keeps  = [n \in Node |-> 0]
  /\ leak   = [n \in Node |-> 0]
  /\ lost   = [n \in Node |-> 0]

-----------------------------------------------------------------------------
(* Steps shared by several actions.                                         *)

Goto(t, label) == pc' = [pc EXCEPT ![t] = label]

(* Mutants: the lock is neither waited for nor taken; it is kept for good. *)
SpinLockNone(t) == spin' = spin
SpinUnlockNone == spin' = spin

(* spin_lock (&diskfs_node_refcnt_lock) and its release. *)
SpinLock(t)  == spin = NoThread /\ spin' = t

SpinUnlock == spin' = NoThread

(* Load np->references of n into t's register. *)
Load(t, n) == reg' = [reg EXCEPT ![t] = refs[n]]

(* Store t's register plus d into np->references of n. What other threads  *)
(* did to the count since t loaded it is overwritten.                       *)
Store(t, n, d) ==
  /\ refs' = [refs EXCEPT ![n] = reg[t] + d]
  /\ lost' = [lost EXCEPT ![n] = @ + (refs[n] - reg[t])]

(* Mutants: the node is freed but stays in its chain; the whole chain is     *)
(* cut off where the node was.                                               *)
NorefsKeepsLinked(n) == hashed' = hashed
NorefsCutsChain(n)   == hashed' = {}

(* diskfs_node_norefs, called with the spin lock held once the count is 0:  *)
(* the node is unlinked from nodehash and freed.                            *)
diskfs_node_norefs(n) == hashed' = hashed \ {n}

-----------------------------------------------------------------------------
(* diskfs_cached_lookup                                                     *)

(* The chain search finds the node: *npp = np and the first half of          *)
(* np->references++.                                                         *)
LookupHit(t, i) ==
  /\ pc[t] = "idle"
  /\ SpinLock(t)
  /\ \E n \in hashed :
       /\ inum[n] = i
       /\ np' = [np EXCEPT ![t] = n]
       /\ Load(t, n)
  /\ err' = [err EXCEPT ![t] = "ok"]
  /\ Goto(t, "hit")
  /\ UNCHANGED <<hashed, used, inum, refs, stat, mutex, keeps, leak, lost>>

(* The second half of np->references++, then spin_unlock. *)
LookupCounted(t) ==
  /\ pc[t] = "hit"
  /\ np[t] \in hashed
  /\ Store(t, np[t], 1)
  /\ SpinUnlock
  /\ Goto(t, "mutex")
  /\ UNCHANGED <<hashed, used, inum, stat, mutex, np, reg, err, keeps, leak>>

(* pthread_mutex_lock (&np->lock), then return 0. *)
LookupLocked(t) ==
  /\ pc[t] = "mutex"
  /\ np[t] \in hashed
  /\ mutex[np[t]] = NoThread
  /\ mutex' = [mutex EXCEPT ![np[t]] = t]
  /\ Goto(t, "use")
  /\ UNCHANGED <<hashed, used, inum, refs, stat, spin, np, reg, err, keeps, leak, lost>>

(* The chain search fails. *)
Absent(i) == \A n \in hashed : inum[n] # i

(* The search fails, and so does malloc or diskfs_make_node: *npp = 0. *)
LookupNoMemory(t, i) ==
  /\ pc[t] = "idle"
  /\ spin = NoThread
  /\ Absent(i)
  /\ err' = [err EXCEPT ![t] = "ENOMEM"]
  /\ UNCHANGED <<hashed, used, inum, refs, stat, mutex, spin, pc, np, reg, keeps, leak, lost>>

(* Mutant: np->cache_id is set only once the node is filled in. *)
CacheIdLate(i) == NoInum

(* np->cache_id = inum *)
CacheId(i) == i

(* The search fails and the new node is put into nodehash. It comes with    *)
(* the one reference diskfs_make_node gives it, which nobody ever releases, *)
(* and it is not locked (dir.c:341 and 356 are commented out).              *)
LookupMiss(t, i) ==
  /\ pc[t] = "idle"
  /\ spin = NoThread
  /\ Absent(i)
  /\ \E n \in Node \ used :
       /\ used'   = used \cup {n}
       /\ hashed' = hashed \cup {n}
       /\ inum'   = [inum EXCEPT ![n] = CacheId(i)]
       /\ refs'   = [refs EXCEPT ![n] = 1]
       /\ leak'   = [leak EXCEPT ![n] = 1]
       /\ np'     = [np EXCEPT ![t] = n]
  /\ Goto(t, "read")
  /\ UNCHANGED <<stat, mutex, spin, reg, err, keeps, lost>>

(* read_node: find_inode or xRead reports an error. *)
ReadNodeFails(t) ==
  /\ pc[t] = "read"
  /\ np[t] \in hashed
  /\ inum[np[t]] \in BadInum
  /\ err' = [err EXCEPT ![t] = "EIO"]
  /\ Goto(t, "load")
  /\ UNCHANGED <<hashed, used, inum, refs, stat, mutex, spin, np, reg, keeps, leak, lost>>

(* read_node: the disk inode is in hand; spin_lock, and the assignments to  *)
(* dn_stat begin (st_mode holds the raw di_mode at first).                  *)
ReadNodeFill(t) ==
  /\ pc[t] = "read"
  /\ np[t] \in hashed
  /\ inum[np[t]] \notin BadInum
  /\ SpinLock(t)
  /\ stat' = [stat EXCEPT ![np[t]] = "raw"]
  /\ Goto(t, "fill")
  /\ UNCHANGED <<hashed, used, inum, refs, mutex, np, reg, err, keeps, leak, lost>>

(* read_node: diskfs_catch_exception reports an error after spin_lock, and   *)
(* the early return does not unlock.                                         *)
ReadNodeException(t) ==
  /\ CatchMayFail
  /\ pc[t] = "read"
  /\ np[t] \in hashed
  /\ inum[np[t]] \notin BadInum
  /\ SpinLock(t)
  /\ err' = [err EXCEPT ![t] = "exception"]
  /\ Goto(t, "load")
  /\ UNCHANGED <<hashed, used, inum, refs, stat, mutex, np, reg, keeps, leak, lost>>

(* read_node: st_mode gets its final value; spin_unlock; return 0. *)
ReadNodeDone(t) ==
  /\ pc[t] = "fill"
  /\ np[t] \in hashed
  /\ stat' = [stat EXCEPT ![np[t]] = "ready"]
  /\ err'  = [err EXCEPT ![t] = "ok"]
  /\ SpinUnlock
  /\ Goto(t, "load")
  /\ UNCHANGED <<hashed, used, inum, refs, mutex, np, reg, keeps, leak, lost>>

(* dir.c:358, np->references++ with no lock: load. *)
CreatorLoad(t) ==
  /\ pc[t] = "load"
  /\ np[t] \in hashed
  /\ Load(t, np[t])
  /\ Goto(t, "store")
  /\ UNCHANGED <<hashed, used, inum, refs, stat, mutex, spin, np, err, keeps, leak, lost>>

(* Mutant: the lookup that creates the node does not count its own use. *)
CreatorUseNone == 0

CreatorUse == 1

(* dir.c:358 to 360: store, *npp = np, return err. *)
CreatorStore(t) ==
  /\ pc[t] = "store"
  /\ np[t] \in hashed
  /\ Store(t, np[t], CreatorUse)
  /\ Goto(t, "use")
  /\ UNCHANGED <<hashed, used, inum, stat, mutex, spin, np, reg, err, keeps, leak>>

(* diskfs_lookup_hard hands an error on to libdiskfs, which drops the        *)
(* pointer; the reference stays behind. (For "..", dir.c:178 and 186 ignore  *)
(* the error and the node is used like any other.)                           *)
Abandon(t) ==
  /\ pc[t] = "use"
  /\ err[t] \in {"EIO", "exception"}
  /\ leak' = [leak EXCEPT ![np[t]] = @ + 1]
  /\ np'   = [np EXCEPT ![t] = NoNode]
  /\ Goto(t, "idle")
  /\ UNCHANGED <<hashed, used, inum, refs, stat, mutex, spin, reg, err, keeps, lost>>

-----------------------------------------------------------------------------
(* libdiskfs: references taken and released by the users of a node.         *)

(* diskfs_nref on the node in use, for "." (dir.c:193) or an open file. *)
NrefLoad(t) ==
  /\ pc[t] = "use"
  /\ np[t] \in hashed
  /\ keeps[np[t]] < MaxKeep
  /\ SpinLock(t)
  /\ Load(t, np[t])
  /\ Goto(t, "nref")
  /\ UNCHANGED <<hashed, used, inum, refs, stat, mutex, np, err, keeps, leak, lost>>

NrefStore(t) ==
  /\ pc[t] = "nref"
  /\ np[t] \in hashed
  /\ Store(t, np[t], 1)
  /\ keeps' = [keeps EXCEPT ![np[t]] = @ + 1]
  /\ SpinUnlock
  /\ Goto(t, "use")
  /\ UNCHANGED <<hashed, used, inum, stat, mutex, np, reg, err, leak>>

(* The store of a decrement: the count may reach zero. *)
ReleaseStore(t, n) ==
  /\ Store(t, n, -1)
  /\ IF reg[t] = 1 THEN diskfs_node_norefs(n) ELSE hashed' = hashed
  /\ SpinUnlock
  /\ np' = [np EXCEPT ![t] = NoNode]
  /\ Goto(t, "idle")

(* diskfs_nput: drop the reference and unlock np->lock, whoever locked it. *)
NputLoad(t) ==
  /\ pc[t] = "use"
  /\ np[t] \in hashed
  /\ SpinLock(t)
  /\ Load(t, np[t])
  /\ Goto(t, "nput")
  /\ UNCHANGED <<hashed, used, inum, refs, stat, mutex, np, err, keeps, leak, lost>>

NputStore(t) ==
  /\ pc[t] = "nput"
  /\ np[t] \in hashed
  /\ ReleaseStore(t, np[t])
  /\ mutex' = [mutex EXCEPT ![np[t]] = NoThread]
  /\ UNCHANGED <<used, inum, stat, reg, err, keeps, leak>>

(* diskfs_nrele: a client gives up a reference it kept. *)
NreleLoad(t, n) ==
  /\ pc[t] = "idle"
  /\ n \in hashed
  /\ keeps[n] > 0
  /\ SpinLock(t)
  /\ np' = [np EXCEPT ![t] = n]
  /\ Load(t, n)
  /\ Goto(t, "nrele")
  /\ UNCHANGED <<hashed, used, inum, refs, stat, mutex, err, keeps, leak, lost>>

NreleStore(t) ==
  /\ pc[t] = "nrele"
  /\ np[t] \in hashed
  /\ ReleaseStore(t, np[t])
  /\ keeps' = [keeps EXCEPT ![np[t]] = @ - 1]
  /\ UNCHANGED <<used, inum, stat, mutex, reg, err, leak>>

-----------------------------------------------------------------------------
Lookup(t) ==
  \/ \E i \in Inum : LookupHit(t, i) \/ LookupNoMemory(t, i) \/ LookupMiss(t, i)
  \/ LookupCounted(t) \/ LookupLocked(t)
  \/ ReadNodeFails(t) \/ ReadNodeFill(t) \/ ReadNodeException(t) \/ ReadNodeDone(t)
  \/ CreatorLoad(t) \/ CreatorStore(t)

Client(t) ==
  \/ Abandon(t)
  \/ NrefLoad(t) \/ NrefStore(t)
  \/ NputLoad(t) \/ NputStore(t)
  \/ (\E n \in Node : NreleLoad(t, n)) \/ NreleStore(t)

Next == \E t \in Thread : Lookup(t) \/ Client(t)

Spec == Init /\ [][Next]_vars

(* A thread that runs keeps running; whether it enters the cache again, and  *)
(* whether it takes or gives up a kept reference, is up to its clients.      *)
Proceed(t) ==
  \/ LookupCounted(t) \/ LookupLocked(t)
  \/ ReadNodeFails(t) \/ ReadNodeFill(t) \/ ReadNodeDone(t)
  \/ CreatorLoad(t) \/ CreatorStore(t)
  \/ NrefStore(t) \/ NputLoad(t) \/ NputStore(t) \/ NreleStore(t)

FairSpec == Spec /\ \A t \in Thread : WF_vars(Proceed(t))

-----------------------------------------------------------------------------
(* Properties.                                                              *)

(* The threads with a reference on n of their own. *)
Holders(n) == {t \in Thread : np[t] = n /\ pc[t] \in Holding}

(* The threads inside dir.c that have n in hand, counted or not. *)
Users(n) == {t \in Thread : np[t] = n}

(***************************************************************************)
(* diskfs_cached_lookup searches and inserts under one hold of the spin    *)
(* lock (dir.c:307-353), so that however the lookups of one inode number   *)
(* interleave, nodehash never holds two nodes for it: two nodes would mean *)
(* two np->lock mutexes and two pagers for one file.                       *)
(***************************************************************************)
OneNodePerInum ==
  \A m, n \in hashed : inum[m] = inum[n] => m = n

(***************************************************************************)
(* np->references of a node is what its users hold, plus what was leaked   *)
(* (the reference of diskfs_make_node, dir.c:333, and those of failed      *)
(* lookups), minus what the unlocked increment of dir.c:358 overwrote.     *)
(***************************************************************************)
RefAccounting ==
  \A n \in used :
    refs[n] + lost[n] = leak[n] + keeps[n] + Cardinality(Holders(n))

(***************************************************************************)
(* The reference leaked by every miss hides one lost update: as long as at *)
(* most one increment was overwritten, diskfs_node_norefs never frees a    *)
(* node that a thread has in hand or a client keeps a reference to.        *)
(***************************************************************************)
NoUseAfterFree ==
  \A n \in used :
    lost[n] <= 1 => n \in hashed \/ (Users(n) = {} /\ keeps[n] = 0)

Table == INSTANCE NodeTable WITH entries <- {<<inum[n], n>> : n \in hashed}

(***************************************************************************)
(* To the threads together, however their lookups and releases interleave, *)
(* nodehash is the table of module NodeTable: a node gets in with its      *)
(* inode number, only by a lookup that found none, and once in it keeps    *)
(* its number until the release of its last reference takes it, and it     *)
(* alone, out.                                                             *)
(***************************************************************************)
ImplementsTable == Table!Spec

(* No creation of n is under way, and no update of its count that is under *)
(* way started from a value that is stale by now.                          *)
Settled(n) ==
  \A t \in Thread : np[t] = n =>
    /\ pc[t] \notin Creating
    /\ pc[t] \in Updating => reg[t] = refs[n]

(***************************************************************************)
(* dir.c:358 is the only unprotected update: once the lookup that created  *)
(* a node has returned and the updates it overlapped are over, no update   *)
(* of np->references is ever lost again.                                   *)
(***************************************************************************)
CountSettles ==
  [][\A n \in used : Settled(n) => Settled(n)' /\ lost'[n] = lost[n]]_vars

(***************************************************************************)
(* read_node, diskfs_cached_lookup and libdiskfs always give the spin lock *)
(* back, in whatever order the threads run, except after the error return  *)
(* of diskfs_catch_exception (dir.c:231), which keeps the lock for good.   *)
(***************************************************************************)
SpinReleased ==
  (spin # NoThread) ~> (spin = NoThread \/ err[spin] = "exception")

(***************************************************************************)
(* What the assertion of diskfs_get_filemap (pager.c:53-55) and the remark *)
(* of dir.c:182-184, "we are permanently read-only, so things are          *)
(* necessarily quiescent", take for granted: the dn_stat of a node that a  *)
(* successful lookup returned has been read from disk.                     *)
(***************************************************************************)
ModeKnown ==
  \A t \in Thread :
    pc[t] = "use" /\ err[t] = "ok" => stat[np[t]] # "unread"

=============================================================================
