----------------------------- MODULE FilePager -----------------------------
(***************************************************************************)
(* The file pagers of the translator (pager.c): how diskfs_get_filemap     *)
(* finds or creates the pager of a node, how a pager goes away when its    *)
(* last send right does, and how diskfs_pager_users decides whether the    *)
(* translator may shut down.                                               *)
(*                                                                         *)
(* node2pagelock is held from one step to the next; the sections of        *)
(* libports and libdiskfs under their own locks are single steps. Both are *)
(* modelled from how pager.c uses them:                                    *)
(*   - pager_get_port returns null once the port of a pager is being       *)
(*     deallocated, and otherwise counts a right to be made, so that a     *)
(*     no-senders notification sent earlier is ignored;                    *)
(*   - the deallocation takes the port out of its bucket first and calls   *)
(*     pager_clear_user_data afterwards, on a thread of its own;           *)
(*   - a node is freed (diskfs_node_norefs) when it has neither hard nor   *)
(*     light references left;                                              *)
(*   - ports_count_bucket makes pager_create wait until                    *)
(*     ports_enable_bucket.                                                *)
(* Addresses of nodes and of user_pager_info records are used again after  *)
(* they are freed.                                                         *)
(***************************************************************************)
EXTENDS Integers, FiniteSets

CONSTANTS
  Thread,     \* RPC threads
  Node,       \* addresses of nodes
  Upi,        \* addresses of struct user_pager_info
  MaxHard,    \* bound: hard references on one node
  MaxRight,   \* bound: send rights on one pager held by clients
  NoThread, NoNode, NoUpi

ASSUME PagerAssumption ==
  /\ IsFiniteSet(Thread) /\ IsFiniteSet(Upi)
  /\ MaxHard \in Nat /\ MaxRight \in Nat
  /\ NoThread \notin Thread \cup Upi /\ NoNode \notin Node /\ NoUpi \notin Upi
  /\ Thread \cap Upi = {}

VARIABLES
  hard,       \* np->references
  light,      \* np->light_references
  fileinfo,   \* np->dn->fileinfo
  upinp,      \* upi->np
  phase,      \* where a user_pager_info and its pager are in their life
  caching,    \* the may_cache attribute of the pager
  rights,     \* send rights for the pager held by clients or the kernel
  lock,       \* node2pagelock: the thread, or the dying pager, that holds it
  pc,         \* where each thread is in diskfs_get_filemap
  np,         \* the node it was called for
  upi,        \* its local upi, and from "insert" on the pager of right
  inhibited,  \* whether pager_bucket refuses new ports
  sd          \* where diskfs_pager_users is

vars == <<hard, light, fileinfo, upinp, phase, caching, rights, lock,
          pc, np, upi, inhibited, sd>>

(***************************************************************************)
(* A record is "free" memory, then "alloc" once it holds a light reference *)
(* on its node, "live" once its pager exists, "dying" once the port is     *)
(* gone, "clearing" while pager_clear_user_data holds node2pagelock, and   *)
(* "cleared" until its light reference is dropped and it is freed.         *)
(***************************************************************************)
Phase == {"free", "alloc", "live", "dying", "clearing", "cleared"}

(* A node address is in use while anything refers to the node. *)
Exists(n) == hard[n] + light[n] > 0

Live == {u \in Upi : phase[u] = "live"}

TypeOK ==
  /\ hard      \in [Node -> Nat]
  /\ light     \in [Node -> Nat]
  /\ fileinfo  \in [Node -> Upi \cup {NoUpi}]
  /\ upinp     \in [Upi -> Node \cup {NoNode}]
  /\ phase     \in [Upi -> Phase]
  /\ caching   \in [Upi -> BOOLEAN]
  /\ rights    \in [Upi -> Nat]
  /\ lock      \in Thread \cup Upi \cup {NoThread}
  /\ pc        \in [Thread -> {"idle", "enter", "loop", "create", "insert"}]
  /\ np        \in [Thread -> Node \cup {NoNode}]
  /\ upi       \in [Thread -> Upi \cup {NoUpi}]
  /\ inhibited \in BOOLEAN
  /\ sd        \in {"idle", "block", "sleep", "enable", "reopen", "quiet"}

(* create_disk_pager made the bucket; no file has a pager yet. *)
Init ==
  /\ hard      = [n \in Node |-> 0]
  /\ light     = [n \in Node |-> 0]
  /\ fileinfo  = [n \in Node |-> NoUpi]
  /\ upinp     = [u \in Upi |-> NoNode]
  /\ phase     = [u \in Upi |-> "free"]
  /\ caching   = [u \in Upi |-> FALSE]
  /\ rights    = [u \in Upi |-> 0]
  /\ lock      = NoThread
  /\ pc        = [t \in Thread |-> "idle"]
  /\ np        = [t \in Thread |-> NoNode]
  /\ upi       = [t \in Thread |-> NoUpi]
  /\ inhibited = FALSE
  /\ sd        = "idle"

-----------------------------------------------------------------------------
(* Users of nodes.                                                          *)

(* The threads that work on n, each with a hard reference of its caller. *)
Callers(n) == {t \in Thread : pc[t] # "idle" /\ np[t] = n}

(* The threads that were promised a right for u and did not make it yet. *)
Promised(u) == {t \in Thread : pc[t] = "insert" /\ upi[t] = u}

(* diskfs_cached_lookup takes a hard reference, of a new node if need be;   *)
(* dn->fileinfo = 0 in a new node (dir.c:332).                              *)
Open(n) ==
  /\ hard[n] < MaxHard
  /\ hard' = [hard EXCEPT ![n] = @ + 1]
  /\ fileinfo' = IF Exists(n) THEN fileinfo ELSE [fileinfo EXCEPT ![n] = NoUpi]
  /\ UNCHANGED <<light, upinp, phase, caching, rights, lock, pc, np, upi, inhibited, sd>>

(* diskfs_nrele by a user that is not inside diskfs_get_filemap. *)
Close(n) ==
  /\ hard[n] > Cardinality(Callers(n))
  /\ hard' = [hard EXCEPT ![n] = @ - 1]
  /\ UNCHANGED <<light, fileinfo, upinp, phase, caching, rights, lock, pc, np, upi, inhibited, sd>>

-----------------------------------------------------------------------------
(* diskfs_get_filemap                                                       *)

GetFilemap(t, n) ==
  /\ pc[t] = "idle"
  /\ hard[n] > Cardinality(Callers(n))
  /\ pc' = [pc EXCEPT ![t] = "enter"]
  /\ np' = [np EXCEPT ![t] = n]
  /\ UNCHANGED <<hard, light, fileinfo, upinp, phase, caching, rights, lock, upi, inhibited, sd>>

(* spin_lock (&node2pagelock). The second conjunct is a bound: malloc does   *)
(* not run out of addresses while pagers wait to be cleared.                 *)
LockNode2Page(t) ==
  /\ pc[t] = "enter"
  /\ \E u \in Upi : phase[u] = "free"
  /\ lock = NoThread
  /\ lock' = t
  /\ pc' = [pc EXCEPT ![t] = "loop"]
  /\ UNCHANGED <<hard, light, fileinfo, upinp, phase, caching, rights, np, upi, inhibited, sd>>

(* No fileinfo: malloc of a upi, upi->np = np, diskfs_nref_light. *)
AllocUpi(t) ==
  /\ pc[t] = "loop"
  /\ fileinfo[np[t]] = NoUpi
  /\ \E u \in Upi :
       /\ phase[u] = "free"
       /\ phase' = [phase EXCEPT ![u] = "alloc"]
       /\ upinp' = [upinp EXCEPT ![u] = np[t]]
       /\ upi'   = [upi EXCEPT ![t] = u]
  /\ light' = [light EXCEPT ![np[t]] = @ + 1]
  /\ pc' = [pc EXCEPT ![t] = "create"]
  /\ UNCHANGED <<hard, fileinfo, caching, rights, lock, np, inhibited, sd>>

(* Mutants: two references are dropped; none is. *)
NreleLightTwice(n) == [light EXCEPT ![n] = @ - 2]
NreleLightNone(n)  == light

diskfs_nrele_light(n) == [light EXCEPT ![n] = @ - 1]

(* pager_create fails: diskfs_nrele_light, free (upi), unlock, return null. *)
PagerCreateFails(t) ==
  /\ pc[t] = "create"
  /\ phase' = [phase EXCEPT ![upi[t]] = "free"]
  /\ upinp' = [upinp EXCEPT ![upi[t]] = NoNode]
  /\ light' = diskfs_nrele_light(np[t])
  /\ lock'  = NoThread
  /\ pc'    = [pc EXCEPT ![t] = "idle"]
  /\ np'    = [np EXCEPT ![t] = NoNode]
  /\ upi'   = [upi EXCEPT ![t] = NoUpi]
  /\ UNCHANGED <<hard, fileinfo, caching, rights, inhibited, sd>>

(* pager_create succeeds, with may_cache 1: the pager is published in        *)
(* fileinfo, its right is taken, the creation reference dropped, the lock    *)
(* released.                                                                 *)
PagerCreated(t) ==
  /\ pc[t] = "create"
  /\ ~inhibited
  /\ phase'    = [phase EXCEPT ![upi[t]] = "live"]
  /\ caching'  = [caching EXCEPT ![upi[t]] = TRUE]
  /\ fileinfo' = [fileinfo EXCEPT ![np[t]] = upi[t]]
  /\ lock'     = NoThread
  /\ pc'       = [pc EXCEPT ![t] = "insert"]
  /\ UNCHANGED <<hard, light, upinp, rights, np, upi, inhibited, sd>>

(* There is a pager and pager_get_port returns its right. *)
PagerFound(t) ==
  /\ pc[t] = "loop"
  /\ \E u \in Live :
       /\ fileinfo[np[t]] = u
       /\ upi' = [upi EXCEPT ![t] = u]
  /\ lock' = NoThread
  /\ pc'   = [pc EXCEPT ![t] = "insert"]
  /\ UNCHANGED <<hard, light, fileinfo, upinp, phase, caching, rights, np, inhibited, sd>>

(* Mutant: loop without clearing fileinfo. *)
ForgottenNot(n) == fileinfo

(* np->dn->fileinfo = 0 *)
Forgotten(n) == [fileinfo EXCEPT ![n] = NoUpi]

(* The pager is nearly deallocated: clear fileinfo here and loop. *)
PagerNearlyGone(t) ==
  /\ pc[t] = "loop"
  /\ fileinfo[np[t]] \in Upi \ Live
  /\ fileinfo' = Forgotten(np[t])
  /\ UNCHANGED <<hard, light, upinp, phase, caching, rights, lock, pc, np, upi, inhibited, sd>>

(* mach_port_insert_right, and the right goes to the caller. *)
InsertRight(t) ==
  /\ pc[t] = "insert"
  /\ rights[upi[t]] < MaxRight
  /\ rights' = [rights EXCEPT ![upi[t]] = @ + 1]
  /\ pc'  = [pc EXCEPT ![t] = "idle"]
  /\ np'  = [np EXCEPT ![t] = NoNode]
  /\ upi' = [upi EXCEPT ![t] = NoUpi]
  /\ UNCHANGED <<hard, light, fileinfo, upinp, phase, caching, lock, inhibited, sd>>

-----------------------------------------------------------------------------
(* The end of a pager.                                                      *)

(* A client unmaps the file, or the kernel gives its cached object up. *)
DropRight(u) ==
  /\ rights[u] > 0
  /\ rights' = [rights EXCEPT ![u] = @ - 1]
  /\ UNCHANGED <<hard, light, fileinfo, upinp, phase, caching, lock, pc, np, upi, inhibited, sd>>

(* libports: no senders are left and no right is about to be made. *)
NoSenders(u) ==
  /\ phase[u] = "live"
  /\ rights[u] = 0
  /\ Promised(u) = {}
  /\ phase' = [phase EXCEPT ![u] = "dying"]
  /\ UNCHANGED <<hard, light, fileinfo, upinp, caching, rights, lock, pc, np, upi, inhibited, sd>>

(* Mutants: fileinfo is left alone; it is cleared whatever it names. *)
UnpublishedNot(u) == fileinfo
UnpublishedBlindly(u) == [fileinfo EXCEPT ![upinp[u]] = NoUpi]

(* if (upi->np->dn->fileinfo == upi) upi->np->dn->fileinfo = 0 *)
Unpublished(u) ==
  IF fileinfo[upinp[u]] = u THEN [fileinfo EXCEPT ![upinp[u]] = NoUpi] ELSE fileinfo

(* pager_clear_user_data: spin_lock (&node2pagelock) and the comparison of  *)
(* fileinfo with the pager that is going away.                              *)
ClearLock(u) ==
  /\ phase[u] = "dying"
  /\ lock = NoThread
  /\ lock' = u
  /\ fileinfo' = Unpublished(u)
  /\ phase' = [phase EXCEPT ![u] = "clearing"]
  /\ UNCHANGED <<hard, light, upinp, caching, rights, pc, np, upi, inhibited, sd>>

(* spin_unlock (&node2pagelock) *)
ClearUnlock(u) ==
  /\ phase[u] = "clearing"
  /\ lock' = NoThread
  /\ phase' = [phase EXCEPT ![u] = "cleared"]
  /\ UNCHANGED <<hard, light, fileinfo, upinp, caching, rights, pc, np, upi, inhibited, sd>>

(* diskfs_nrele_light (upi->np), which may free the node, and free (upi). *)
ClearRelease(u) ==
  /\ phase[u] = "cleared"
  /\ light' = diskfs_nrele_light(upinp[u])
  /\ phase' = [phase EXCEPT ![u] = "free"]
  /\ upinp' = [upinp EXCEPT ![u] = NoNode]
  /\ UNCHANGED <<hard, fileinfo, caching, rights, lock, pc, np, upi, inhibited, sd>>

-----------------------------------------------------------------------------
(* diskfs_pager_users, called by libdiskfs before it shuts down. The disk   *)
(* pager is the one port that always counts, so npagers <= 1 when no file   *)
(* pager is left in the bucket.                                             *)

(* Mutant: npagers <= 2. *)
OneOrNone == Cardinality(Live) <= 1

(* npagers <= 1 *)
NoneLeft == Live = {}

UsersCount ==
  /\ sd = "idle"
  /\ inhibited' = TRUE
  /\ sd' = IF NoneLeft THEN "quiet" ELSE "block"
  /\ UNCHANGED <<hard, light, fileinfo, upinp, phase, caching, rights, lock, pc, np, upi>>

(* block_caching *)
BlockCaching ==
  /\ sd = "block"
  /\ caching' = [u \in Upi |-> IF u \in Live THEN FALSE ELSE caching[u]]
  /\ sd' = "sleep"
  /\ UNCHANGED <<hard, light, fileinfo, upinp, phase, rights, lock, pc, np, upi, inhibited>>

(* After sleep (1), the second ports_count_bucket. *)
UsersRecount ==
  /\ sd = "sleep"
  /\ inhibited' = TRUE
  /\ sd' = IF NoneLeft THEN "quiet" ELSE "enable"
  /\ UNCHANGED <<hard, light, fileinfo, upinp, phase, caching, rights, lock, pc, np, upi>>

(* enable_cache on every pager of the bucket *)
AllCached == [u \in Upi |-> IF u \in Live THEN TRUE ELSE caching[u]]

(* enable_caching: the diskfs_nref and diskfs_nrele on the node of each      *)
(* pager cancel out, the light reference of the pager keeping it alive.      *)
EnableCaching ==
  /\ sd = "enable"
  /\ caching' = AllCached
  /\ sd' = "reopen"
  /\ UNCHANGED <<hard, light, fileinfo, upinp, phase, rights, lock, pc, np, upi, inhibited>>

(* ports_enable_bucket; return 1. *)
EnableBucket ==
  /\ sd = "reopen"
  /\ inhibited' = FALSE
  /\ sd' = "idle"
  /\ UNCHANGED <<hard, light, fileinfo, upinp, phase, caching, rights, lock, pc, np, upi>>

diskfs_pager_users ==
  UsersCount \/ BlockCaching \/ UsersRecount \/ EnableCaching \/ EnableBucket

-----------------------------------------------------------------------------
diskfs_get_filemap(t) ==
  \/ LockNode2Page(t) \/ AllocUpi(t) \/ PagerCreateFails(t) \/ PagerCreated(t)
  \/ PagerFound(t) \/ PagerNearlyGone(t) \/ InsertRight(t)

pager_clear_user_data(u) ==
  ClearLock(u) \/ ClearUnlock(u) \/ ClearRelease(u)

Next ==
  \/ \E n \in Node : Open(n) \/ Close(n)
  \/ \E t \in Thread : diskfs_get_filemap(t) \/ \E n \in Node : GetFilemap(t, n)
  \/ \E u \in Upi : DropRight(u) \/ NoSenders(u) \/ pager_clear_user_data(u)
  \/ diskfs_pager_users

Spec == Init /\ [][Next]_vars

(* Threads that are inside the translator keep running. Clients need not    *)
(* open, map or unmap anything, pager_create need not fail, and a spin lock *)
(* promises nothing to the threads that wait for it beyond weak fairness. A *)
(* thread that waits in pager_create is woken by ports_enable_bucket, and   *)
(* does not find the bucket closed again every time: strong fairness.       *)
FairSpec ==
  /\ Spec
  /\ \A t \in Thread :
       /\ WF_vars(LockNode2Page(t) \/ AllocUpi(t) \/ PagerFound(t) \/ PagerNearlyGone(t)
                    \/ InsertRight(t))
       /\ SF_vars(PagerCreated(t))
  /\ \A u \in Upi : WF_vars(pager_clear_user_data(u))
  /\ WF_vars(BlockCaching \/ UsersRecount \/ EnableCaching \/ EnableBucket)

-----------------------------------------------------------------------------
(* Properties.                                                              *)

(* The pager that diskfs_get_filemap_pager_struct hands out. *)
diskfs_get_filemap_pager_struct(n) == fileinfo[n]

(* The records that refer to n. *)
Records(n) == {u \in Upi : phase[u] # "free" /\ upinp[u] = n}

(***************************************************************************)
(* Each user_pager_info holds exactly one light reference on its node from *)
(* pager.c:65 to pager.c:70 or 108, through failed creations and pagers    *)
(* that were replaced before they were cleared.                            *)
(***************************************************************************)
LightAccounting ==
  \A n \in Node : light[n] = Cardinality(Records(n))

(***************************************************************************)
(* fileinfo is no counted reference, and yet it never dangles: it names a  *)
(* record of this node whose pager was not cleared, so pager.c:85 does not *)
(* pass a freed pager to pager_get_port, and a node that is freed has no   *)
(* fileinfo, as diskfs_node_norefs asserts (dir.c:385).                    *)
(***************************************************************************)
FileinfoValid ==
  \A n \in Node : fileinfo[n] # NoUpi =>
    /\ Exists(n)
    /\ upinp[fileinfo[n]] = n
    /\ phase[fileinfo[n]] \in {"live", "dying"}

(***************************************************************************)
(* Whoever holds a right for a pager of a file, or is about to get one,    *)
(* shares it with all others: it is the pager in fileinfo, so the late end *)
(* of an earlier pager never takes it away (pager.c:81-84, 105-106) and    *)
(* diskfs_get_filemap_pager_struct finds it.                               *)
(***************************************************************************)
MappedPagerFound ==
  \A u \in Upi : rights[u] > 0 \/ Promised(u) # {} =>
    diskfs_get_filemap_pager_struct(upinp[u]) = u

(***************************************************************************)
(* When diskfs_pager_users has returned 0 no file pager exists, nor can    *)
(* one come into being behind its back while a thread is inside            *)
(* diskfs_get_filemap.                                                     *)
(***************************************************************************)
QuietShutdown == sd = "quiet" => Live = {}

(***************************************************************************)
(* A diskfs_pager_users that found honest users leaves no trace: caching   *)
(* is on again in every pager (pager.c:333-337).                           *)
(***************************************************************************)
CachingRestored ==
  sd = "idle" => \A u \in Live : caching[u]

(* What diskfs_pager_users is for: a shutdown is safe or leaves no trace. *)
SafeOrRefused == QuietShutdown /\ CachingRestored

(***************************************************************************)
(* The loop of diskfs_get_filemap ends, though each of its turns may meet  *)
(* a dying pager, and though pager_create may have to wait with            *)
(* node2pagelock held (pager.c:66) for diskfs_pager_users to open the      *)
(* bucket again: that takes no step that needs the lock. Only when the     *)
(* translator goes away does the bucket stay closed.                       *)
(***************************************************************************)
LoopEnds ==
  \A t \in Thread :
    (pc[t] \in {"loop", "create"}) ~> (pc[t] \notin {"loop", "create"} \/ sd = "quiet")

=============================================================================
