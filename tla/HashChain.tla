----------------------------- MODULE HashChain -----------------------------
(***************************************************************************)
(* The chains of nodehash (dir.c): an array of INOHSZ heads, and in every  *)
(* disknode the next node of the chain and, in hprevp, the address of the  *)
(* pointer that points to the node, which is a head or the hnext of the    *)
(* node before it. The code never searches for that pointer: unlinking a   *)
(* node writes through hprevp.                                             *)
(*                                                                         *)
(* Every operation runs under diskfs_node_refcnt_lock, so there is one at  *)
(* a time. A search is a step per node; a link of a node is followed only  *)
(* there. malloc may return the memory of a freed node again; what a freed *)
(* disknode holds is the value Freed, which is no pointer.                 *)
(***************************************************************************)
EXTENDS Integers

CONSTANTS
  Node,       \* the addresses of nodes, each with its disknode
  Inum,       \* the inode numbers looked up
  INOHSZ,     \* the number of chains
  Null, Freed

ASSUME ChainAssumption ==
  /\ Inum \subseteq Int /\ Inum # {}
  /\ INOHSZ \in Nat \ {0}
  /\ Null \notin Node /\ Freed \notin Node /\ Null # Freed

(* The chain of an inode number, whatever its sign. *)
INOHASH(ino) == ino % INOHSZ

Bucket == 0 .. INOHSZ - 1

(* The places hprevp can point to. *)
Head(b) == <<"head", b>>
Hnext(n) == <<"hnext", n>>
Place == {Head(b) : b \in Bucket} \cup {Hnext(n) : n \in Node}

VARIABLES
  nodehash,   \* the heads
  hnext,      \* np->dn->hnext
  hprevp,     \* np->dn->hprevp
  cache_id,   \* np->cache_id
  live,       \* the nodes that are allocated
  pc,         \* whether a search is under way
  inum,       \* the inode number searched for
  np          \* the node the search is at

chains == <<nodehash, hnext, hprevp>>

vars == <<nodehash, hnext, hprevp, cache_id, live, pc, inum, np>>

TypeOK ==
  /\ nodehash \in [Bucket -> Node \cup {Null}]
  /\ hnext    \in [Node -> Node \cup {Null, Freed}]
  /\ hprevp   \in [Node -> Place \cup {Freed}]
  /\ cache_id \in [Node -> Inum]
  /\ live     \in SUBSET Node
  /\ pc       \in {"idle", "walk"}
  /\ inum     \in Inum
  /\ np       \in Node \cup {Null}

(* inode_init *)
Init ==
  /\ nodehash = [b \in Bucket |-> Null]
  /\ hnext    = [n \in Node |-> Freed]
  /\ hprevp   = [n \in Node |-> Freed]
  /\ cache_id \in [Node -> {CHOOSE i \in Inum : TRUE}]
  /\ live     = {}
  /\ pc       = "idle"
  /\ inum     = CHOOSE i \in Inum : TRUE
  /\ np       = Null

-----------------------------------------------------------------------------
(* Mutants of the search: a link that is not followed; the end reported at  *)
(* the first node that does not match.                                      *)
FollowingSame(n) == n
AtEndEarly == np \notin {n \in live : cache_id[n] = inum}

First(i) == nodehash[INOHASH(i)]

Following(n) == hnext[n]

AtEnd == np = Null

(* diskfs_cached_lookup: np = nodehash[INOHASH(inum)]. *)
Search(i) ==
  /\ pc = "idle" /\ pc' = "walk"
  /\ inum' = i
  /\ np' = First(i)
  /\ UNCHANGED <<chains, cache_id, live>>

(* Not this one: np = np->dn->hnext. *)
Advance ==
  /\ pc = "walk" /\ np # Null
  /\ cache_id[np] # inum
  /\ np' = Following(np)
  /\ UNCHANGED <<chains, cache_id, live, pc, inum>>

(* np->cache_id == inum: the node is returned. *)
Hit ==
  /\ pc = "walk" /\ np # Null
  /\ cache_id[np] = inum
  /\ pc' = "idle"
  /\ UNCHANGED <<chains, cache_id, live, inum, np>>

(* The end of the chain, but no memory for a new node. *)
NoMemory ==
  /\ pc = "walk" /\ AtEnd
  /\ pc' = "idle"
  /\ UNCHANGED <<chains, cache_id, live, inum, np>>

(* Mutant: the node that was the head keeps its hprevp. *)
OldHeadKept(b) == Null

(* The node whose hprevp changes when a node is put before it. *)
OldHead(b) == nodehash[b]

(* Put n at the head of chain b. *)
Link(n, b) ==
  /\ hnext' = [hnext EXCEPT ![n] = nodehash[b]]
  /\ hprevp' = [m \in Node |-> IF m = n THEN Head(b)
                               ELSE IF m = OldHead(b) THEN Hnext(n) ELSE hprevp[m]]
  /\ nodehash' = [nodehash EXCEPT ![b] = n]

(* The end of the chain: a new node, at an address that is free. *)
Insert(n) ==
  /\ pc = "walk" /\ AtEnd
  /\ n \notin live
  /\ live' = live \cup {n}
  /\ cache_id' = [cache_id EXCEPT ![n] = inum]
  /\ Link(n, INOHASH(inum))
  /\ np' = n
  /\ pc' = "idle"
  /\ UNCHANGED inum

(* Mutant: hnext is read after the disknode was freed. *)
RestFreed(n) == Freed

(* What is left of the chain behind n. *)
Rest(n) == hnext[n]

(* *hprevp = hnext, and if there is a next node its hprevp is mine. The     *)
(* disknode is freed.                                                       *)
Unlink(n) ==
  /\ nodehash' = [b \in Bucket |->
                    IF hprevp[n] = Head(b) THEN Rest(n) ELSE nodehash[b]]
  /\ hnext' = [m \in Node |-> IF m = n THEN Freed
                              ELSE IF hprevp[n] = Hnext(m) THEN Rest(n) ELSE hnext[m]]
  /\ hprevp' = [m \in Node |-> IF m = n THEN Freed
                               ELSE IF m = Rest(n) THEN hprevp[n] ELSE hprevp[m]]

(* libdiskfs found that the last reference to n is gone. *)
diskfs_node_norefs(n) ==
  /\ pc = "idle"
  /\ n \in live
  /\ Unlink(n)
  /\ live' = live \ {n}
  /\ np' = Null
  /\ UNCHANGED <<cache_id, pc, inum>>

Walk == Advance \/ Hit \/ NoMemory \/ (\E n \in Node : Insert(n))

Next ==
  \/ \E i \in Inum : Search(i)
  \/ Walk
  \/ \E n \in Node : diskfs_node_norefs(n)

Spec == Init /\ [][Next]_vars

(* A search runs to its end. *)
FairSpec == Spec /\ WF_vars(Walk)

-----------------------------------------------------------------------------
(* Properties.                                                              *)

(***************************************************************************)
(* After any sequence of insertions and removals, also at recycled         *)
(* addresses, the two links agree: the pointer a node's hprevp designates  *)
(* points to the node, it is the head of the right chain or the hnext of   *)
(* a node of the same chain that was not freed, and every pointer of a     *)
(* chain is designated in this way by the node it points to.               *)
(***************************************************************************)
BackPointers ==
  /\ \A n \in live :
       LET b == INOHASH(cache_id[n])
       IN  \/ hprevp[n] = Head(b) /\ nodehash[b] = n
           \/ \E m \in live : /\ hprevp[n] = Hnext(m) /\ hnext[m] = n
                              /\ INOHASH(cache_id[m]) = b
  /\ \A b \in Bucket : nodehash[b] # Null =>
       nodehash[b] \in live /\ hprevp[nodehash[b]] = Head(b)
  /\ \A n \in live : hnext[n] # Null =>
       hnext[n] \in live /\ hprevp[hnext[n]] = Hnext(n)

(* A set of nodes that no link leads out of. *)
Closed(S) == \A n \in S : hnext[n] \in S \cup {Null, Freed}

(* The nodes that can be reached from the heads: those in every set that    *)
(* holds the heads and that no link leads out of.                           *)
Linked ==
  {n \in Node : \A S \in SUBSET Node :
     {nodehash[b] : b \in Bucket} \subseteq S \cup {Null} /\ Closed(S) => n \in S}

Table == INSTANCE NodeTable WITH entries <- {<<cache_id[n], n>> : n \in Linked}

(***************************************************************************)
(* The nodes that can be reached from the heads are a NodeTable: a search  *)
(* (dir.c:309) that ends without a node has missed none, linking a node    *)
(* adds it and nothing else, writing through hprevp takes the node out and *)
(* leaves the rest of its chain, and every other chain, in place.          *)
(***************************************************************************)
ImplementsTable == Table!Spec

(* No chain turns back on itself: a search, which keeps every other thread *)
(* out of the node cache, comes to an end.                                 *)
SearchEnds == (pc = "walk") ~> (pc = "idle")

=============================================================================
