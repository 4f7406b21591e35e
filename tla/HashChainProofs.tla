-------------------------- MODULE HashChainProofs --------------------------
(***************************************************************************)
(* Proofs about HashChain, for any number of nodes, inode numbers and      *)
(* chains: the links of nodehash stay consistent, every node that is       *)
(* allocated can be reached from the heads, a search misses none, and so   *)
(* the chains are a NodeTable, and no search comes to a node twice. That   *)
(* it then ends, under fairness, is left to the model checker.             *)
(***************************************************************************)
EXTENDS HashChain, TLAPS

USE DEF chains

(* A search is at a node that was not freed, and the chain of the inode      *)
(* number searched for is one of the INOHSZ.                                 *)
WalkInv ==
  /\ pc = "walk" /\ np # Null => np \in live
  /\ \A n \in Node : n \in live <=> hnext[n] # Freed

IInv ==
  /\ TypeOK
  /\ BackPointers
  /\ WalkInv

-----------------------------------------------------------------------------
LEMMA HashInRange ==
  ASSUME NEW i \in Inum
  PROVE  INOHASH(i) \in Bucket
<1>1. i \in Int /\ INOHSZ \in Nat \ {0}
  BY ChainAssumption
<1>2. i % INOHSZ \in 0 .. INOHSZ - 1
  BY <1>1
<1> QED  BY <1>2 DEF INOHASH, Bucket

(* Different places have different addresses, and Freed is none of them. *)
LEMMA Places ==
  /\ \A b, c : Head(b) = Head(c) => b = c
  /\ \A m, n : Hnext(m) = Hnext(n) => m = n
  /\ \A b, n : Head(b) # Hnext(n)
  /\ \A b \in Bucket : Head(b) \in Place
  /\ \A n \in Node : Hnext(n) \in Place
BY DEF Head, Hnext, Place

LEMMA SearchStep ==
  ASSUME IInv, NEW i \in Inum, Search(i)
  PROVE  IInv'
<1> USE DEF Search, First
<1>1. INOHASH(i) \in Bucket
  BY HashInRange
<1>2. TypeOK'
  BY <1>1 DEF IInv, TypeOK
<1>3. BackPointers'
  BY DEF IInv, BackPointers
<1>4. WalkInv'
  BY <1>1 DEF IInv, TypeOK, BackPointers, WalkInv
<1> QED  BY <1>2, <1>3, <1>4 DEF IInv

LEMMA WalkStep ==
  ASSUME IInv, Advance \/ Hit \/ NoMemory
  PROVE  IInv'
<1> USE DEF Advance, Hit, NoMemory, Following
<1>1. TypeOK'
  BY DEF IInv, TypeOK, BackPointers, WalkInv
<1>2. BackPointers'
  BY DEF IInv, BackPointers
<1>3. WalkInv'
  BY DEF IInv, TypeOK, BackPointers, WalkInv
<1> QED  BY <1>1, <1>2, <1>3 DEF IInv

LEMMA InsertStep ==
  ASSUME IInv, NEW n \in Node, Insert(n)
  PROVE  IInv'
<1> DEFINE b == INOHASH(inum)
<1>0. /\ b \in Bucket /\ n \notin live
      /\ live' = live \cup {n} /\ np' = n /\ pc' = "idle" /\ inum' = inum
      /\ cache_id' = [cache_id EXCEPT ![n] = inum]
      /\ hnext' = [hnext EXCEPT ![n] = nodehash[b]]
      /\ hprevp' = [m \in Node |-> IF m = n THEN Head(b)
                                   ELSE IF m = nodehash[b] THEN Hnext(n) ELSE hprevp[m]]
      /\ nodehash' = [nodehash EXCEPT ![b] = n]
  BY HashInRange DEF IInv, TypeOK, Insert, Link, OldHead
<1>1. TypeOK'
  BY <1>0, Places DEF IInv, TypeOK
<1>2. WalkInv'
  BY <1>0, ChainAssumption DEF IInv, TypeOK, WalkInv
<1> DEFINE old == nodehash[b]
<1>3. old # Null => old \in live /\ hprevp[old] = Head(b)
  BY <1>0 DEF IInv, BackPointers
<1>4. ASSUME NEW m \in live'
      PROVE  \/ hprevp'[m] = Head(INOHASH(cache_id'[m])) /\ nodehash'[INOHASH(cache_id'[m])] = m
             \/ \E k \in live' : /\ hprevp'[m] = Hnext(k) /\ hnext'[k] = m
                                 /\ INOHASH(cache_id'[k]) = INOHASH(cache_id'[m])
  <2>1. CASE m = n
    BY <1>0, <2>1 DEF IInv, TypeOK
  <2>2. CASE m # n /\ m = old
    <3>1. m \in live /\ m \in Node /\ hprevp[m] = Head(b) /\ m # Null
      BY <1>0, <2>2, <1>3, ChainAssumption DEF IInv, TypeOK
    <3>2. INOHASH(cache_id[m]) = b
      BY <3>1, Places DEF IInv, BackPointers
    <3>3. /\ hprevp'[m] = Hnext(n) /\ hnext'[n] = m /\ n \in live'
          /\ INOHASH(cache_id'[n]) = b /\ cache_id'[m] = cache_id[m]
      BY <1>0, <2>2, <3>1 DEF IInv, TypeOK
    <3> QED  BY <3>2, <3>3
  <2>3. CASE m # n /\ m # old
    <3>1. m \in live /\ m \in Node /\ hprevp'[m] = hprevp[m] /\ cache_id'[m] = cache_id[m]
      BY <1>0, <2>3 DEF IInv, TypeOK
    <3>2. CASE hprevp[m] = Head(INOHASH(cache_id[m])) /\ nodehash[INOHASH(cache_id[m])] = m
      BY <1>0, <2>3, <3>1, <3>2 DEF IInv, TypeOK
    <3>3. CASE \E k \in live : /\ hprevp[m] = Hnext(k) /\ hnext[k] = m
                               /\ INOHASH(cache_id[k]) = INOHASH(cache_id[m])
      BY <1>0, <3>1, <3>3 DEF IInv, TypeOK
    <3> QED  BY <3>1, <3>2, <3>3 DEF IInv, BackPointers
  <2> QED  BY <2>1, <2>2, <2>3
<1>5. ASSUME NEW c \in Bucket, nodehash'[c] # Null
      PROVE  nodehash'[c] \in live' /\ hprevp'[nodehash'[c]] = Head(c)
  <2>1. CASE c = b
    BY <1>0, <2>1 DEF IInv, TypeOK
  <2>2. CASE c # b
    <3>1. nodehash'[c] = nodehash[c] /\ nodehash[c] \in live /\ hprevp[nodehash[c]] = Head(c)
      BY <1>0, <1>5, <2>2 DEF IInv, TypeOK, BackPointers
    <3>2. nodehash[c] # n /\ nodehash[c] # old
      BY <1>0, <1>3, <2>2, <3>1, Places, ChainAssumption DEF IInv, TypeOK
    <3> QED  BY <1>0, <3>1, <3>2 DEF IInv, TypeOK
  <2> QED  BY <2>1, <2>2
<1>6. ASSUME NEW m \in live', hnext'[m] # Null
      PROVE  hnext'[m] \in live' /\ hprevp'[hnext'[m]] = Hnext(m)
  <2>1. CASE m = n
    BY <1>0, <1>3, <1>6, <2>1, ChainAssumption DEF IInv, TypeOK
  <2>2. CASE m # n
    <3>1. /\ m \in live /\ hnext'[m] = hnext[m] /\ hnext[m] \in live
          /\ hprevp[hnext[m]] = Hnext(m)
      BY <1>0, <1>6, <2>2 DEF IInv, TypeOK, BackPointers
    <3>2. hnext[m] # n /\ hnext[m] # old
      BY <1>0, <1>3, <3>1, Places, ChainAssumption DEF IInv, TypeOK
    <3> QED  BY <1>0, <3>1, <3>2 DEF IInv, TypeOK
  <2> QED  BY <2>1, <2>2
<1>7. BackPointers'
  BY <1>4, <1>5, <1>6 DEF BackPointers
<1> QED  BY <1>1, <1>2, <1>7 DEF IInv

LEMMA NorefsStep ==
  ASSUME IInv, NEW n \in Node, diskfs_node_norefs(n)
  PROVE  IInv'
<1>0. /\ pc = "idle" /\ n \in live /\ live' = live \ {n} /\ np' = Null
      /\ UNCHANGED <<cache_id, pc, inum>>
      /\ nodehash' = [b \in Bucket |->
                        IF hprevp[n] = Head(b) THEN hnext[n] ELSE nodehash[b]]
      /\ hnext' = [m \in Node |-> IF m = n THEN Freed
                                  ELSE IF hprevp[n] = Hnext(m) THEN hnext[n] ELSE hnext[m]]
      /\ hprevp' = [m \in Node |-> IF m = n THEN Freed
                                   ELSE IF m = hnext[n] THEN hprevp[n] ELSE hprevp[m]]
  BY DEF diskfs_node_norefs, Unlink, Rest
<1> DEFINE r == hnext[n]
<1>1. r # Freed /\ (r # Null => r \in live /\ r \in Node /\ hprevp[r] = Hnext(n))
  BY <1>0 DEF IInv, TypeOK, WalkInv, BackPointers
<1>2. TypeOK'
  BY <1>0, <1>1 DEF IInv, TypeOK
<1>3. \A m \in Node : hprevp[n] = Hnext(m) => m \in live /\ hnext[m] = n
  BY <1>0, Places DEF IInv, BackPointers
<1>4. WalkInv'
  BY <1>0, <1>1, <1>3 DEF IInv, TypeOK, WalkInv
<1>5. ASSUME NEW m \in live'
      PROVE  \/ hprevp'[m] = Head(INOHASH(cache_id'[m])) /\ nodehash'[INOHASH(cache_id'[m])] = m
             \/ \E k \in live' : /\ hprevp'[m] = Hnext(k) /\ hnext'[k] = m
                                 /\ INOHASH(cache_id'[k]) = INOHASH(cache_id'[m])
  <2>0. m \in live /\ m \in Node /\ m # n /\ INOHASH(cache_id[m]) \in Bucket /\ m # Null
    BY <1>0, HashInRange, ChainAssumption DEF IInv, TypeOK
  <2>1. CASE m = r
    <3>1. hprevp[m] = Hnext(n) /\ hprevp'[m] = hprevp[n]
      BY <1>0, <1>1, <2>0, <2>1
    <3>2. INOHASH(cache_id[m]) = INOHASH(cache_id[n])
      BY <2>0, <3>1, Places DEF IInv, BackPointers
    <3>3. CASE hprevp[n] = Head(INOHASH(cache_id[n]))
      BY <1>0, <2>0, <2>1, <3>1, <3>2, <3>3
    <3>4. CASE \E k \in live : /\ hprevp[n] = Hnext(k) /\ hnext[k] = n
                               /\ INOHASH(cache_id[k]) = INOHASH(cache_id[n])
      <4>1. PICK k \in live : /\ hprevp[n] = Hnext(k) /\ hnext[k] = n
                              /\ INOHASH(cache_id[k]) = INOHASH(cache_id[n])
        BY <3>4
      <4>2. k # n /\ k \in Node
        BY <1>0, <2>0, <2>1, <4>1 DEF IInv, TypeOK
      <4> QED  BY <1>0, <2>1, <3>1, <3>2, <4>1, <4>2
    <3> QED  BY <1>0, <3>3, <3>4 DEF IInv, BackPointers
  <2>2. CASE m # r
    <3>1. hprevp'[m] = hprevp[m]
      BY <1>0, <2>0, <2>2
    <3>2. CASE hprevp[m] = Head(INOHASH(cache_id[m])) /\ nodehash[INOHASH(cache_id[m])] = m
      <4>1. hprevp[n] # Head(INOHASH(cache_id[m]))
        BY <1>0, <2>0, <3>2, Places DEF IInv, BackPointers
      <4> QED  BY <1>0, <2>0, <3>1, <3>2, <4>1
    <3>3. CASE \E k \in live : /\ hprevp[m] = Hnext(k) /\ hnext[k] = m
                               /\ INOHASH(cache_id[k]) = INOHASH(cache_id[m])
      <4>1. PICK k \in live : /\ hprevp[m] = Hnext(k) /\ hnext[k] = m
                              /\ INOHASH(cache_id[k]) = INOHASH(cache_id[m])
        BY <3>3
      <4>2. k # n /\ k \in Node /\ hprevp[n] # Hnext(k)
        BY <1>3, <2>0, <2>2, <4>1 DEF IInv, TypeOK
      <4> QED  BY <1>0, <3>1, <4>1, <4>2
    <3> QED  BY <2>0, <3>2, <3>3 DEF IInv, BackPointers
  <2> QED  BY <2>1, <2>2
<1>6. ASSUME NEW c \in Bucket, nodehash'[c] # Null
      PROVE  nodehash'[c] \in live' /\ hprevp'[nodehash'[c]] = Head(c)
  <2>1. CASE hprevp[n] = Head(c)
    <3>1. nodehash'[c] = r /\ r \in live /\ r \in Node /\ hprevp[r] = Hnext(n)
      BY <1>0, <1>1, <1>6, <2>1
    <3>2. r # n
      BY <2>1, <3>1, Places
    <3> QED  BY <1>0, <2>1, <3>1, <3>2
  <2>2. CASE hprevp[n] # Head(c)
    <3>1. /\ nodehash'[c] = nodehash[c] /\ nodehash[c] \in live /\ nodehash[c] \in Node
          /\ hprevp[nodehash[c]] = Head(c)
      BY <1>0, <1>6, <2>2 DEF IInv, TypeOK, BackPointers
    <3>2. nodehash[c] # n /\ nodehash[c] # r
      BY <1>1, <2>2, <3>1, Places, ChainAssumption
    <3> QED  BY <1>0, <3>1, <3>2
  <2> QED  BY <2>1, <2>2
<1>7. ASSUME NEW m \in live', hnext'[m] # Null
      PROVE  hnext'[m] \in live' /\ hprevp'[hnext'[m]] = Hnext(m)
  <2>0. m \in live /\ m \in Node /\ m # n
    BY <1>0 DEF IInv, TypeOK
  <2>1. CASE hprevp[n] = Hnext(m)
    <3>1. hnext'[m] = r /\ r \in live /\ r \in Node /\ hprevp[r] = Hnext(n)
      BY <1>0, <1>1, <1>7, <2>0, <2>1
    <3>2. r # n
      BY <2>0, <2>1, <3>1, Places
    <3> QED  BY <1>0, <2>1, <3>1, <3>2
  <2>2. CASE hprevp[n] # Hnext(m)
    <3>1. /\ hnext'[m] = hnext[m] /\ hnext[m] \in live /\ hnext[m] \in Node
          /\ hprevp[hnext[m]] = Hnext(m)
      BY <1>0, <1>7, <2>0, <2>2 DEF IInv, TypeOK, BackPointers
    <3>2. hnext[m] # n /\ hnext[m] # r
      BY <1>1, <2>0, <2>2, <3>1, Places, ChainAssumption
    <3> QED  BY <1>0, <3>1, <3>2
  <2> QED  BY <2>1, <2>2
<1>8. BackPointers'
  BY <1>5, <1>6, <1>7 DEF BackPointers
<1> QED  BY <1>2, <1>4, <1>8 DEF IInv

LEMMA Invariance == Spec => []IInv
<1>1. Init => IInv
  BY ChainAssumption DEF Init, IInv, TypeOK, BackPointers, WalkInv
<1>2. IInv /\ Next => IInv'
  BY SearchStep, WalkStep, InsertStep, NorefsStep DEF Next, Walk
<1>3. IInv /\ UNCHANGED vars => IInv'
  BY DEF vars, IInv, TypeOK, BackPointers, WalkInv
<1> QED  BY <1>1, <1>2, <1>3, PTL DEF Spec

-----------------------------------------------------------------------------
(* No pointer of a chain, and np of a search, is ever one that was read     *)
(* from a freed disknode.                                                   *)
THEOREM TypeCorrect == Spec => []TypeOK
<1>1. IInv => TypeOK
  BY DEF IInv
<1> QED  BY <1>1, Invariance, PTL

(* Insertion at the head and removal through hprevp keep both links of      *)
(* every chain consistent, for any number of nodes and chains.              *)
THEOREM LinksAgree == Spec => []BackPointers
<1>1. IInv => BackPointers
  BY DEF IInv
<1> QED  BY <1>1, Invariance, PTL

-----------------------------------------------------------------------------
(* The chains as a table. S holds the heads, and no link leads out of it. *)
Holds(S) ==
  /\ S \in SUBSET Node
  /\ \A b \in Bucket : nodehash[b] # Null => nodehash[b] \in S
  /\ Closed(S)

(* No node is lost: each one that is allocated is reachable. Said of sets   *)
(* that hold the heads it is inductive, with no need to count links.        *)
NoneLost == \A S \in SUBSET Node : Holds(S) => live \subseteq S

(* The nodes a search looks for are at np or behind it. *)
Ahead ==
  pc = "walk" =>
    \A S \in SUBSET Node :
      (np # Null => np \in S) /\ Closed(S) =>
        \A m \in live : cache_id[m] = inum => m \in S

(* No inode number has two nodes. *)
OneNode == \A m, n \in live : cache_id[m] = cache_id[n] => m = n

TInv == NoneLost /\ Ahead /\ OneNode

LEMMA InitTInv == Init => TInv
BY DEF Init, TInv, NoneLost, Ahead, OneNode

(* Links of one chain do not lead into another: what is reached from the    *)
(* heads in this chain is reached from its own head.                        *)
LEMMA ChainReached ==
  ASSUME IInv, NoneLost, NEW b \in Bucket, NEW S \in SUBSET Node, Closed(S),
         nodehash[b] # Null => nodehash[b] \in S,
         NEW m \in live, INOHASH(cache_id[m]) = b
  PROVE  m \in S
<1> DEFINE T == S \cup {n \in live : INOHASH(cache_id[n]) # b}
<1>1. T \in SUBSET Node
  BY DEF IInv, TypeOK
<1>2. ASSUME NEW c \in Bucket, nodehash[c] # Null PROVE nodehash[c] \in T
  <2>1. CASE c = b
    BY <1>2, <2>1
  <2>2. CASE c # b
    <3>1. nodehash[c] \in live /\ hprevp[nodehash[c]] = Head(c)
      BY <1>2 DEF IInv, BackPointers
    <3>2. INOHASH(cache_id[nodehash[c]]) = c
      BY <3>1, Places DEF IInv, BackPointers
    <3> QED  BY <2>2, <3>1, <3>2
  <2> QED  BY <2>1, <2>2
<1>3. ASSUME NEW n \in T PROVE hnext[n] \in T \cup {Null, Freed}
  <2>1. CASE n \in S
    BY <2>1 DEF Closed
  <2>2. CASE n \in live /\ INOHASH(cache_id[n]) # b /\ hnext[n] # Null
    <3>1. hnext[n] \in live /\ hprevp[hnext[n]] = Hnext(n)
      BY <2>2 DEF IInv, BackPointers
    <3>2. INOHASH(cache_id[hnext[n]]) = INOHASH(cache_id[n])
      BY <3>1, Places DEF IInv, BackPointers
    <3> QED  BY <2>2, <3>1, <3>2
  <2> QED  BY <1>3, <2>1, <2>2
<1>4. Holds(T)
  BY <1>1, <1>2, <1>3 DEF Holds, Closed
<1> QED  BY <1>1, <1>4 DEF NoneLost

LEMMA SearchTInv ==
  ASSUME IInv, TInv, NEW i \in Inum, Search(i)
  PROVE  TInv'
<1> USE DEF Search, First
<1>1. NoneLost' /\ OneNode'
  BY DEF TInv, NoneLost, OneNode, Holds, Closed
<1>2. Ahead'
  <2> SUFFICES ASSUME NEW S \in SUBSET Node, Closed(S), np' # Null => np' \in S,
                      NEW m \in live, cache_id[m] = i
               PROVE  m \in S
    BY DEF Ahead, Closed
  <2> QED  BY HashInRange, ChainReached DEF TInv
<1> QED  BY <1>1, <1>2 DEF TInv

LEMMA WalkTInv ==
  ASSUME IInv, TInv, Advance \/ Hit \/ NoMemory
  PROVE  TInv'
<1>1. NoneLost' /\ OneNode'
  BY DEF Advance, Hit, NoMemory, TInv, NoneLost, OneNode, Holds, Closed
<1>2. CASE Hit \/ NoMemory
  BY <1>1, <1>2 DEF Hit, NoMemory, TInv, Ahead
<1>3. CASE Advance
  <2> SUFFICES ASSUME NEW S \in SUBSET Node, Closed(S), np' # Null => np' \in S,
                      NEW m \in live, cache_id[m] = inum
               PROVE  m \in S
    BY <1>1, <1>3 DEF Advance, TInv, Ahead, Closed
  <2> DEFINE T == S \cup {np}
  <2>1. T \in SUBSET Node /\ np \in T /\ m # np
    BY <1>3 DEF Advance, IInv, TypeOK
  <2>2. Closed(T)
    BY <1>3 DEF Advance, Following, Closed
  <2>3. m \in T
    BY <1>3, <2>1, <2>2 DEF Advance, TInv, Ahead
  <2> QED  BY <2>1, <2>3
<1> QED  BY <1>2, <1>3

(* A search that comes to the end of the chain has missed no node. *)
LEMMA Missing ==
  ASSUME TInv, pc = "walk", AtEnd
  PROVE  \A m \in live : cache_id[m] # inum
<1>1. Closed({})
  BY DEF Closed
<1> QED  BY <1>1 DEF TInv, Ahead, AtEnd

LEMMA InsertTInv ==
  ASSUME IInv, TInv, NEW n \in Node, Insert(n)
  PROVE  TInv'
<1> DEFINE b == INOHASH(inum)
<1>0. /\ b \in Bucket /\ n \notin live
      /\ live' = live \cup {n} /\ pc' = "idle"
      /\ cache_id' = [cache_id EXCEPT ![n] = inum]
      /\ hnext' = [hnext EXCEPT ![n] = nodehash[b]]
      /\ nodehash' = [nodehash EXCEPT ![b] = n]
      /\ hnext[n] = Freed
  BY HashInRange DEF IInv, TypeOK, WalkInv, Insert, Link
<1>1. OneNode'
  <2>1. \A m \in live : cache_id[m] # inum
    BY Missing DEF Insert
  <2> QED  BY <1>0, <2>1 DEF IInv, TypeOK, TInv, OneNode
<1>2. NoneLost'
  <2> SUFFICES ASSUME NEW S, Holds(S)' PROVE live' \subseteq S
    BY DEF NoneLost
  <2>0. /\ S \in SUBSET Node
        /\ \A c \in Bucket : nodehash'[c] # Null => nodehash'[c] \in S
        /\ \A m \in S : hnext'[m] \in S \cup {Null, Freed}
    BY DEF Holds, Closed
  <2>1. n \in S
    BY <1>0, <2>0, ChainAssumption DEF IInv, TypeOK
  <2>2. nodehash[b] # Null => nodehash[b] \in S
    BY <1>0, <2>0, <2>1, ChainAssumption DEF IInv, TypeOK
  <2>3. \A c \in Bucket : nodehash[c] # Null => nodehash[c] \in S
    BY <1>0, <2>0, <2>2 DEF IInv, TypeOK
  <2>4. \A m \in S : hnext[m] \in S \cup {Null, Freed}
    BY <1>0, <2>0 DEF IInv, TypeOK
  <2>5. live \subseteq S
    BY <2>0, <2>3, <2>4 DEF TInv, NoneLost, Holds, Closed
  <2> QED  BY <1>0, <2>1, <2>5
<1>3. Ahead'
  BY <1>0 DEF Ahead
<1> QED  BY <1>1, <1>2, <1>3 DEF TInv

LEMMA NorefsTInv ==
  ASSUME IInv, TInv, NEW n \in Node, diskfs_node_norefs(n)
  PROVE  TInv'
<1>0. /\ pc = "idle" /\ n \in live /\ live' = live \ {n}
      /\ cache_id' = cache_id /\ pc' = pc
      /\ nodehash' = [b \in Bucket |->
                        IF hprevp[n] = Head(b) THEN hnext[n] ELSE nodehash[b]]
      /\ hnext' = [m \in Node |-> IF m = n THEN Freed
                                  ELSE IF hprevp[n] = Hnext(m) THEN hnext[n] ELSE hnext[m]]
  BY DEF diskfs_node_norefs, Unlink, Rest
<1>1. OneNode' /\ Ahead'
  BY <1>0 DEF TInv, OneNode, Ahead
<1>2. NoneLost'
  <2> SUFFICES ASSUME NEW S, Holds(S)' PROVE live' \subseteq S
    BY DEF NoneLost
  <2>0. /\ S \in SUBSET Node
        /\ \A c \in Bucket : nodehash'[c] # Null => nodehash'[c] \in S
        /\ \A m \in S : hnext'[m] \in S \cup {Null, Freed}
    BY DEF Holds, Closed
  (* The pointers to n are the one hprevp designates. *)
  <2>1. /\ \A c \in Bucket : nodehash[c] = n => hprevp[n] = Head(c)
        /\ \A m \in live : hnext[m] = n => hprevp[n] = Hnext(m)
    BY ChainAssumption DEF IInv, BackPointers, TypeOK
  <2>2. CASE \E c \in Bucket : hprevp[n] = Head(c)
    <3> DEFINE T == S \cup {n}
    <3>1. PICK c \in Bucket : hprevp[n] = Head(c)
      BY <2>2
    <3>2. hnext[n] # Null /\ hnext[n] # Freed => hnext[n] \in S
      BY <1>0, <2>0, <3>1
    <3>3. \A d \in Bucket : nodehash[d] # Null => nodehash[d] \in T
      BY <1>0, <2>0, <2>1, <3>1, Places DEF IInv, BackPointers
    <3>4. \A m \in T : hnext[m] \in T \cup {Null, Freed}
      BY <1>0, <2>0, <3>1, <3>2, Places
    <3>5. live \subseteq T
      BY <2>0, <3>3, <3>4 DEF TInv, NoneLost, Holds, Closed
    <3> QED  BY <1>0, <3>5
  <2>3. CASE \E m \in live : hprevp[n] = Hnext(m) /\ hnext[m] = n
    <3>1. PICK m \in live : hprevp[n] = Hnext(m) /\ hnext[m] = n
      BY <2>3
    <3>2. /\ m \in Node
          /\ \A c \in Bucket : nodehash'[c] = nodehash[c] /\ nodehash[c] # n
          /\ \A k \in Node : k # n /\ k # m => hnext'[k] = hnext[k]
          /\ \A k \in live : hnext[k] = n => k = m
          /\ m # n => hnext'[m] = hnext[n]
      BY <1>0, <2>1, <3>1, Places DEF IInv, TypeOK
    <3>3. CASE m \in S /\ m # n
      <4> DEFINE T == S \cup {n}
      <4>1. hnext[n] \in S \cup {Null, Freed}
        BY <2>0, <3>2, <3>3
      <4>2. \A k \in T : hnext[k] \in T \cup {Null, Freed}
        BY <2>0, <3>1, <3>2, <4>1
      <4>3. \A c \in Bucket : nodehash[c] # Null => nodehash[c] \in T
        BY <2>0, <3>2
      <4>4. T \in SUBSET Node
        BY <2>0
      <4>5. live \subseteq T
        BY <4>2, <4>3, <4>4 DEF TInv, NoneLost, Holds, Closed
      <4> QED  BY <1>0, <4>5
    <3>4. CASE m \notin S \/ m = n
      <4> DEFINE T == S \ {n}
      <4>1. \A c \in Bucket : nodehash[c] # Null => nodehash[c] \in T
        BY <2>0, <3>2
      <4>2. ASSUME NEW k \in T PROVE hnext[k] \in T \cup {Null, Freed}
        <5>1. k \in Node /\ k # n /\ k # m /\ hnext[k] = hnext'[k]
          BY <2>0, <3>2, <3>4
        <5>2. hnext[k] # n
          BY <3>2, <5>1, <2>0, ChainAssumption DEF IInv, WalkInv, TypeOK
        <5> QED  BY <2>0, <5>1, <5>2
      <4>3. live \subseteq T
        BY <2>0, <4>1, <4>2 DEF TInv, NoneLost, Holds, Closed
      <4> QED  BY <3>1, <3>4, <4>3, <1>0
    <3> QED  BY <3>3, <3>4
  <2> QED  BY <1>0, <2>2, <2>3, HashInRange DEF IInv, BackPointers, TypeOK
<1> QED  BY <1>1, <1>2 DEF TInv

LEMMA TableInvariance == Spec => []TInv
<1>1. IInv /\ TInv /\ Next => TInv'
  BY SearchTInv, WalkTInv, InsertTInv, NorefsTInv DEF Next, Walk
<1>2. TInv /\ UNCHANGED vars => TInv'
  BY DEF vars, TInv, NoneLost, Ahead, OneNode, Holds, Closed
<1> QED  BY <1>1, <1>2, InitTInv, Invariance, PTL DEF Spec

(* What can be reached from the heads is what is allocated. *)
LEMMA LinkedIsLive ==
  ASSUME IInv, TInv
  PROVE  Linked = live
<1>1. ASSUME NEW n \in live PROVE n \in Linked
  <2> SUFFICES ASSUME NEW S \in SUBSET Node,
                      {nodehash[b] : b \in Bucket} \subseteq S \cup {Null}, Closed(S)
               PROVE  n \in S
    BY DEF Linked, IInv, TypeOK
  <2> QED  BY DEF TInv, NoneLost, Holds
<1>2. ASSUME NEW n \in Linked PROVE n \in live
  <2>1. live \in SUBSET Node /\ Closed(live)
    BY DEF IInv, TypeOK, BackPointers, Closed
  <2>2. {nodehash[b] : b \in Bucket} \subseteq live \cup {Null}
    BY DEF IInv, BackPointers
  <2> QED  BY <2>1, <2>2 DEF Linked
<1> QED  BY <1>1, <1>2

(* The pairs of the table. *)
Pairs == {<<cache_id[n], n>> : n \in live}

LEMMA InsertInserts ==
  ASSUME IInv, TInv, NEW n \in Node, Insert(n)
  PROVE  /\ \A e \in Pairs : e[1] # inum /\ e[2] # n
         /\ Pairs' = Pairs \cup {<<inum, n>>}
<1>1. \A m \in live : cache_id[m] # inum
  BY Missing DEF Insert
<1>2. /\ n \notin live /\ live' = live \cup {n}
      /\ cache_id' = [cache_id EXCEPT ![n] = inum]
  BY DEF Insert
<1>3. cache_id'[n] = inum /\ \A m \in live : cache_id'[m] = cache_id[m]
  BY <1>2 DEF IInv, TypeOK
<1> QED  BY <1>1, <1>2, <1>3 DEF Pairs

LEMMA NorefsRemoves ==
  ASSUME IInv, NEW n \in Node, diskfs_node_norefs(n)
  PROVE  <<cache_id[n], n>> \in Pairs /\ Pairs' = Pairs \ {<<cache_id[n], n>>}
<1>1. n \in live /\ live' = live \ {n} /\ cache_id' = cache_id
  BY DEF diskfs_node_norefs
<1> QED  BY <1>1 DEF Pairs

(* The chains, with their searches, insertions at the head and removals     *)
(* through hprevp, are a table with one node for an inode number, for any   *)
(* number of nodes and chains.                                              *)
THEOREM RefinesTable == Spec => ImplementsTable
<1> DEFINE E == {<<cache_id[n], n>> : n \in Linked}
<1>1. IInv /\ TInv => E = Pairs
  BY LinkedIsLive DEF Pairs
<1>2. (IInv /\ TInv => E = Pairs)'
  BY <1>1, PTL
<1>3. Init => Table!Init
  <2> SUFFICES ASSUME Init PROVE E = {}
    BY DEF Table!Init
  <2>1. Closed({}) /\ {nodehash[b] : b \in Bucket} \subseteq {Null}
    BY DEF Init, Closed
  <2> QED  BY <2>1 DEF Linked
<1>4. ASSUME IInv, TInv, IInv', TInv', Next PROVE Table!Next \/ UNCHANGED E
  <2>1. E = Pairs /\ E' = Pairs'
    BY <1>1, <1>2, <1>4
  <2>2. CASE \E n \in Node : Insert(n)
    <3>1. PICK n \in Node : Insert(n)
      BY <2>2
    <3>2. inum \in Inum
      BY <1>4 DEF IInv, TypeOK
    <3>3. Table!Insert(inum, n)
      BY <1>4, <2>1, <3>1, InsertInserts DEF Table!Insert
    <3> QED  BY <3>2, <3>3 DEF Table!Next
  <2>3. CASE \E n \in Node : diskfs_node_norefs(n)
    <3>1. PICK n \in Node : diskfs_node_norefs(n)
      BY <2>3
    <3> QED  BY <1>4, <2>1, <3>1, NorefsRemoves DEF Table!Next, Table!Remove
  <2>4. CASE Advance \/ Hit \/ NoMemory \/ \E i \in Inum : Search(i)
    <3>1. live' = live /\ cache_id' = cache_id
      BY <2>4 DEF Advance, Hit, NoMemory, Search
    <3> QED  BY <2>1, <3>1 DEF Pairs
  <2> QED  BY <1>4, <2>2, <2>3, <2>4 DEF Next, Walk
<1>5. UNCHANGED vars => UNCHANGED E
  BY DEF vars, Linked, Closed
<1> QED  BY <1>3, <1>4, <1>5, Invariance, TableInvariance, PTL DEF Spec, ImplementsTable, Table!Spec

-----------------------------------------------------------------------------
(* Why a search ends. What is at n and behind it. *)
Behind(n) ==
  {m \in Node : \A S \in SUBSET Node : n \in S \cup {Null} /\ Closed(S) => m \in S}

(* No part of a chain is its own beginning. *)
LEMMA NoCycle ==
  ASSUME IInv, TInv, NEW X \in SUBSET live,
         \A x \in X : \E m \in X : hprevp[x] = Hnext(m)
  PROVE  X = {}
<1> DEFINE S == live \ X
<1>1. S \in SUBSET Node
  BY DEF IInv, TypeOK
<1>2. \A b \in Bucket : nodehash[b] # Null => nodehash[b] \in S
  BY Places DEF IInv, BackPointers
<1>3. ASSUME NEW n \in S, hnext[n] # Null PROVE hnext[n] \in S
  <2>1. hnext[n] \in live /\ hprevp[hnext[n]] = Hnext(n)
    BY <1>3 DEF IInv, BackPointers
  <2> QED  BY <2>1, Places
<1>4. live \subseteq S
  BY <1>1, <1>2, <1>3 DEF TInv, NoneLost, Holds, Closed
<1> QED  BY <1>4

LEMMA BehindClosed ==
  ASSUME IInv, NEW n \in live \cup {Null}
  PROVE  /\ Closed(Behind(n)) /\ Behind(n) \subseteq live
         /\ n # Null => n \in Behind(n)
<1>1. Closed(live) /\ live \in SUBSET Node
  BY DEF IInv, TypeOK, BackPointers, Closed
<1>2. Behind(n) \subseteq live
  BY <1>1 DEF Behind
<1>3. n # Null => n \in Behind(n)
  BY <1>1 DEF Behind
<1>4. ASSUME NEW m \in Behind(n), hnext[m] # Null PROVE hnext[m] \in Behind(n)
  <2>1. hnext[m] \in live /\ hnext[m] \in Node /\ hnext[m] # Freed
    BY <1>1, <1>2, <1>4, ChainAssumption DEF IInv, BackPointers
  <2>2. ASSUME NEW S \in SUBSET Node, n \in S \cup {Null}, Closed(S)
        PROVE  hnext[m] \in S
    <3>1. m \in S
      BY <1>4, <2>2 DEF Behind
    <3> QED  BY <1>4, <2>1, <2>2, <3>1 DEF Closed
  <2> QED  BY <2>1, <2>2 DEF Behind
<1> QED  BY <1>2, <1>3, <1>4 DEF Closed

(* A node is not behind its own next node. *)
LEMMA NextIsFurther ==
  ASSUME IInv, TInv, NEW n \in live
  PROVE  Behind(hnext[n]) \subseteq Behind(n) \ {n}
<1> DEFINE r == hnext[n]
           B == Behind(r)
<1>0. r \in live \cup {Null} /\ n # Null /\ n \in Node
  BY ChainAssumption DEF IInv, TypeOK, BackPointers
<1>1. Closed(B) /\ B \subseteq live /\ B \in SUBSET Node /\ (r # Null => r \in B)
  BY <1>0, BehindClosed DEF Behind
<1>2. B \subseteq Behind(n)
  <2>1. Closed(Behind(n)) /\ n \in Behind(n) /\ Behind(n) \in SUBSET Node
    BY <1>0, BehindClosed DEF Behind
  <2>2. r \in Behind(n) \cup {Null}
    BY <1>0, <2>1, ChainAssumption DEF Closed, IInv, TypeOK
  <2>3. ASSUME NEW m \in B PROVE m \in Behind(n)
    BY <2>1, <2>2, <2>3 DEF Behind
  <2> QED  BY <2>3
<1>3. ASSUME n \in B PROVE FALSE
  <2>1. ASSUME NEW x \in B PROVE \E m \in B : hprevp[x] = Hnext(m)
    <3>1. CASE x = r
      <4>1. r # Null
        BY <1>1, <3>1, ChainAssumption
      <4> QED  BY <1>3, <3>1, <4>1 DEF IInv, BackPointers
    <3>2. CASE x # r
      <4> DEFINE S == B \ {x}
      <4>1. S \in SUBSET Node /\ r \in S \cup {Null} /\ x \notin S
        BY <1>1, <3>2
      <4>2. ~Closed(S)
        BY <2>1, <4>1 DEF Behind
      <4>3. PICK m \in S : hnext[m] \notin S \cup {Null, Freed}
        BY <4>2 DEF Closed
      <4>4. m \in live /\ hnext[m] = x /\ hnext[m] # Null
        BY <1>1, <4>3 DEF Closed
      <4> QED  BY <4>3, <4>4 DEF IInv, BackPointers
    <3> QED  BY <3>1, <3>2
  <2>2. B = {}
    BY <1>1, <2>1, NoCycle
  <2> QED  BY <1>3, <2>2
<1> QED  BY <1>2, <1>3

(* Each step along a chain leaves the node it was at behind for good: what  *)
(* a search has still to look at shrinks, so that with finitely many nodes  *)
(* it comes to an end, and no node is compared twice.                       *)
SearchProgress == [][Advance => Behind(np') \subseteq Behind(np) \ {np}]_vars

(* dir.c:309: the loop over a chain never comes back to a node, whatever    *)
(* was linked and unlinked before.                                          *)
THEOREM SearchShrinks == Spec => SearchProgress
<1>1. ASSUME IInv, TInv, Advance
      PROVE  Behind(np') \subseteq Behind(np) \ {np}
  <2>1. np \in live /\ np' = hnext[np]
    BY <1>1 DEF Advance, Following, IInv, WalkInv
  <2> QED  BY <1>1, <2>1, NextIsFurther
<1> QED  BY <1>1, Invariance, TableInvariance, PTL DEF SearchProgress
=============================================================================
