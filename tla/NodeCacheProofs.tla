-------------------------- MODULE NodeCacheProofs --------------------------
(***************************************************************************)
(* Proofs about NodeCache, for any number of threads, nodes and inode      *)
(* numbers.                                                                *)
(***************************************************************************)
EXTENDS NodeCache, FiniteSetTheorems, TLAPS

(* The spin lock is held from the load to the store of a locked update. *)
SpinInv ==
  \A t \in Thread : pc[t] \in Updating \cup {"fill"} => spin = t

(* A thread has a node in hand exactly while it is inside the cache. *)
WhereInv ==
  \A t \in Thread :
    /\ pc[t] = "idle" <=> np[t] = NoNode
    /\ pc[t] # "idle" => np[t] \in used

(* A node is in nodehash exactly while its count is positive, and the       *)
(* reference of diskfs_make_node is never given back.                       *)
CountInv ==
  \A n \in used :
    /\ n \in hashed <=> refs[n] # 0
    /\ leak[n] # 0

(* A node that was never handed out has no history. *)
FreshInv ==
  \A n \in Node \ used : lost[n] = 0 /\ keeps[n] = 0

(* A node under creation or in a locked update is not freed meanwhile. *)
PendingInv ==
  \A t \in Thread :
    /\ pc[t] \in Updating \cup Creating => np[t] \in hashed
    /\ pc[t] \in Updating => reg[t] # 0
    /\ pc[t] = "nrele" => keeps[np[t]] # 0

(* Until the creator of a node stores its increment no update is lost. *)
CreationInv ==
  \A t \in Thread : pc[t] \in Creating =>
    /\ lost[np[t]] = 0
    /\ \A u \in Thread : np[u] = np[t] =>
         /\ pc[u] \in Updating => reg[u] = refs[np[t]]
         /\ pc[u] \in Creating => u = t

IInv ==
  /\ TypeOK
  /\ SpinInv
  /\ WhereInv
  /\ CountInv
  /\ FreshInv
  /\ PendingInv
  /\ CreationInv
  /\ OneNodePerInum
  /\ RefAccounting

-----------------------------------------------------------------------------
USE DEF Updating, Creating, Holding

(* What thread t adds to the number of holders of n. *)
Holds(t, n) == IF np[t] = n /\ pc[t] \in Holding THEN 1 ELSE 0

(* The holders of a node are finitely many, and a step of thread t changes   *)
(* their number by whether t holds the node before and after it.             *)
LEMMA HoldersStep ==
  ASSUME NEW n, NEW t \in Thread,
         \A u \in Thread \ {t} : np'[u] = np[u] /\ pc'[u] = pc[u]
  PROVE  /\ Cardinality(Holders(n)) \in Nat
         /\ Cardinality(Holders(n)') \in Nat
         /\ Cardinality(Holders(n)') + Holds(t, n)
              = Cardinality(Holders(n)) + Holds(t, n)'
<1>1. IsFiniteSet(Holders(n)) /\ IsFiniteSet(Holders(n)')
  BY CacheAssumption, FS_Subset DEF Holders
<1>2. Cardinality(Holders(n)) \in Nat /\ Cardinality(Holders(n)') \in Nat
  BY <1>1, FS_CardinalityType
<1>3. /\ Holds(t, n) = IF t \in Holders(n) THEN 1 ELSE 0
      /\ Holds(t, n)' = IF t \in Holders(n)' THEN 1 ELSE 0
  BY DEF Holds, Holders
<1>4. t \in Holders(n) => Cardinality(Holders(n)) # 0
  BY <1>1, FS_EmptySet
<1>5. CASE t \in Holders(n) <=> t \in Holders(n)'
  <2>1. Holders(n)' = Holders(n)
    BY <1>5 DEF Holders
  <2> QED  BY <1>2, <1>3, <1>4, <1>5, <2>1
<1>6. CASE t \notin Holders(n) /\ t \in Holders(n)'
  <2>1. Holders(n)' = Holders(n) \cup {t}
    BY <1>6 DEF Holders
  <2> QED  BY <1>1, <1>2, <1>3, <1>6, <2>1, FS_AddElement
<1>7. CASE t \in Holders(n) /\ t \notin Holders(n)'
  <2>1. Holders(n)' = Holders(n) \ {t}
    BY <1>7 DEF Holders
  <2> QED  BY <1>1, <1>2, <1>3, <1>4, <1>7, <2>1, FS_RemoveElement
<1> QED  BY <1>5, <1>6, <1>7

(* While a node is being created nobody releases its last reference: the one *)
(* of diskfs_make_node is still there.                                       *)
LEMMA NotLast ==
  ASSUME IInv, NEW t \in Thread, NEW u \in Thread,
         pc[t] \in {"nput", "nrele"}, pc[u] \in Creating, np[u] = np[t]
  PROVE  reg[t] # 1
<1> DEFINE n == np[t]
<1> DEFINE c == Cardinality(Holders(n))
<1>1. n \in used /\ n \in Node /\ lost[n] = 0 /\ reg[t] = refs[n]
  BY DEF IInv, TypeOK, WhereInv, CreationInv
<1>2. c \in Nat /\ (pc[t] = "nput" => c # 0)
  <2>1. IsFiniteSet(Holders(n))
    BY CacheAssumption, FS_Subset DEF Holders
  <2>2. pc[t] = "nput" => t \in Holders(n)
    BY DEF Holders
  <2> QED  BY <2>1, <2>2, FS_CardinalityType, FS_EmptySet
<1>3. refs[n] + lost[n] = leak[n] + keeps[n] + c
  BY <1>1 DEF IInv, RefAccounting
<1>4. /\ leak[n] \in Nat /\ leak[n] # 0 /\ keeps[n] \in Nat /\ refs[n] \in Nat
      /\ pc[t] = "nrele" => keeps[n] # 0
  BY <1>1 DEF IInv, TypeOK, CountInv, PendingInv
<1> HIDE DEF c
<1> QED  BY <1>1, <1>2, <1>3, <1>4

(* Every step preserves the invariant. *)
LEMMA LookupHitStep ==
  ASSUME IInv, NEW t \in Thread, NEW i \in Inum, LookupHit(t, i)
  PROVE  IInv'
<1> USE CacheAssumption DEF LookupHit, Load, SpinLock, Goto
<1>1. TypeOK'
  BY DEF IInv, TypeOK, PC, Errors, WhereInv, PendingInv
<1>2. SpinInv' /\ WhereInv' /\ FreshInv'
  BY DEF IInv, TypeOK, SpinInv, WhereInv, FreshInv
<1>3. CountInv' /\ OneNodePerInum'
  BY DEF IInv, TypeOK, WhereInv, CountInv, PendingInv, OneNodePerInum
<1>4. PendingInv'
  BY DEF IInv, TypeOK, SpinInv, WhereInv, CountInv, PendingInv, CreationInv
<1>5. CreationInv'
  BY DEF IInv, TypeOK, SpinInv, WhereInv, FreshInv, PendingInv, CreationInv
<1>6. RefAccounting'
  BY <1>1, <1>2, HoldersStep DEF IInv, TypeOK, WhereInv, RefAccounting, Holds
<1> QED  BY <1>1, <1>2, <1>3, <1>4, <1>5, <1>6 DEF IInv

LEMMA LookupCountedStep ==
  ASSUME IInv, NEW t \in Thread, LookupCounted(t)
  PROVE  IInv'
<1> USE CacheAssumption DEF LookupCounted, Store, SpinUnlock, Goto
<1>1. TypeOK'
  BY DEF IInv, TypeOK, PC, Errors, WhereInv, PendingInv
<1>2. SpinInv' /\ WhereInv' /\ FreshInv'
  BY DEF IInv, TypeOK, SpinInv, WhereInv, FreshInv
<1>3. CountInv' /\ OneNodePerInum'
  BY DEF IInv, TypeOK, WhereInv, CountInv, PendingInv, OneNodePerInum
<1>4. PendingInv'
  BY DEF IInv, TypeOK, SpinInv, WhereInv, CountInv, PendingInv, CreationInv
<1>5. CreationInv'
  BY DEF IInv, TypeOK, SpinInv, WhereInv, FreshInv, PendingInv, CreationInv
<1>6. RefAccounting'
  <2> SUFFICES ASSUME NEW n \in used'
               PROVE  (refs[n] + lost[n] = leak[n] + keeps[n] + Cardinality(Holders(n)))'
    BY DEF RefAccounting
  <2>1. \A u \in Thread \ {t} : np'[u] = np[u] /\ pc'[u] = pc[u]
    BY DEF IInv, TypeOK
  <2>2. /\ Cardinality(Holders(n)) \in Nat
        /\ Cardinality(Holders(n)') + Holds(t, n) = Cardinality(Holders(n)) + Holds(t, n)'
        /\ Cardinality(Holders(n)') \in Nat
    BY <2>1, HoldersStep
  <2> QED  BY <1>1, <2>2 DEF IInv, TypeOK, WhereInv, PendingInv, RefAccounting, Holds
<1> QED  BY <1>1, <1>2, <1>3, <1>4, <1>5, <1>6 DEF IInv

LEMMA LookupLockedStep ==
  ASSUME IInv, NEW t \in Thread, LookupLocked(t)
  PROVE  IInv'
<1> USE CacheAssumption DEF LookupLocked, Goto
<1>1. TypeOK'
  BY DEF IInv, TypeOK, PC, Errors, WhereInv, PendingInv
<1>2. SpinInv' /\ WhereInv' /\ FreshInv'
  BY DEF IInv, TypeOK, SpinInv, WhereInv, FreshInv
<1>3. CountInv' /\ OneNodePerInum'
  BY DEF IInv, TypeOK, WhereInv, CountInv, PendingInv, OneNodePerInum
<1>4. PendingInv'
  BY DEF IInv, TypeOK, SpinInv, WhereInv, CountInv, PendingInv, CreationInv
<1>5. CreationInv'
  BY DEF IInv, TypeOK, SpinInv, WhereInv, FreshInv, PendingInv, CreationInv
<1>6. RefAccounting'
  BY <1>1, <1>2, HoldersStep DEF IInv, TypeOK, WhereInv, RefAccounting, Holds
<1> QED  BY <1>1, <1>2, <1>3, <1>4, <1>5, <1>6 DEF IInv

LEMMA LookupNoMemoryStep ==
  ASSUME IInv, NEW t \in Thread, NEW i \in Inum, LookupNoMemory(t, i)
  PROVE  IInv'
<1> USE CacheAssumption DEF LookupNoMemory, Absent
<1>1. TypeOK'
  BY DEF IInv, TypeOK, PC, Errors, WhereInv, PendingInv
<1>2. SpinInv' /\ WhereInv' /\ FreshInv'
  BY DEF IInv, TypeOK, SpinInv, WhereInv, FreshInv
<1>3. CountInv' /\ OneNodePerInum'
  BY DEF IInv, TypeOK, WhereInv, CountInv, PendingInv, OneNodePerInum
<1>4. PendingInv'
  BY DEF IInv, TypeOK, SpinInv, WhereInv, CountInv, PendingInv, CreationInv
<1>5. CreationInv'
  BY DEF IInv, TypeOK, SpinInv, WhereInv, FreshInv, PendingInv, CreationInv
<1>6. RefAccounting'
  BY <1>1, <1>2, HoldersStep DEF IInv, TypeOK, WhereInv, RefAccounting, Holds
<1> QED  BY <1>1, <1>2, <1>3, <1>4, <1>5, <1>6 DEF IInv

LEMMA LookupMissStep ==
  ASSUME IInv, NEW t \in Thread, NEW i \in Inum, LookupMiss(t, i)
  PROVE  IInv'
<1> USE CacheAssumption DEF LookupMiss, Absent, CacheId, Goto
<1>1. TypeOK'
  BY DEF IInv, TypeOK, PC, Errors, WhereInv, PendingInv
<1>2. SpinInv' /\ WhereInv' /\ FreshInv'
  BY DEF IInv, TypeOK, SpinInv, WhereInv, FreshInv
<1>3. CountInv' /\ OneNodePerInum'
  BY DEF IInv, TypeOK, WhereInv, CountInv, PendingInv, OneNodePerInum
<1>4. PendingInv'
  BY DEF IInv, TypeOK, SpinInv, WhereInv, CountInv, PendingInv, CreationInv
<1>5. CreationInv'
  BY DEF IInv, TypeOK, SpinInv, WhereInv, FreshInv, PendingInv, CreationInv
<1>6. RefAccounting'
  <2> SUFFICES ASSUME NEW n \in used'
               PROVE  (refs[n] + lost[n] = leak[n] + keeps[n] + Cardinality(Holders(n)))'
    BY DEF RefAccounting
  <2>1. Holders(n)' = Holders(n)
    BY DEF IInv, TypeOK, WhereInv, Holders
  <2>2. n \notin used => Cardinality(Holders(n)) = 0
    <3>1. n \notin used => Holders(n) = {}
      BY DEF IInv, TypeOK, WhereInv, Holders
    <3> QED  BY <3>1, FS_EmptySet
  <2> QED  BY <1>1, <2>1, <2>2 DEF IInv, TypeOK, FreshInv, RefAccounting
<1> QED  BY <1>1, <1>2, <1>3, <1>4, <1>5, <1>6 DEF IInv

LEMMA ReadNodeFailsStep ==
  ASSUME IInv, NEW t \in Thread, ReadNodeFails(t)
  PROVE  IInv'
<1> USE CacheAssumption DEF ReadNodeFails, Goto
<1>1. TypeOK'
  BY DEF IInv, TypeOK, PC, Errors, WhereInv, PendingInv
<1>2. SpinInv' /\ WhereInv' /\ FreshInv'
  BY DEF IInv, TypeOK, SpinInv, WhereInv, FreshInv
<1>3. CountInv' /\ OneNodePerInum'
  BY DEF IInv, TypeOK, WhereInv, CountInv, PendingInv, OneNodePerInum
<1>4. PendingInv'
  BY DEF IInv, TypeOK, SpinInv, WhereInv, CountInv, PendingInv, CreationInv
<1>5. CreationInv'
  BY DEF IInv, TypeOK, SpinInv, WhereInv, FreshInv, PendingInv, CreationInv
<1>6. RefAccounting'
  BY <1>1, <1>2, HoldersStep DEF IInv, TypeOK, WhereInv, RefAccounting, Holds
<1> QED  BY <1>1, <1>2, <1>3, <1>4, <1>5, <1>6 DEF IInv

LEMMA ReadNodeFillStep ==
  ASSUME IInv, NEW t \in Thread, ReadNodeFill(t)
  PROVE  IInv'
<1> USE CacheAssumption DEF ReadNodeFill, SpinLock, Goto
<1>1. TypeOK'
  BY DEF IInv, TypeOK, PC, Errors, WhereInv, PendingInv
<1>2. SpinInv' /\ WhereInv' /\ FreshInv'
  BY DEF IInv, TypeOK, SpinInv, WhereInv, FreshInv
<1>3. CountInv' /\ OneNodePerInum'
  BY DEF IInv, TypeOK, WhereInv, CountInv, PendingInv, OneNodePerInum
<1>4. PendingInv'
  BY DEF IInv, TypeOK, SpinInv, WhereInv, CountInv, PendingInv, CreationInv
<1>5. CreationInv'
  BY DEF IInv, TypeOK, SpinInv, WhereInv, FreshInv, PendingInv, CreationInv
<1>6. RefAccounting'
  BY <1>1, <1>2, HoldersStep DEF IInv, TypeOK, WhereInv, RefAccounting, Holds
<1> QED  BY <1>1, <1>2, <1>3, <1>4, <1>5, <1>6 DEF IInv

LEMMA ReadNodeExceptionStep ==
  ASSUME IInv, NEW t \in Thread, ReadNodeException(t)
  PROVE  IInv'
<1> USE CacheAssumption DEF ReadNodeException, SpinLock, Goto
<1>1. TypeOK'
  BY DEF IInv, TypeOK, PC, Errors, WhereInv, PendingInv
<1>2. SpinInv' /\ WhereInv' /\ FreshInv'
  BY DEF IInv, TypeOK, SpinInv, WhereInv, FreshInv
<1>3. CountInv' /\ OneNodePerInum'
  BY DEF IInv, TypeOK, WhereInv, CountInv, PendingInv, OneNodePerInum
<1>4. PendingInv'
  BY DEF IInv, TypeOK, SpinInv, WhereInv, CountInv, PendingInv, CreationInv
<1>5. CreationInv'
  BY DEF IInv, TypeOK, SpinInv, WhereInv, FreshInv, PendingInv, CreationInv
<1>6. RefAccounting'
  BY <1>1, <1>2, HoldersStep DEF IInv, TypeOK, WhereInv, RefAccounting, Holds
<1> QED  BY <1>1, <1>2, <1>3, <1>4, <1>5, <1>6 DEF IInv

LEMMA ReadNodeDoneStep ==
  ASSUME IInv, NEW t \in Thread, ReadNodeDone(t)
  PROVE  IInv'
<1> USE CacheAssumption DEF ReadNodeDone, SpinUnlock, Goto
<1>1. TypeOK'
  BY DEF IInv, TypeOK, PC, Errors, WhereInv, PendingInv
<1>2. SpinInv' /\ WhereInv' /\ FreshInv'
  BY DEF IInv, TypeOK, SpinInv, WhereInv, FreshInv
<1>3. CountInv' /\ OneNodePerInum'
  BY DEF IInv, TypeOK, WhereInv, CountInv, PendingInv, OneNodePerInum
<1>4. PendingInv'
  BY DEF IInv, TypeOK, SpinInv, WhereInv, CountInv, PendingInv, CreationInv
<1>5. CreationInv'
  BY DEF IInv, TypeOK, SpinInv, WhereInv, FreshInv, PendingInv, CreationInv
<1>6. RefAccounting'
  BY <1>1, <1>2, HoldersStep DEF IInv, TypeOK, WhereInv, RefAccounting, Holds
<1> QED  BY <1>1, <1>2, <1>3, <1>4, <1>5, <1>6 DEF IInv

LEMMA CreatorLoadStep ==
  ASSUME IInv, NEW t \in Thread, CreatorLoad(t)
  PROVE  IInv'
<1> USE CacheAssumption DEF CreatorLoad, Load, Goto
<1>1. TypeOK'
  BY DEF IInv, TypeOK, PC, Errors, WhereInv, PendingInv
<1>2. SpinInv' /\ WhereInv' /\ FreshInv'
  BY DEF IInv, TypeOK, SpinInv, WhereInv, FreshInv
<1>3. CountInv' /\ OneNodePerInum'
  BY DEF IInv, TypeOK, WhereInv, CountInv, PendingInv, OneNodePerInum
<1>4. PendingInv'
  BY DEF IInv, TypeOK, SpinInv, WhereInv, CountInv, PendingInv, CreationInv
<1>5. CreationInv'
  BY DEF IInv, TypeOK, SpinInv, WhereInv, FreshInv, PendingInv, CreationInv
<1>6. RefAccounting'
  BY <1>1, <1>2, HoldersStep DEF IInv, TypeOK, WhereInv, RefAccounting, Holds
<1> QED  BY <1>1, <1>2, <1>3, <1>4, <1>5, <1>6 DEF IInv

LEMMA CreatorStoreStep ==
  ASSUME IInv, NEW t \in Thread, CreatorStore(t)
  PROVE  IInv'
<1> USE CacheAssumption DEF CreatorStore, CreatorUse, Store, Goto
<1>1. TypeOK'
  BY DEF IInv, TypeOK, PC, Errors, WhereInv, PendingInv
<1>2. SpinInv' /\ WhereInv' /\ FreshInv'
  BY DEF IInv, TypeOK, SpinInv, WhereInv, FreshInv
<1>3. CountInv' /\ OneNodePerInum'
  BY DEF IInv, TypeOK, WhereInv, CountInv, PendingInv, OneNodePerInum
<1>4. PendingInv'
  BY DEF IInv, TypeOK, SpinInv, WhereInv, CountInv, PendingInv, CreationInv
<1>5. CreationInv'
  BY DEF IInv, TypeOK, SpinInv, WhereInv, FreshInv, PendingInv, CreationInv
<1>6. RefAccounting'
  <2> SUFFICES ASSUME NEW n \in used'
               PROVE  (refs[n] + lost[n] = leak[n] + keeps[n] + Cardinality(Holders(n)))'
    BY DEF RefAccounting
  <2>1. \A u \in Thread \ {t} : np'[u] = np[u] /\ pc'[u] = pc[u]
    BY DEF IInv, TypeOK
  <2>2. /\ Cardinality(Holders(n)) \in Nat
        /\ Cardinality(Holders(n)') + Holds(t, n) = Cardinality(Holders(n)) + Holds(t, n)'
        /\ Cardinality(Holders(n)') \in Nat
    BY <2>1, HoldersStep
  <2> QED  BY <1>1, <2>2 DEF IInv, TypeOK, WhereInv, PendingInv, RefAccounting, Holds
<1> QED  BY <1>1, <1>2, <1>3, <1>4, <1>5, <1>6 DEF IInv

LEMMA AbandonStep ==
  ASSUME IInv, NEW t \in Thread, Abandon(t)
  PROVE  IInv'
<1> USE CacheAssumption DEF Abandon, Goto
<1>1. TypeOK'
  BY DEF IInv, TypeOK, PC, Errors, WhereInv, PendingInv
<1>2. SpinInv' /\ WhereInv' /\ FreshInv'
  BY DEF IInv, TypeOK, SpinInv, WhereInv, FreshInv
<1>3. CountInv' /\ OneNodePerInum'
  BY DEF IInv, TypeOK, WhereInv, CountInv, PendingInv, OneNodePerInum
<1>4. PendingInv'
  BY DEF IInv, TypeOK, SpinInv, WhereInv, CountInv, PendingInv, CreationInv
<1>5. CreationInv'
  BY DEF IInv, TypeOK, SpinInv, WhereInv, FreshInv, PendingInv, CreationInv
<1>6. RefAccounting'
  <2> SUFFICES ASSUME NEW n \in used'
               PROVE  (refs[n] + lost[n] = leak[n] + keeps[n] + Cardinality(Holders(n)))'
    BY DEF RefAccounting
  <2>1. \A u \in Thread \ {t} : np'[u] = np[u] /\ pc'[u] = pc[u]
    BY DEF IInv, TypeOK
  <2>2. /\ Cardinality(Holders(n)) \in Nat
        /\ Cardinality(Holders(n)') + Holds(t, n) = Cardinality(Holders(n)) + Holds(t, n)'
        /\ Cardinality(Holders(n)') \in Nat
    BY <2>1, HoldersStep
  <2> QED  BY <1>1, <2>2 DEF IInv, TypeOK, WhereInv, PendingInv, RefAccounting, Holds
<1> QED  BY <1>1, <1>2, <1>3, <1>4, <1>5, <1>6 DEF IInv

LEMMA NrefLoadStep ==
  ASSUME IInv, NEW t \in Thread, NrefLoad(t)
  PROVE  IInv'
<1> USE CacheAssumption DEF NrefLoad, Load, SpinLock, Goto
<1>1. TypeOK'
  BY DEF IInv, TypeOK, PC, Errors, WhereInv, PendingInv
<1>2. SpinInv' /\ WhereInv' /\ FreshInv'
  BY DEF IInv, TypeOK, SpinInv, WhereInv, FreshInv
<1>3. CountInv' /\ OneNodePerInum'
  BY DEF IInv, TypeOK, WhereInv, CountInv, PendingInv, OneNodePerInum
<1>4. PendingInv'
  BY DEF IInv, TypeOK, SpinInv, WhereInv, CountInv, PendingInv, CreationInv
<1>5. CreationInv'
  BY DEF IInv, TypeOK, SpinInv, WhereInv, FreshInv, PendingInv, CreationInv
<1>6. RefAccounting'
  <2> SUFFICES ASSUME NEW n \in used'
               PROVE  (refs[n] + lost[n] = leak[n] + keeps[n] + Cardinality(Holders(n)))'
    BY DEF RefAccounting
  <2>1. \A u \in Thread \ {t} : np'[u] = np[u] /\ pc'[u] = pc[u]
    BY DEF IInv, TypeOK
  <2>2. /\ Cardinality(Holders(n)) \in Nat
        /\ Cardinality(Holders(n)') + Holds(t, n) = Cardinality(Holders(n)) + Holds(t, n)'
        /\ Cardinality(Holders(n)') \in Nat
    BY <2>1, HoldersStep
  <2> QED  BY <1>1, <2>2 DEF IInv, TypeOK, WhereInv, PendingInv, RefAccounting, Holds
<1> QED  BY <1>1, <1>2, <1>3, <1>4, <1>5, <1>6 DEF IInv

LEMMA NrefStoreStep ==
  ASSUME IInv, NEW t \in Thread, NrefStore(t)
  PROVE  IInv'
<1> USE CacheAssumption DEF NrefStore, Store, SpinUnlock, Goto
<1>1. TypeOK'
  BY DEF IInv, TypeOK, PC, Errors, WhereInv, PendingInv
<1>2. SpinInv' /\ WhereInv' /\ FreshInv'
  BY DEF IInv, TypeOK, SpinInv, WhereInv, FreshInv
<1>3. CountInv' /\ OneNodePerInum'
  BY DEF IInv, TypeOK, WhereInv, CountInv, PendingInv, OneNodePerInum
<1>4. PendingInv'
  BY DEF IInv, TypeOK, SpinInv, WhereInv, CountInv, PendingInv, CreationInv
<1>5. CreationInv'
  BY DEF IInv, TypeOK, SpinInv, WhereInv, FreshInv, PendingInv, CreationInv
<1>6. RefAccounting'
  <2> SUFFICES ASSUME NEW n \in used'
               PROVE  (refs[n] + lost[n] = leak[n] + keeps[n] + Cardinality(Holders(n)))'
    BY DEF RefAccounting
  <2>1. \A u \in Thread \ {t} : np'[u] = np[u] /\ pc'[u] = pc[u]
    BY DEF IInv, TypeOK
  <2>2. /\ Cardinality(Holders(n)) \in Nat
        /\ Cardinality(Holders(n)') + Holds(t, n) = Cardinality(Holders(n)) + Holds(t, n)'
        /\ Cardinality(Holders(n)') \in Nat
    BY <2>1, HoldersStep
  <2> QED  BY <1>1, <2>2 DEF IInv, TypeOK, WhereInv, PendingInv, RefAccounting, Holds
<1> QED  BY <1>1, <1>2, <1>3, <1>4, <1>5, <1>6 DEF IInv

LEMMA NputLoadStep ==
  ASSUME IInv, NEW t \in Thread, NputLoad(t)
  PROVE  IInv'
<1> USE CacheAssumption DEF NputLoad, Load, SpinLock, Goto
<1>1. TypeOK'
  BY DEF IInv, TypeOK, PC, Errors, WhereInv, PendingInv
<1>2. SpinInv' /\ WhereInv' /\ FreshInv'
  BY DEF IInv, TypeOK, SpinInv, WhereInv, FreshInv
<1>3. CountInv' /\ OneNodePerInum'
  BY DEF IInv, TypeOK, WhereInv, CountInv, PendingInv, OneNodePerInum
<1>4. PendingInv'
  BY DEF IInv, TypeOK, SpinInv, WhereInv, CountInv, PendingInv, CreationInv
<1>5. CreationInv'
  BY DEF IInv, TypeOK, SpinInv, WhereInv, FreshInv, PendingInv, CreationInv
<1>6. RefAccounting'
  <2> SUFFICES ASSUME NEW n \in used'
               PROVE  (refs[n] + lost[n] = leak[n] + keeps[n] + Cardinality(Holders(n)))'
    BY DEF RefAccounting
  <2>1. \A u \in Thread \ {t} : np'[u] = np[u] /\ pc'[u] = pc[u]
    BY DEF IInv, TypeOK
  <2>2. /\ Cardinality(Holders(n)) \in Nat
        /\ Cardinality(Holders(n)') + Holds(t, n) = Cardinality(Holders(n)) + Holds(t, n)'
        /\ Cardinality(Holders(n)') \in Nat
    BY <2>1, HoldersStep
  <2> QED  BY <1>1, <2>2 DEF IInv, TypeOK, WhereInv, PendingInv, RefAccounting, Holds
<1> QED  BY <1>1, <1>2, <1>3, <1>4, <1>5, <1>6 DEF IInv

LEMMA NputStoreStep ==
  ASSUME IInv, NEW t \in Thread, NputStore(t)
  PROVE  IInv'
<1> USE CacheAssumption DEF NputStore, Store, SpinUnlock, ReleaseStore, diskfs_node_norefs, Goto
<1>1. TypeOK'
  BY DEF IInv, TypeOK, PC, Errors, WhereInv, PendingInv
<1>2. SpinInv' /\ WhereInv' /\ FreshInv'
  BY DEF IInv, TypeOK, SpinInv, WhereInv, FreshInv
<1>3. CountInv' /\ OneNodePerInum'
  BY DEF IInv, TypeOK, WhereInv, CountInv, PendingInv, OneNodePerInum
<1>4. PendingInv'
  <2> SUFFICES ASSUME NEW u \in Thread, pc'[u] \in Updating \cup Creating
               PROVE  /\ np'[u] \in hashed'
                      /\ pc'[u] \in Updating => reg'[u] # 0
                      /\ pc'[u] = "nrele" => keeps'[np'[u]] # 0
    BY DEF PendingInv
  <2>1. u # t /\ pc'[u] = pc[u] /\ np'[u] = np[u]
    BY DEF IInv, TypeOK
  <2>2. pc[u] \in Creating /\ np[u] \in hashed
    BY <2>1 DEF IInv, SpinInv, PendingInv
  <2>3. np[u] = np[t] => reg[t] # 1
    BY <2>2, NotLast
  <2> QED  BY <2>1, <2>2, <2>3
<1>5. CreationInv'
  BY DEF IInv, TypeOK, SpinInv, WhereInv, FreshInv, PendingInv, CreationInv
<1>6. RefAccounting'
  <2> SUFFICES ASSUME NEW n \in used'
               PROVE  (refs[n] + lost[n] = leak[n] + keeps[n] + Cardinality(Holders(n)))'
    BY DEF RefAccounting
  <2>1. \A u \in Thread \ {t} : np'[u] = np[u] /\ pc'[u] = pc[u]
    BY DEF IInv, TypeOK
  <2>2. /\ Cardinality(Holders(n)) \in Nat
        /\ Cardinality(Holders(n)') + Holds(t, n) = Cardinality(Holders(n)) + Holds(t, n)'
        /\ Cardinality(Holders(n)') \in Nat
    BY <2>1, HoldersStep
  <2> QED  BY <1>1, <2>2 DEF IInv, TypeOK, WhereInv, PendingInv, RefAccounting, Holds
<1> QED  BY <1>1, <1>2, <1>3, <1>4, <1>5, <1>6 DEF IInv

LEMMA NreleLoadStep ==
  ASSUME IInv, NEW t \in Thread, NEW m \in Node, NreleLoad(t, m)
  PROVE  IInv'
<1> USE CacheAssumption DEF NreleLoad, Load, SpinLock, Goto
<1>1. TypeOK'
  BY DEF IInv, TypeOK, PC, Errors, WhereInv, PendingInv
<1>2. SpinInv' /\ WhereInv' /\ FreshInv'
  BY DEF IInv, TypeOK, SpinInv, WhereInv, FreshInv
<1>3. CountInv' /\ OneNodePerInum'
  BY DEF IInv, TypeOK, WhereInv, CountInv, PendingInv, OneNodePerInum
<1>4. PendingInv'
  BY DEF IInv, TypeOK, SpinInv, WhereInv, CountInv, PendingInv, CreationInv
<1>5. CreationInv'
  BY DEF IInv, TypeOK, SpinInv, WhereInv, FreshInv, PendingInv, CreationInv
<1>6. RefAccounting'
  BY <1>1, <1>2, HoldersStep DEF IInv, TypeOK, WhereInv, RefAccounting, Holds
<1> QED  BY <1>1, <1>2, <1>3, <1>4, <1>5, <1>6 DEF IInv

LEMMA NreleStoreStep ==
  ASSUME IInv, NEW t \in Thread, NreleStore(t)
  PROVE  IInv'
<1> USE CacheAssumption DEF NreleStore, Store, SpinUnlock, ReleaseStore, diskfs_node_norefs, Goto
<1>1. TypeOK'
  <2>0. /\ np[t] \in Node /\ reg[t] \in Nat /\ keeps[np[t]] \in Nat
        /\ reg[t] # 0 /\ keeps[np[t]] # 0
    BY DEF IInv, TypeOK, PendingInv
  <2>1. reg[t] - 1 \in Nat /\ keeps[np[t]] - 1 \in Nat
    BY <2>0
  <2> QED  BY <2>1 DEF IInv, TypeOK, PC, WhereInv
<1>2. SpinInv' /\ WhereInv' /\ FreshInv'
  BY DEF IInv, TypeOK, SpinInv, WhereInv, FreshInv
<1>3. CountInv' /\ OneNodePerInum'
  BY DEF IInv, TypeOK, WhereInv, CountInv, PendingInv, OneNodePerInum
<1>4. PendingInv'
  <2> SUFFICES ASSUME NEW u \in Thread, pc'[u] \in Updating \cup Creating
               PROVE  /\ np'[u] \in hashed'
                      /\ pc'[u] \in Updating => reg'[u] # 0
                      /\ pc'[u] = "nrele" => keeps'[np'[u]] # 0
    BY DEF PendingInv
  <2>1. u # t /\ pc'[u] = pc[u] /\ np'[u] = np[u]
    BY DEF IInv, TypeOK
  <2>2. pc[u] \in Creating /\ np[u] \in hashed
    BY <2>1 DEF IInv, SpinInv, PendingInv
  <2>3. np[u] = np[t] => reg[t] # 1
    BY <2>2, NotLast
  <2> QED  BY <2>1, <2>2, <2>3
<1>5. CreationInv'
  BY DEF IInv, TypeOK, SpinInv, WhereInv, FreshInv, PendingInv, CreationInv
<1>6. RefAccounting'
  <2> SUFFICES ASSUME NEW n \in used'
               PROVE  (refs[n] + lost[n] = leak[n] + keeps[n] + Cardinality(Holders(n)))'
    BY DEF RefAccounting
  <2>1. \A u \in Thread \ {t} : np'[u] = np[u] /\ pc'[u] = pc[u]
    BY DEF IInv, TypeOK
  <2>2. /\ Cardinality(Holders(n)) \in Nat
        /\ Cardinality(Holders(n)') + Holds(t, n) = Cardinality(Holders(n)) + Holds(t, n)'
        /\ Cardinality(Holders(n)') \in Nat
    BY <2>1, HoldersStep
  <2>3. Holds(t, n) = 0 /\ Holds(t, n)' = 0
    BY DEF IInv, TypeOK, Holds
  <2>4. /\ n \in used /\ n \in Node
        /\ refs[n] + lost[n] = leak[n] + keeps[n] + Cardinality(Holders(n))
    BY DEF IInv, TypeOK, RefAccounting
  <2>5. CASE n = np[t]
    BY <2>2, <2>3, <2>4, <2>5 DEF IInv, TypeOK
  <2>6. CASE n # np[t]
    BY <2>2, <2>3, <2>4, <2>6 DEF IInv, TypeOK
  <2> QED  BY <2>5, <2>6
<1> QED  BY <1>1, <1>2, <1>3, <1>4, <1>5, <1>6 DEF IInv

LEMMA NextStep ==
  ASSUME IInv, Next
  PROVE  IInv'
<1>1. PICK t \in Thread : Lookup(t) \/ Client(t)
  BY DEF Next
<1>2. CASE Lookup(t)
  BY <1>2, LookupHitStep, LookupCountedStep, LookupLockedStep,
     LookupNoMemoryStep, LookupMissStep, ReadNodeFailsStep, ReadNodeFillStep,
     ReadNodeExceptionStep, ReadNodeDoneStep, CreatorLoadStep,
     CreatorStoreStep DEF Lookup
<1>3. CASE Client(t)
  BY <1>3, AbandonStep, NrefLoadStep, NrefStoreStep, NputLoadStep,
     NputStoreStep, NreleLoadStep, NreleStoreStep DEF Client
<1> QED  BY <1>1, <1>2, <1>3

LEMMA StutterStep ==
  ASSUME IInv, UNCHANGED vars
  PROVE  IInv'
BY DEF vars, IInv, TypeOK, SpinInv, WhereInv, CountInv, FreshInv, PendingInv,
       CreationInv, OneNodePerInum, RefAccounting, Holders

LEMMA Invariance == Spec => []IInv
<1>1. Init => IInv
  BY CacheAssumption
     DEF Init, IInv, TypeOK, PC, Errors, SpinInv, WhereInv, CountInv, FreshInv,
         PendingInv, CreationInv, OneNodePerInum, RefAccounting
<1>2. IInv /\ [Next]_vars => IInv'
  BY NextStep, StutterStep
<1> QED  BY <1>1, <1>2, PTL DEF Spec

-----------------------------------------------------------------------------
(* Every variable of the cache keeps its type; np->references, in           *)
(* particular, never goes below zero.                                       *)
THEOREM TypeCorrect == Spec => []TypeOK
<1>1. IInv => TypeOK
  BY DEF IInv
<1> QED  BY <1>1, Invariance, PTL

(* However many threads look an inode number up at once, nodehash never     *)
(* holds two nodes for it (dir.c:307-353).                                  *)
THEOREM OneNode == Spec => []OneNodePerInum
<1>1. IInv => OneNodePerInum
  BY DEF IInv
<1> QED  BY <1>1, Invariance, PTL

(* np->references counts the users of the node, the leaked references and   *)
(* the updates overwritten by dir.c:358, in every interleaving.             *)
THEOREM RefsAccounted == Spec => []RefAccounting
<1>1. IInv => RefAccounting
  BY DEF IInv
<1> QED  BY <1>1, Invariance, PTL

(* diskfs_node_norefs frees a node that is in use only after the unlocked   *)
(* increment overwrote two updates or more.                                 *)
THEOREM FreedUnused == Spec => []NoUseAfterFree
<1>1. IInv => NoUseAfterFree
  <2> SUFFICES ASSUME IInv, NEW n \in used, lost[n] <= 1, n \notin hashed
               PROVE  Users(n) = {} /\ keeps[n] = 0
    BY DEF NoUseAfterFree
  <2> DEFINE c == Cardinality(Holders(n))
  <2>1. IsFiniteSet(Holders(n))
    BY CacheAssumption, FS_Subset DEF Holders
  <2>2. c \in Nat /\ (c = 0 => Holders(n) = {})
    BY <2>1, FS_CardinalityType, FS_EmptySet
  <2>3. /\ refs[n] = 0 /\ lost[n] \in Int /\ keeps[n] \in Nat
        /\ leak[n] \in Nat /\ leak[n] # 0
        /\ refs[n] + lost[n] = leak[n] + keeps[n] + c
    BY DEF IInv, TypeOK, CountInv, RefAccounting
  <2> HIDE DEF c
  <2>4. keeps[n] = 0 /\ c = 0
    BY <2>2, <2>3
  <2>5. Users(n) = Holders(n)
    <3>1. ASSUME NEW t \in Thread, np[t] = n
          PROVE  pc[t] \in Holding
      BY <3>1, CacheAssumption DEF IInv, TypeOK, PC, WhereInv, PendingInv
    <3> QED  BY <3>1 DEF Users, Holders
  <2> QED  BY <2>2, <2>4, <2>5
<1> QED  BY <1>1, Invariance, PTL

(* Once the creation of a node is over, every update of its count that      *)
(* starts afterwards takes effect.                                          *)
THEOREM Settles == Spec => CountSettles
<1>1. ASSUME IInv, [Next]_vars, NEW n \in used, Settled(n)
      PROVE  Settled(n)' /\ lost'[n] = lost[n]
  <2>1. CASE UNCHANGED vars
    BY <1>1, <2>1 DEF vars, Settled
  <2>2. CASE Next
    <3>1. PICK t \in Thread : Lookup(t) \/ Client(t)
      BY <2>2 DEF Next
    <3> USE <1>1 DEF IInv, TypeOK, SpinInv, WhereInv, PendingInv, Settled,
                     Goto, Load, Store, SpinLock, SpinUnlock, ReleaseStore
    <3>2. CASE \E i \in Inum : LookupHit(t, i)
      BY <3>2 DEF LookupHit
    <3>3. CASE \E i \in Inum : LookupNoMemory(t, i)
      BY <3>3 DEF LookupNoMemory
    <3>4. CASE \E i \in Inum : LookupMiss(t, i)
      BY <3>4 DEF LookupMiss
    <3>5. CASE LookupCounted(t)
      BY <3>5 DEF LookupCounted
    <3>6. CASE LookupLocked(t)
      BY <3>6 DEF LookupLocked
    <3>7. CASE ReadNodeFails(t) \/ ReadNodeFill(t) \/ ReadNodeException(t) \/ ReadNodeDone(t)
      BY <3>7 DEF ReadNodeFails, ReadNodeFill, ReadNodeException, ReadNodeDone
    <3>8. CASE CreatorLoad(t) \/ CreatorStore(t)
      BY <3>8 DEF CreatorLoad, CreatorStore, CreatorUse
    <3>9. CASE Abandon(t)
      BY <3>9, CacheAssumption DEF Abandon
    <3>10. CASE NrefLoad(t) \/ NrefStore(t)
      BY <3>10 DEF NrefLoad, NrefStore
    <3>11. CASE NputLoad(t) \/ NputStore(t)
      BY <3>11, CacheAssumption DEF NputLoad, NputStore
    <3>12. CASE (\E m \in Node : NreleLoad(t, m)) \/ NreleStore(t)
      BY <3>12, CacheAssumption DEF NreleLoad, NreleStore
    <3> QED
      BY <3>1, <3>2, <3>3, <3>4, <3>5, <3>6, <3>7, <3>8, <3>9, <3>10, <3>11,
         <3>12 DEF Lookup, Client
  <2> QED  BY <1>1, <2>1, <2>2
<1>2. IInv /\ [Next]_vars
        => [\A n \in used : Settled(n) => Settled(n)' /\ lost'[n] = lost[n]]_vars
  BY <1>1
<1> QED  BY <1>2, Invariance, PTL DEF Spec, CountSettles

-----------------------------------------------------------------------------
(* Only a miss and the release of a last reference change the table. *)
LEMMA MissInserts ==
  ASSUME IInv, NEW t \in Thread, NEW i \in Inum, LookupMiss(t, i)
  PROVE  \E n \in Node : Table!Insert(i, n)
<1>1. PICK n \in Node \ used : hashed' = hashed \cup {n} /\ inum' = [inum EXCEPT ![n] = i]
  BY DEF LookupMiss, CacheId
<1>2. \A m \in hashed : inum[m] # i /\ m # n
  BY <1>1 DEF IInv, TypeOK, LookupMiss, Absent
<1>3. /\ \A m \in hashed : inum'[m] = inum[m]
      /\ inum'[n] = i
  BY <1>1, <1>2 DEF IInv, TypeOK
<1>4. {<<inum'[m], m>> : m \in hashed'} = {<<inum[m], m>> : m \in hashed} \cup {<<i, n>>}
  BY <1>1, <1>3
<1> QED  BY <1>2, <1>4 DEF Table!Insert

LEMMA ReleaseRemoves ==
  ASSUME NEW n \in hashed, inum' = inum, hashed' = hashed \ {n}
  PROVE  \E e \in {<<inum[m], m>> : m \in hashed} : Table!Remove(e)
<1>1. {<<inum'[m], m>> : m \in hashed'} = {<<inum[m], m>> : m \in hashed} \ {<<inum[n], n>>}
  OBVIOUS
<1> QED  BY <1>1 DEF Table!Remove

(* With any number of threads, nodehash is a table with at most one node    *)
(* per inode number that changes by one entry at a time.                    *)
THEOREM RefinesTable == Spec => ImplementsTable
<1>1. Init => Table!Init
  BY DEF Init, Table!Init
<1>2. ASSUME IInv, Next
      PROVE  Table!Next \/ UNCHANGED {<<inum[n], n>> : n \in hashed}
  <2>1. PICK t \in Thread : Lookup(t) \/ Client(t)
    BY <1>2 DEF Next
  <2>2. CASE \E i \in Inum : LookupMiss(t, i)
    BY <1>2, <2>2, MissInserts DEF Table!Next
  <2>3. CASE NputStore(t) \/ NreleStore(t)
    <3>1. inum' = inum /\ np[t] \in hashed
          /\ (hashed' = hashed \/ hashed' = hashed \ {np[t]})
      BY <2>3 DEF NputStore, NreleStore, ReleaseStore, diskfs_node_norefs
    <3> QED  BY <3>1, ReleaseRemoves DEF Table!Next
  <2>4. CASE ~ (\E i \in Inum : LookupMiss(t, i)) /\ ~ (NputStore(t) \/ NreleStore(t))
    <3>1. hashed' = hashed /\ inum' = inum
      BY <2>1, <2>4
         DEF Lookup, Client, LookupHit, LookupNoMemory, LookupCounted, LookupLocked,
             ReadNodeFails, ReadNodeFill, ReadNodeException, ReadNodeDone, CreatorLoad,
             CreatorStore, Abandon, NrefLoad, NrefStore, NputLoad, NreleLoad
    <3> QED  BY <3>1
  <2> QED  BY <2>2, <2>3, <2>4
<1>3. UNCHANGED vars => UNCHANGED {<<inum[n], n>> : n \in hashed}
  BY DEF vars
<1> QED  BY <1>1, <1>2, <1>3, Invariance, PTL DEF Spec, ImplementsTable, Table!Spec
=============================================================================
