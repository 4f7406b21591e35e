-------------------------- MODULE FilePagerProofs --------------------------
(***************************************************************************)
(* Proofs about FilePager, for any number of threads, nodes, pagers,       *)
(* references and rights.                                                  *)
(***************************************************************************)
EXTENDS FilePager, FiniteSetTheorems, TLAPS

(* node2pagelock is held inside the loop and while a pager is cleared. *)
LockInv ==
  /\ \A t \in Thread : pc[t] \in {"loop", "create"} => lock = t
  /\ \A u \in Upi : phase[u] = "clearing" => lock = u

(* What a thread inside diskfs_get_filemap knows about its node and upi. *)
CallInv ==
  \A t \in Thread :
    /\ pc[t] # "idle" => np[t] \in Node
    /\ pc[t] = "create" =>
         /\ upi[t] \in Upi
         /\ phase[upi[t]] = "alloc"
         /\ upinp[upi[t]] = np[t]
         /\ fileinfo[np[t]] = NoUpi
    /\ pc[t] = "insert" => upi[t] \in Upi /\ phase[upi[t]] = "live"

(* A record knows its node; a live pager is the one in fileinfo, and only   *)
(* live pagers have rights.                                                 *)
RecordInv ==
  \A u \in Upi :
    /\ phase[u] # "free" => upinp[u] \in Node
    /\ phase[u] = "live" => fileinfo[upinp[u]] = u
    /\ rights[u] > 0 => phase[u] = "live"

(* fileinfo points to a record that was not cleared. *)
PointerInv ==
  \A n \in Node : fileinfo[n] # NoUpi =>
    upinp[fileinfo[n]] = n /\ phase[fileinfo[n]] \in {"live", "dying"}

(* The bucket is closed while diskfs_pager_users is at work. *)
ShutInv ==
  /\ sd # "idle" => inhibited
  /\ QuietShutdown
  /\ sd \in {"idle", "reopen"} => \A u \in Live : caching[u]

IInv ==
  /\ TypeOK
  /\ LockInv
  /\ CallInv
  /\ RecordInv
  /\ PointerInv
  /\ ShutInv
  /\ LightAccounting

-----------------------------------------------------------------------------
(* What record u adds to the number of records of n. *)
Counts(u, n) == IF phase[u] # "free" /\ upinp[u] = n THEN 1 ELSE 0

(* A step that changes only record u changes the number of records of a     *)
(* node by whether u belongs to it before and after.                        *)
LEMMA RecordsStep ==
  ASSUME NEW n, NEW u \in Upi,
         \A v \in Upi \ {u} : phase'[v] = phase[v] /\ upinp'[v] = upinp[v]
  PROVE  /\ Cardinality(Records(n)) \in Nat
         /\ Counts(u, n) <= Cardinality(Records(n))
         /\ Cardinality(Records(n)') \in Nat
         /\ Cardinality(Records(n)') + Counts(u, n)
              = Cardinality(Records(n)) + Counts(u, n)'
<1>1. IsFiniteSet(Records(n)) /\ IsFiniteSet(Records(n)')
  BY PagerAssumption, FS_Subset DEF Records
<1>2. Cardinality(Records(n)) \in Nat /\ Cardinality(Records(n)') \in Nat
  BY <1>1, FS_CardinalityType
<1>3. /\ Counts(u, n) = IF u \in Records(n) THEN 1 ELSE 0
      /\ Counts(u, n)' = IF u \in Records(n)' THEN 1 ELSE 0
  BY DEF Counts, Records
<1>4. u \in Records(n) => Cardinality(Records(n)) # 0
  BY <1>1, FS_EmptySet
<1>5. CASE u \in Records(n) <=> u \in Records(n)'
  <2>1. Records(n)' = Records(n)
    BY <1>5 DEF Records
  <2> QED  BY <1>2, <1>3, <1>4, <1>5, <2>1
<1>6. CASE u \notin Records(n) /\ u \in Records(n)'
  <2>1. Records(n)' = Records(n) \cup {u}
    BY <1>6 DEF Records
  <2> QED  BY <1>1, <1>2, <1>3, <1>6, <2>1, FS_AddElement
<1>7. CASE u \in Records(n) /\ u \notin Records(n)'
  <2>1. Records(n)' = Records(n) \ {u}
    BY <1>7 DEF Records
  <2> QED  BY <1>1, <1>2, <1>3, <1>4, <1>7, <2>1, FS_RemoveElement
<1> QED  BY <1>5, <1>6, <1>7

(* The node of a record that is not free has a light reference. *)
LEMMA RecordHolds ==
  ASSUME IInv, NEW u \in Upi, phase[u] # "free"
  PROVE  upinp[u] \in Node /\ light[upinp[u]] # 0
<1>1. upinp[u] \in Node /\ u \in Records(upinp[u])
  BY DEF IInv, RecordInv, Records
<1>2. IsFiniteSet(Records(upinp[u]))
  BY PagerAssumption, FS_Subset DEF Records
<1>3. Cardinality(Records(upinp[u])) # 0
  BY <1>1, <1>2, FS_EmptySet
<1> QED  BY <1>1, <1>3 DEF IInv, LightAccounting

LEMMA OpenStep ==
  ASSUME IInv, NEW n \in Node, Open(n)
  PROVE  IInv'
<1> USE PagerAssumption DEF Open
<1>1. TypeOK'
  BY DEF IInv, TypeOK, Phase, CallInv, RecordInv, Live
<1>2. LockInv'
  BY DEF IInv, TypeOK, LockInv, CallInv, Live
<1>3. fileinfo' = fileinfo
  <2>1. ~Exists(n) => fileinfo[n] = NoUpi
    BY RecordHolds DEF IInv, TypeOK, PointerInv, Exists
  <2> QED  BY <2>1 DEF IInv, TypeOK
<1>4. CallInv' /\ RecordInv' /\ PointerInv'
  BY <1>3 DEF IInv, CallInv, RecordInv, PointerInv
<1>5. ShutInv'
  BY DEF IInv, TypeOK, CallInv, ShutInv, QuietShutdown, Live
<1>6. LightAccounting'
  <2>1. \A m \in Node : Records(m)' = Records(m)
    BY DEF IInv, TypeOK, CallInv, Records
  <2> QED  BY <2>1 DEF IInv, TypeOK, LightAccounting
<1> QED  BY <1>1, <1>2, <1>3, <1>4, <1>5, <1>6 DEF IInv

LEMMA CloseStep ==
  ASSUME IInv, NEW n \in Node, Close(n)
  PROVE  IInv'
<1> USE PagerAssumption DEF Close
<1>1. TypeOK'
  <2>1. IsFiniteSet(Callers(n))
    BY FS_Subset DEF Callers
  <2>2. Cardinality(Callers(n)) \in Nat
    BY <2>1, FS_CardinalityType
  <2>3. hard[n] - 1 \in Nat
    BY <2>2 DEF IInv, TypeOK
  <2> QED  BY <2>3 DEF IInv, TypeOK
<1>2. LockInv'
  BY DEF IInv, TypeOK, LockInv, CallInv, Live
<1>3. CallInv'
  BY DEF IInv, TypeOK, LockInv, CallInv, RecordInv, PointerInv, Promised, Live
<1>4. RecordInv' /\ PointerInv'
  BY DEF IInv, TypeOK, LockInv, CallInv, RecordInv, PointerInv, Promised, Live
<1>5. ShutInv'
  BY DEF IInv, TypeOK, CallInv, ShutInv, QuietShutdown, Live
<1>6. LightAccounting'
  <2>1. \A m \in Node : Records(m)' = Records(m)
    BY DEF IInv, TypeOK, CallInv, Records
  <2> QED  BY <2>1 DEF IInv, TypeOK, LightAccounting
<1> QED  BY <1>1, <1>2, <1>3, <1>4, <1>5, <1>6 DEF IInv

LEMMA GetFilemapStep ==
  ASSUME IInv, NEW t \in Thread, NEW n \in Node, GetFilemap(t, n)
  PROVE  IInv'
<1> USE PagerAssumption DEF GetFilemap
<1>1. TypeOK'
  BY DEF IInv, TypeOK, Phase, CallInv, RecordInv, Live
<1>2. LockInv'
  BY DEF IInv, TypeOK, LockInv, CallInv, Live
<1>3. CallInv'
  BY DEF IInv, TypeOK, LockInv, CallInv, RecordInv, PointerInv, Promised, Live
<1>4. RecordInv' /\ PointerInv'
  BY DEF IInv, TypeOK, LockInv, CallInv, RecordInv, PointerInv, Promised, Live
<1>5. ShutInv'
  BY DEF IInv, TypeOK, CallInv, ShutInv, QuietShutdown, Live
<1>6. LightAccounting'
  <2>1. \A m \in Node : Records(m)' = Records(m)
    BY DEF IInv, TypeOK, CallInv, Records
  <2> QED  BY <2>1 DEF IInv, TypeOK, LightAccounting
<1> QED  BY <1>1, <1>2, <1>3, <1>4, <1>5, <1>6 DEF IInv

LEMMA LockNode2PageStep ==
  ASSUME IInv, NEW t \in Thread, LockNode2Page(t)
  PROVE  IInv'
<1> USE PagerAssumption DEF LockNode2Page
<1>1. TypeOK'
  BY DEF IInv, TypeOK, Phase, CallInv, RecordInv, Live
<1>2. LockInv'
  BY DEF IInv, TypeOK, LockInv, CallInv, Live
<1>3. CallInv'
  BY DEF IInv, TypeOK, LockInv, CallInv, RecordInv, PointerInv, Promised, Live
<1>4. RecordInv' /\ PointerInv'
  BY DEF IInv, TypeOK, LockInv, CallInv, RecordInv, PointerInv, Promised, Live
<1>5. ShutInv'
  BY DEF IInv, TypeOK, CallInv, ShutInv, QuietShutdown, Live
<1>6. LightAccounting'
  <2>1. \A m \in Node : Records(m)' = Records(m)
    BY DEF IInv, TypeOK, CallInv, Records
  <2> QED  BY <2>1 DEF IInv, TypeOK, LightAccounting
<1> QED  BY <1>1, <1>2, <1>3, <1>4, <1>5, <1>6 DEF IInv

LEMMA AllocUpiStep ==
  ASSUME IInv, NEW t \in Thread, AllocUpi(t)
  PROVE  IInv'
<1> USE PagerAssumption DEF AllocUpi
<1>1. TypeOK'
  BY DEF IInv, TypeOK, Phase, CallInv, RecordInv, Live
<1>2. LockInv'
  BY DEF IInv, TypeOK, LockInv, CallInv, Live
<1>3. CallInv'
  BY DEF IInv, TypeOK, LockInv, CallInv, RecordInv, PointerInv, Promised, Live
<1>4. RecordInv' /\ PointerInv'
  BY DEF IInv, TypeOK, LockInv, CallInv, RecordInv, PointerInv, Promised, Live
<1>5. ShutInv'
  BY DEF IInv, TypeOK, CallInv, ShutInv, QuietShutdown, Live
<1>6. LightAccounting'
  <2>1. PICK u \in Upi :
          /\ phase[u] = "free"
          /\ phase' = [phase EXCEPT ![u] = "alloc"]
          /\ upinp' = [upinp EXCEPT ![u] = np[t]]
    OBVIOUS
  <2> SUFFICES ASSUME NEW n \in Node
               PROVE  (light[n] = Cardinality(Records(n)))'
    BY DEF LightAccounting
  <2>2. /\ Cardinality(Records(n)) \in Nat /\ Cardinality(Records(n)') \in Nat
        /\ Cardinality(Records(n)') + Counts(u, n) = Cardinality(Records(n)) + Counts(u, n)'
    BY <2>1, RecordsStep DEF IInv, TypeOK
  <2> QED  BY <2>1, <2>2 DEF IInv, TypeOK, LightAccounting, Counts
<1> QED  BY <1>1, <1>2, <1>3, <1>4, <1>5, <1>6 DEF IInv

LEMMA PagerCreateFailsStep ==
  ASSUME IInv, NEW t \in Thread, PagerCreateFails(t)
  PROVE  IInv'
<1> USE PagerAssumption DEF PagerCreateFails, diskfs_nrele_light
<1>1. TypeOK'
  <2>1. upi[t] \in Upi /\ np[t] \in Node /\ light[np[t]] # 0
    BY RecordHolds DEF IInv, CallInv
  <2>2. light[np[t]] - 1 \in Nat
    BY <2>1 DEF IInv, TypeOK
  <2> QED  BY <2>1, <2>2 DEF IInv, TypeOK, Phase
<1>2. LockInv'
  BY DEF IInv, TypeOK, LockInv, CallInv, Live
<1>3. CallInv'
  BY DEF IInv, TypeOK, LockInv, CallInv, RecordInv, PointerInv, Promised, Live
<1>4. RecordInv' /\ PointerInv'
  BY DEF IInv, TypeOK, LockInv, CallInv, RecordInv, PointerInv, Promised, Live
<1>5. ShutInv'
  BY DEF IInv, TypeOK, CallInv, ShutInv, QuietShutdown, Live
<1>6. LightAccounting'
  <2> SUFFICES ASSUME NEW n \in Node
               PROVE  (light[n] = Cardinality(Records(n)))'
    BY DEF LightAccounting
  <2> DEFINE r == upi[t]
  <2>1. r \in Upi
    BY DEF IInv, CallInv
  <2>2. /\ Cardinality(Records(n)) \in Nat /\ Cardinality(Records(n)') \in Nat
        /\ Cardinality(Records(n)') + Counts(r, n) =
             Cardinality(Records(n))
               + IF phase'[r] # "free" /\ upinp'[r] = n THEN 1 ELSE 0
    BY <2>1, RecordsStep DEF IInv, TypeOK, Counts
  <2> QED  BY <2>1, <2>2 DEF IInv, TypeOK, CallInv, RecordInv, LightAccounting, Counts
<1> QED  BY <1>1, <1>2, <1>3, <1>4, <1>5, <1>6 DEF IInv

LEMMA PagerCreatedStep ==
  ASSUME IInv, NEW t \in Thread, PagerCreated(t)
  PROVE  IInv'
<1> USE PagerAssumption DEF PagerCreated
<1>1. TypeOK'
  BY DEF IInv, TypeOK, Phase, CallInv, RecordInv, Live
<1>2. LockInv'
  BY DEF IInv, TypeOK, LockInv, CallInv, Live
<1>3. CallInv'
  BY DEF IInv, TypeOK, LockInv, CallInv, RecordInv, PointerInv, Promised, Live
<1>4. RecordInv' /\ PointerInv'
  BY DEF IInv, TypeOK, LockInv, CallInv, RecordInv, PointerInv, Promised, Live
<1>5. ShutInv'
  BY DEF IInv, TypeOK, CallInv, ShutInv, QuietShutdown, Live
<1>6. LightAccounting'
  <2>1. \A m \in Node : Records(m)' = Records(m)
    BY DEF IInv, TypeOK, CallInv, Records
  <2> QED  BY <2>1 DEF IInv, TypeOK, LightAccounting
<1> QED  BY <1>1, <1>2, <1>3, <1>4, <1>5, <1>6 DEF IInv

LEMMA PagerFoundStep ==
  ASSUME IInv, NEW t \in Thread, PagerFound(t)
  PROVE  IInv'
<1> USE PagerAssumption DEF PagerFound
<1>1. TypeOK'
  BY DEF IInv, TypeOK, Phase, CallInv, RecordInv, Live
<1>2. LockInv'
  BY DEF IInv, TypeOK, LockInv, CallInv, Live
<1>3. CallInv'
  BY DEF IInv, TypeOK, LockInv, CallInv, RecordInv, PointerInv, Promised, Live
<1>4. RecordInv' /\ PointerInv'
  BY DEF IInv, TypeOK, LockInv, CallInv, RecordInv, PointerInv, Promised, Live
<1>5. ShutInv'
  BY DEF IInv, TypeOK, CallInv, ShutInv, QuietShutdown, Live
<1>6. LightAccounting'
  <2>1. \A m \in Node : Records(m)' = Records(m)
    BY DEF IInv, TypeOK, CallInv, Records
  <2> QED  BY <2>1 DEF IInv, TypeOK, LightAccounting
<1> QED  BY <1>1, <1>2, <1>3, <1>4, <1>5, <1>6 DEF IInv

LEMMA PagerNearlyGoneStep ==
  ASSUME IInv, NEW t \in Thread, PagerNearlyGone(t)
  PROVE  IInv'
<1> USE PagerAssumption DEF PagerNearlyGone, Forgotten
<1>1. TypeOK'
  BY DEF IInv, TypeOK, Phase, CallInv, RecordInv, Live
<1>2. LockInv'
  BY DEF IInv, TypeOK, LockInv, CallInv, Live
<1>3. CallInv'
  BY DEF IInv, TypeOK, LockInv, CallInv, RecordInv, PointerInv, Promised, Live
<1>4. RecordInv' /\ PointerInv'
  BY DEF IInv, TypeOK, LockInv, CallInv, RecordInv, PointerInv, Promised, Live
<1>5. ShutInv'
  BY DEF IInv, TypeOK, CallInv, ShutInv, QuietShutdown, Live
<1>6. LightAccounting'
  <2>1. \A m \in Node : Records(m)' = Records(m)
    BY DEF IInv, TypeOK, CallInv, Records
  <2> QED  BY <2>1 DEF IInv, TypeOK, LightAccounting
<1> QED  BY <1>1, <1>2, <1>3, <1>4, <1>5, <1>6 DEF IInv

LEMMA InsertRightStep ==
  ASSUME IInv, NEW t \in Thread, InsertRight(t)
  PROVE  IInv'
<1> USE PagerAssumption DEF InsertRight
<1>1. TypeOK'
  BY DEF IInv, TypeOK, Phase, CallInv, RecordInv, Live
<1>2. LockInv'
  BY DEF IInv, TypeOK, LockInv, CallInv, Live
<1>3. CallInv'
  BY DEF IInv, TypeOK, LockInv, CallInv, RecordInv, PointerInv, Promised, Live
<1>4. RecordInv' /\ PointerInv'
  BY DEF IInv, TypeOK, LockInv, CallInv, RecordInv, PointerInv, Promised, Live
<1>5. ShutInv'
  BY DEF IInv, TypeOK, CallInv, ShutInv, QuietShutdown, Live
<1>6. LightAccounting'
  <2>1. \A m \in Node : Records(m)' = Records(m)
    BY DEF IInv, TypeOK, CallInv, Records
  <2> QED  BY <2>1 DEF IInv, TypeOK, LightAccounting
<1> QED  BY <1>1, <1>2, <1>3, <1>4, <1>5, <1>6 DEF IInv

LEMMA DropRightStep ==
  ASSUME IInv, NEW u \in Upi, DropRight(u)
  PROVE  IInv'
<1> USE PagerAssumption DEF DropRight
<1>1. TypeOK'
  BY DEF IInv, TypeOK, Phase, CallInv, RecordInv, Live
<1>2. LockInv'
  BY DEF IInv, TypeOK, LockInv, CallInv, Live
<1>3. CallInv'
  BY DEF IInv, TypeOK, LockInv, CallInv, RecordInv, PointerInv, Promised, Live
<1>4. RecordInv' /\ PointerInv'
  BY DEF IInv, TypeOK, LockInv, CallInv, RecordInv, PointerInv, Promised, Live
<1>5. ShutInv'
  BY DEF IInv, TypeOK, CallInv, ShutInv, QuietShutdown, Live
<1>6. LightAccounting'
  <2>1. \A m \in Node : Records(m)' = Records(m)
    BY DEF IInv, TypeOK, CallInv, Records
  <2> QED  BY <2>1 DEF IInv, TypeOK, LightAccounting
<1> QED  BY <1>1, <1>2, <1>3, <1>4, <1>5, <1>6 DEF IInv

LEMMA NoSendersStep ==
  ASSUME IInv, NEW u \in Upi, NoSenders(u)
  PROVE  IInv'
<1> USE PagerAssumption DEF NoSenders
<1>1. TypeOK'
  BY DEF IInv, TypeOK, Phase, CallInv, RecordInv, Live
<1>2. LockInv'
  BY DEF IInv, TypeOK, LockInv, CallInv, Live
<1>3. CallInv'
  BY DEF IInv, TypeOK, LockInv, CallInv, RecordInv, PointerInv, Promised, Live
<1>4. RecordInv' /\ PointerInv'
  BY DEF IInv, TypeOK, LockInv, CallInv, RecordInv, PointerInv, Promised, Live
<1>5. ShutInv'
  BY DEF IInv, TypeOK, CallInv, ShutInv, QuietShutdown, Live
<1>6. LightAccounting'
  <2>1. \A m \in Node : Records(m)' = Records(m)
    BY DEF IInv, TypeOK, CallInv, Records
  <2> QED  BY <2>1 DEF IInv, TypeOK, LightAccounting
<1> QED  BY <1>1, <1>2, <1>3, <1>4, <1>5, <1>6 DEF IInv

LEMMA ClearLockStep ==
  ASSUME IInv, NEW u \in Upi, ClearLock(u)
  PROVE  IInv'
<1> USE PagerAssumption DEF ClearLock, Unpublished
<1>1. TypeOK'
  BY DEF IInv, TypeOK, Phase, CallInv, RecordInv, Live
<1>2. LockInv'
  BY DEF IInv, TypeOK, LockInv, CallInv, Live
<1>3. CallInv'
  BY DEF IInv, TypeOK, LockInv, CallInv, RecordInv, PointerInv, Promised, Live
<1>4. RecordInv' /\ PointerInv'
  BY DEF IInv, TypeOK, LockInv, CallInv, RecordInv, PointerInv, Promised, Live
<1>5. ShutInv'
  BY DEF IInv, TypeOK, CallInv, ShutInv, QuietShutdown, Live
<1>6. LightAccounting'
  <2>1. \A m \in Node : Records(m)' = Records(m)
    BY DEF IInv, TypeOK, CallInv, Records
  <2> QED  BY <2>1 DEF IInv, TypeOK, LightAccounting
<1> QED  BY <1>1, <1>2, <1>3, <1>4, <1>5, <1>6 DEF IInv

LEMMA ClearUnlockStep ==
  ASSUME IInv, NEW u \in Upi, ClearUnlock(u)
  PROVE  IInv'
<1> USE PagerAssumption DEF ClearUnlock
<1>1. TypeOK'
  BY DEF IInv, TypeOK, Phase, CallInv, RecordInv, Live
<1>2. LockInv'
  BY DEF IInv, TypeOK, LockInv, CallInv, Live
<1>3. CallInv'
  BY DEF IInv, TypeOK, LockInv, CallInv, RecordInv, PointerInv, Promised, Live
<1>4. RecordInv' /\ PointerInv'
  BY DEF IInv, TypeOK, LockInv, CallInv, RecordInv, PointerInv, Promised, Live
<1>5. ShutInv'
  BY DEF IInv, TypeOK, CallInv, ShutInv, QuietShutdown, Live
<1>6. LightAccounting'
  <2>1. \A m \in Node : Records(m)' = Records(m)
    BY DEF IInv, TypeOK, CallInv, Records
  <2> QED  BY <2>1 DEF IInv, TypeOK, LightAccounting
<1> QED  BY <1>1, <1>2, <1>3, <1>4, <1>5, <1>6 DEF IInv

LEMMA ClearReleaseStep ==
  ASSUME IInv, NEW u \in Upi, ClearRelease(u)
  PROVE  IInv'
<1> USE PagerAssumption DEF ClearRelease, diskfs_nrele_light
<1>1. TypeOK'
  <2>1. upinp[u] \in Node /\ light[upinp[u]] # 0
    BY RecordHolds
  <2>2. light[upinp[u]] - 1 \in Nat
    BY <2>1 DEF IInv, TypeOK
  <2> QED  BY <2>1, <2>2 DEF IInv, TypeOK, Phase
<1>2. LockInv'
  BY DEF IInv, TypeOK, LockInv, CallInv, Live
<1>3. CallInv'
  BY DEF IInv, TypeOK, LockInv, CallInv, RecordInv, PointerInv, Promised, Live
<1>4. RecordInv' /\ PointerInv'
  BY DEF IInv, TypeOK, LockInv, CallInv, RecordInv, PointerInv, Promised, Live
<1>5. ShutInv'
  BY DEF IInv, TypeOK, CallInv, ShutInv, QuietShutdown, Live
<1>6. LightAccounting'
  <2> SUFFICES ASSUME NEW n \in Node
               PROVE  (light[n] = Cardinality(Records(n)))'
    BY DEF LightAccounting
  <2> DEFINE r == u
  <2>1. r \in Upi
    BY DEF IInv, CallInv
  <2>2. /\ Cardinality(Records(n)) \in Nat /\ Cardinality(Records(n)') \in Nat
        /\ Cardinality(Records(n)') + Counts(r, n) =
             Cardinality(Records(n))
               + IF phase'[r] # "free" /\ upinp'[r] = n THEN 1 ELSE 0
    BY <2>1, RecordsStep DEF IInv, TypeOK, Counts
  <2> QED  BY <2>1, <2>2 DEF IInv, TypeOK, CallInv, RecordInv, LightAccounting, Counts
<1> QED  BY <1>1, <1>2, <1>3, <1>4, <1>5, <1>6 DEF IInv

LEMMA UsersCountStep ==
  ASSUME IInv, UsersCount
  PROVE  IInv'
<1> USE PagerAssumption DEF UsersCount, NoneLeft
<1>1. TypeOK'
  BY DEF IInv, TypeOK, Phase, CallInv, RecordInv, Live
<1>2. LockInv'
  BY DEF IInv, TypeOK, LockInv, CallInv, Live
<1>3. CallInv'
  BY DEF IInv, TypeOK, LockInv, CallInv, RecordInv, PointerInv, Promised, Live
<1>4. RecordInv' /\ PointerInv'
  BY DEF IInv, TypeOK, LockInv, CallInv, RecordInv, PointerInv, Promised, Live
<1>5. ShutInv'
  BY DEF IInv, TypeOK, CallInv, ShutInv, QuietShutdown, Live
<1>6. LightAccounting'
  <2>1. \A m \in Node : Records(m)' = Records(m)
    BY DEF IInv, TypeOK, CallInv, Records
  <2> QED  BY <2>1 DEF IInv, TypeOK, LightAccounting
<1> QED  BY <1>1, <1>2, <1>3, <1>4, <1>5, <1>6 DEF IInv

LEMMA BlockCachingStep ==
  ASSUME IInv, BlockCaching
  PROVE  IInv'
<1> USE PagerAssumption DEF BlockCaching
<1>1. TypeOK'
  BY DEF IInv, TypeOK, Phase, CallInv, RecordInv, Live
<1>2. LockInv'
  BY DEF IInv, TypeOK, LockInv, CallInv, Live
<1>3. CallInv'
  BY DEF IInv, TypeOK, LockInv, CallInv, RecordInv, PointerInv, Promised, Live
<1>4. RecordInv' /\ PointerInv'
  BY DEF IInv, TypeOK, LockInv, CallInv, RecordInv, PointerInv, Promised, Live
<1>5. ShutInv'
  BY DEF IInv, TypeOK, CallInv, ShutInv, QuietShutdown, Live
<1>6. LightAccounting'
  <2>1. \A m \in Node : Records(m)' = Records(m)
    BY DEF IInv, TypeOK, CallInv, Records
  <2> QED  BY <2>1 DEF IInv, TypeOK, LightAccounting
<1> QED  BY <1>1, <1>2, <1>3, <1>4, <1>5, <1>6 DEF IInv

LEMMA UsersRecountStep ==
  ASSUME IInv, UsersRecount
  PROVE  IInv'
<1> USE PagerAssumption DEF UsersRecount, NoneLeft
<1>1. TypeOK'
  BY DEF IInv, TypeOK, Phase, CallInv, RecordInv, Live
<1>2. LockInv'
  BY DEF IInv, TypeOK, LockInv, CallInv, Live
<1>3. CallInv'
  BY DEF IInv, TypeOK, LockInv, CallInv, RecordInv, PointerInv, Promised, Live
<1>4. RecordInv' /\ PointerInv'
  BY DEF IInv, TypeOK, LockInv, CallInv, RecordInv, PointerInv, Promised, Live
<1>5. ShutInv'
  BY DEF IInv, TypeOK, CallInv, ShutInv, QuietShutdown, Live
<1>6. LightAccounting'
  <2>1. \A m \in Node : Records(m)' = Records(m)
    BY DEF IInv, TypeOK, CallInv, Records
  <2> QED  BY <2>1 DEF IInv, TypeOK, LightAccounting
<1> QED  BY <1>1, <1>2, <1>3, <1>4, <1>5, <1>6 DEF IInv

LEMMA EnableCachingStep ==
  ASSUME IInv, EnableCaching
  PROVE  IInv'
<1> USE PagerAssumption DEF EnableCaching, AllCached
<1>1. TypeOK'
  BY DEF IInv, TypeOK, Phase, CallInv, RecordInv, Live
<1>2. LockInv'
  BY DEF IInv, TypeOK, LockInv, CallInv, Live
<1>3. CallInv'
  BY DEF IInv, TypeOK, LockInv, CallInv, RecordInv, PointerInv, Promised, Live
<1>4. RecordInv' /\ PointerInv'
  BY DEF IInv, TypeOK, LockInv, CallInv, RecordInv, PointerInv, Promised, Live
<1>5. ShutInv'
  BY DEF IInv, TypeOK, CallInv, ShutInv, QuietShutdown, Live
<1>6. LightAccounting'
  <2>1. \A m \in Node : Records(m)' = Records(m)
    BY DEF IInv, TypeOK, CallInv, Records
  <2> QED  BY <2>1 DEF IInv, TypeOK, LightAccounting
<1> QED  BY <1>1, <1>2, <1>3, <1>4, <1>5, <1>6 DEF IInv

LEMMA EnableBucketStep ==
  ASSUME IInv, EnableBucket
  PROVE  IInv'
<1> USE PagerAssumption DEF EnableBucket
<1>1. TypeOK'
  BY DEF IInv, TypeOK, Phase, CallInv, RecordInv, Live
<1>2. LockInv'
  BY DEF IInv, TypeOK, LockInv, CallInv, Live
<1>3. CallInv'
  BY DEF IInv, TypeOK, LockInv, CallInv, RecordInv, PointerInv, Promised, Live
<1>4. RecordInv' /\ PointerInv'
  BY DEF IInv, TypeOK, LockInv, CallInv, RecordInv, PointerInv, Promised, Live
<1>5. ShutInv'
  BY DEF IInv, TypeOK, CallInv, ShutInv, QuietShutdown, Live
<1>6. LightAccounting'
  <2>1. \A m \in Node : Records(m)' = Records(m)
    BY DEF IInv, TypeOK, CallInv, Records
  <2> QED  BY <2>1 DEF IInv, TypeOK, LightAccounting
<1> QED  BY <1>1, <1>2, <1>3, <1>4, <1>5, <1>6 DEF IInv

LEMMA NextStep ==
  ASSUME IInv, Next
  PROVE  IInv'
<1>1. CASE \E n \in Node : Open(n) \/ Close(n)
  BY <1>1, OpenStep, CloseStep
<1>2. CASE \E t \in Thread : diskfs_get_filemap(t) \/ \E n \in Node : GetFilemap(t, n)
  BY <1>2, GetFilemapStep, LockNode2PageStep, AllocUpiStep,
     PagerCreateFailsStep, PagerCreatedStep, PagerFoundStep,
     PagerNearlyGoneStep, InsertRightStep DEF diskfs_get_filemap
<1>3. CASE \E u \in Upi : DropRight(u) \/ NoSenders(u) \/ pager_clear_user_data(u)
  BY <1>3, DropRightStep, NoSendersStep, ClearLockStep, ClearUnlockStep,
     ClearReleaseStep DEF pager_clear_user_data
<1>4. CASE diskfs_pager_users
  BY <1>4, UsersCountStep, BlockCachingStep, UsersRecountStep,
     EnableCachingStep, EnableBucketStep DEF diskfs_pager_users
<1> QED  BY <1>1, <1>2, <1>3, <1>4 DEF Next

LEMMA Invariance == Spec => []IInv
<1>1. Init => IInv
  <2> SUFFICES ASSUME Init
               PROVE  IInv
    OBVIOUS
  <2>0. TypeOK
    BY DEF Init, TypeOK, Phase
  <2>1. LockInv /\ CallInv /\ RecordInv /\ PointerInv /\ ShutInv
    BY DEF Init, LockInv, CallInv, RecordInv, PointerInv, ShutInv,
           QuietShutdown, Live
  <2>2. \A n \in Node : Records(n) = {}
    BY DEF Init, Records
  <2>3. LightAccounting
    BY <2>2, FS_EmptySet DEF Init, LightAccounting
  <2> QED  BY <2>0, <2>1, <2>3 DEF IInv
<1>2. IInv /\ UNCHANGED vars => IInv'
  BY DEF vars, IInv, TypeOK, LockInv, CallInv, RecordInv, PointerInv, ShutInv,
         QuietShutdown, Live, LightAccounting, Records
<1> QED  BY <1>1, <1>2, NextStep, PTL DEF Spec

-----------------------------------------------------------------------------
(* Every variable keeps its type; in particular neither count of            *)
(* references of a node goes below zero.                                    *)
THEOREM TypeCorrect == Spec => []TypeOK
<1>1. IInv => TypeOK
  BY DEF IInv
<1> QED  BY <1>1, Invariance, PTL

(* The light references of a node are its user_pager_info records, one each. *)
THEOREM LightRefsAccounted == Spec => []LightAccounting
<1>1. IInv => LightAccounting
  BY DEF IInv
<1> QED  BY <1>1, Invariance, PTL

(* fileinfo never dangles, and the assertion of diskfs_node_norefs holds. *)
THEOREM FileinfoNeverDangles == Spec => []FileinfoValid
<1>1. IInv => FileinfoValid
  <2> SUFFICES ASSUME IInv, NEW n \in Node, fileinfo[n] # NoUpi
               PROVE  /\ Exists(n)
                      /\ upinp[fileinfo[n]] = n
                      /\ phase[fileinfo[n]] \in {"live", "dying"}
    BY DEF FileinfoValid
  <2>1. /\ fileinfo[n] \in Upi
        /\ upinp[fileinfo[n]] = n
        /\ phase[fileinfo[n]] \in {"live", "dying"}
    BY DEF IInv, TypeOK, PointerInv
  <2>2. light[n] # 0
    BY <2>1, RecordHolds
  <2> QED  BY <2>1, <2>2 DEF IInv, TypeOK, Exists
<1> QED  BY <1>1, Invariance, PTL

(* All who map a file share the one pager in its fileinfo. *)
THEOREM OnePagerPerFile == Spec => []MappedPagerFound
<1>1. IInv => MappedPagerFound
  BY DEF IInv, CallInv, RecordInv, MappedPagerFound, Promised,
         diskfs_get_filemap_pager_struct
<1> QED  BY <1>1, Invariance, PTL

(* diskfs_pager_users returns 0 only when there is no file pager, for good,  *)
(* and a shutdown that it refuses leaves caching as it was.                  *)
THEOREM ShutdownSafe == Spec => []SafeOrRefused
<1>1. IInv => SafeOrRefused
  BY DEF IInv, ShutInv, CachingRestored, SafeOrRefused
<1> QED  BY <1>1, Invariance, PTL
=============================================================================
