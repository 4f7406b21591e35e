-------------------------- MODULE BufferPoolProofs --------------------------
(***************************************************************************)
(* As long as no two operations on bCachelist overlap, the buffers are     *)
(* kept right by any number of threads and any size of the pool; and       *)
(* whatever overlaps, only memory of the pool is used.                     *)
(*                                                                         *)
(* The list is followed by the recursive function Nth. What it computes is *)
(* shown by induction, with the library's theorem that < is well-founded   *)
(* on the natural numbers.                                                 *)
(***************************************************************************)
EXTENDS BufferPool, FiniteSetTheorems, TLAPS

(* The least-number principle, from the library's well-foundedness of <. *)
LEMMA LeastNumber ==
  ASSUME NEW T, T \subseteq Nat, T # {}
  PROVE  \E n \in T : \A m \in T : n <= m
<1> DEFINE R == {s \in Nat \X Nat : s[1] < s[2]}
<1>0. R = OpToRel(<, Nat)
  BY DEF OpToRel
<1>1. IsWellFoundedOn(R, Nat)
  BY <1>0, NatLessThanWellFounded
<1>2. \E x \in T : \A y \in T : ~(<<y, x>> \in R)
  BY <1>1, WFMin
<1>3. PICK x \in T : \A y \in T : ~(<<y, x>> \in R)
  BY <1>2
<1>4. ASSUME NEW y \in T PROVE x <= y
  <2>1. x \in Nat /\ y \in Nat /\ ~(<<y, x>> \in R)
    BY <1>3
  <2>2. ~(y < x)
    BY <2>1
  <2> QED BY <2>1, <2>2
<1> QED BY <1>4

(* Induction over the natural numbers, for sets. *)
LEMMA InductionSet ==
  ASSUME NEW S, 0 \in S, \A n \in Nat : n \in S => n + 1 \in S
  PROVE  \A n \in Nat : n \in S
<1> SUFFICES ASSUME Nat \ S # {} PROVE FALSE
  OBVIOUS
<1>1. PICK n \in Nat \ S : \A m \in Nat \ S : n <= m
  BY LeastNumber
<1>2. n # 0 /\ n - 1 \in Nat
  BY <1>1
<1>3. n - 1 \in S
  BY <1>1, <1>2
<1> QED BY <1>1, <1>2, <1>3

(* A function iterated from c on. *)
LEMMA Iterated ==
  ASSUME NEW S, NEW c \in S, NEW g \in [S -> S]
  PROVE  \E f \in [Nat -> S] : f[0] = c /\ \A n \in Nat : f[n + 1] = g[f[n]]
<1> DEFINE Run(h, n) == /\ h \in [0 .. n -> S] /\ h[0] = c
                        /\ \A i \in 0 .. n - 1 : h[i + 1] = g[h[i]]
           Have == {n \in Nat : \E h : Run(h, n)}
<1>1. \A n \in Nat : n \in Have
  <2>1. 0 \in Have
    <3>1. Run([i \in 0 .. 0 |-> c], 0)
      OBVIOUS
    <3> QED BY <3>1
  <2>2. ASSUME NEW n \in Nat, n \in Have PROVE n + 1 \in Have
    <3>1. PICK h : Run(h, n)
      BY <2>2
    <3> DEFINE j == [i \in 0 .. n + 1 |-> IF i = n + 1 THEN g[h[n]] ELSE h[i]]
    <3>2. h[n] \in S /\ g[h[n]] \in S
      BY <3>1
    <3>3. j \in [0 .. n + 1 -> S]
      BY <3>1, <3>2
    <3>4. j[0] = c
      BY <3>1
    <3>5. ASSUME NEW i \in 0 .. (n + 1) - 1 PROVE j[i + 1] = g[j[i]]
      <4>1. CASE i = n
        BY <4>1
      <4>2. CASE i # n
        <5>1. i \in 0 .. n - 1 /\ i + 1 \in 0 .. n
          BY <4>2
        <5>2. h[i + 1] = g[h[i]]
          BY <3>1, <5>1
        <5> QED BY <5>1, <5>2
      <4> QED BY <4>1, <4>2
    <3> HIDE DEF j
    <3>6. Run(j, n + 1)
      BY <3>3, <3>4, <3>5
    <3> QED BY <3>6
  <2> HIDE DEF Have
  <2> QED BY <2>1, <2>2, InductionSet
<1>2. ASSUME NEW h, NEW j, NEW n \in Nat, NEW m \in Nat, Run(h, n), Run(j, m)
      PROVE  \A i \in Nat : i <= n /\ i <= m => h[i] = j[i]
  <2> DEFINE Eq == {i \in Nat : i <= n /\ i <= m => h[i] = j[i]}
  <2>1. 0 \in Eq
    BY <1>2
  <2>2. ASSUME NEW i \in Nat, i \in Eq PROVE i + 1 \in Eq
    <3> SUFFICES ASSUME i + 1 <= n, i + 1 <= m PROVE h[i + 1] = j[i + 1]
      OBVIOUS
    <3>1. h[i] = j[i]
      BY <2>2
    <3>2. i \in 0 .. n - 1 /\ i \in 0 .. m - 1
      OBVIOUS
    <3> QED BY <1>2, <3>1, <3>2
  <2>3. \A i \in Nat : i \in Eq
    <3> HIDE DEF Eq
    <3> QED BY <2>1, <2>2, InductionSet
  <2> QED BY <2>3
<1> DEFINE run(n) == CHOOSE h : Run(h, n)
           f == [n \in Nat |-> run(n)[n]]
<1>3. ASSUME NEW n \in Nat PROVE Run(run(n), n)
  BY <1>1
<1> HIDE DEF run
<1>4. \A n \in Nat : run(n)[n] \in S
  BY <1>3
<1>5. f \in [Nat -> S]
  BY <1>4
<1>6. f[0] = c
  BY <1>3
<1>7. ASSUME NEW n \in Nat PROVE f[n + 1] = g[f[n]]
  <2> DEFINE h == run(n)
             j == run(n + 1)
  <2>1. Run(h, n) /\ Run(j, n + 1) /\ n + 1 \in Nat
    BY <1>3
  <2> HIDE DEF h, j
  <2>2. h[n] = j[n]
    <3> HIDE DEF Run
    <3> QED BY <1>2, <2>1
  <2>3. j[n + 1] = g[j[n]]
    BY <2>1
  <2> QED BY <2>2, <2>3 DEF h, j
<1> HIDE DEF f
<1> QED BY <1>5, <1>6, <1>7

-----------------------------------------------------------------------------
(* The inductive invariant.                                                 *)

(* The buffers thread t has in hand. *)
HoldSet(t) == (IF t \in Holders THEN {bp[t]} ELSE {}) \cup todo[t]

(* Every link and every pointer to a buffer stays in the pool. *)
Memory ==
  /\ \E m \in Nat : pool = 1 .. m
  /\ bCachelist \in pool \cup {Null}
  /\ \A b \in Buf : b_next[b] \in pool \cup {Null}
  /\ \A t \in Thread :
       /\ bp[t] \in pool \cup {Null} /\ next[t] \in pool \cup {Null} /\ todo[t] \subseteq pool
       /\ pc[t] \in {"link", "push", "apush", "take", "fill"} => bp[t] # Null
       /\ pc[t] = "alink" => todo[t] # {}
       /\ todo[t] # {} => pc[t] \in {"alink", "apush"}

(* One thread at most is in the middle of an operation on the list. *)
Alone == \A t, u \in Thread : pc[t] \in Inside /\ pc[u] \in Inside => t = u

(* What a thread knows of the list and of its page by where it is. *)
Stage(t) ==
  /\ pc[t] \in {"push", "apush"} => b_next[bp[t]] = bCachelist
  /\ pc[t] = "malloc" => bCachelist = Null
  /\ pc[t] = "head" => bCachelist # Null
  /\ pc[t] \in {"next", "take"} => bp[t] = bCachelist /\ bp[t] # Null
  /\ pc[t] = "take" => next[t] = b_next[bp[t]]
  /\ pc[t] \in {"test", "malloc", "alink", "apush", "head", "next", "take", "fill"} =>
       t64[t] # NoPage
  /\ pc[t] = "search" /\ bp[t] # Null => t64[t] # NoPage /\ b_data[bp[t]] = t64[t]
  /\ t64[t] # NoPage => t64[t][1] = t

(* No buffer is in two hands. *)
Disjoint ==
  /\ \A t, u \in Thread : t # u => HoldSet(t) \cap HoldSet(u) = {}
  /\ \A t \in Holders : bp[t] \notin todo[t]

(* The list is s, of length n. *)
IsList(n, s) ==
  /\ \A i, j \in 1 .. n : s[i] = s[j] => i = j
  /\ bCachelist = IF n = 0 THEN Null ELSE s[1]
  /\ \A i \in 1 .. n : b_next[s[i]] = IF i = n THEN Null ELSE s[i + 1]

(* The pool is what is on it and what is in hand. *)
Splits(n, s) ==
  /\ \A b \in Buf :
       b \in pool <=> (\E i \in 1 .. n : s[i] = b) \/ \E t \in Thread : b \in HoldSet(t)
  /\ \A i \in 1 .. n, t \in Thread : s[i] \notin HoldSet(t)

Shape == \E n \in Nat : \E s \in [1 .. n -> Buf] : IsList(n, s) /\ Splits(n, s)

Bound == Cardinality(pool) <= Cardinality(Thread) - 1 + NBUFFER

Sound ==
  /\ Alone /\ Disjoint /\ Shape /\ Bound /\ ended # "fault"
  /\ \A t \in Thread : Stage(t)

IInv == TypeOK /\ Memory /\ (~raced => Sound)

(* The threads that hold a buffer, one by one. *)
LEMMA HolderIs ==
  ASSUME NEW t \in Thread
  PROVE  t \in Holders <=> \/ pc[t] \in {"link", "push", "apush", "fill"}
                           \/ pc[t] = "search" /\ bp[t] # Null
BY DEF Holders

LEMMA InHandIs == \A b : b \in InHand <=> \E t \in Thread : b \in HoldSet(t)
<1> SUFFICES ASSUME NEW b PROVE b \in InHand <=> \E t \in Thread : b \in HoldSet(t)
  OBVIOUS
<1>1. Holders \subseteq Thread
  BY DEF Holders
<1>2. ASSUME b \in InHand PROVE \E t \in Thread : b \in HoldSet(t)
  BY <1>1, <1>2 DEF InHand, HoldSet
<1>3. ASSUME NEW t \in Thread, b \in HoldSet(t) PROVE b \in InHand
  BY <1>3 DEF InHand, HoldSet
<1> QED BY <1>2, <1>3

LEMMA InitIInv == Init => IInv
<1> SUFFICES ASSUME Init PROVE IInv
  OBVIOUS
<1>1. TypeOK
  <2>1. raced \in BOOLEAN /\ {} \in SUBSET Buf
    BY DEF Init
  <2> QED BY <2>1 DEF Init, TypeOK
<1>2. Memory
  <2>1. pool = 1 .. 0
    BY DEF Init
  <2> QED BY <2>1 DEF Init, Memory
<1>3. \A t \in Thread : HoldSet(t) = {}
  BY DEF Init, HoldSet, Holders
<1>4. Disjoint
  BY <1>3 DEF Init, Disjoint, Holders
<1>5. Shape
  <2>1. [i \in 1 .. 0 |-> 0] \in [1 .. 0 -> Buf]
    OBVIOUS
  <2>2. IsList(0, [i \in 1 .. 0 |-> 0]) /\ Splits(0, [i \in 1 .. 0 |-> 0])
    BY <1>3 DEF Init, IsList, Splits
  <2> QED BY <2>1, <2>2 DEF Shape
<1>6. Bound
  <2>1. Cardinality(pool) = 0 /\ Cardinality(Thread) \in Nat /\ NBUFFER \in Nat \ {0}
    BY PoolAssumption, FS_EmptySet, FS_CardinalityType DEF Init
  <2> QED BY <2>1 DEF Bound
<1>7. Alone /\ ended # "fault" /\ \A t \in Thread : Stage(t)
  BY DEF Init, Alone, Inside, Stage
<1> QED BY <1>1, <1>2, <1>4, <1>5, <1>6, <1>7 DEF IInv, Sound

-----------------------------------------------------------------------------
(* What a step leaves alone.                                                *)

LEMMA OthersKept ==
  ASSUME TypeOK, NEW t \in Thread, xt_Lookup(t) \/ Step(t), NEW u \in Thread, u # t
  PROVE  /\ pc'[u] = pc[u] /\ bp'[u] = bp[u] /\ next'[u] = next[u]
         /\ t64'[u] = t64[u] /\ todo'[u] = todo[u] /\ HoldSet(u)' = HoldSet(u)
<1>1. /\ pc'[u] = pc[u] /\ bp'[u] = bp[u] /\ next'[u] = next[u]
      /\ t64'[u] = t64[u] /\ todo'[u] = todo[u]
  BY DEF TypeOK, xt_Lookup, Step, Descend, Out, ReleaseLink, ReleasePush, Test, NoMemory, Malloc,
         AllocLink, AllocPush, Head, LoadNext, Fault, Take, Fill, Goto, local
<1> QED BY <1>1 DEF HoldSet, Holders

(* The list changes only on the way into, through or out of an operation. *)
LEMMA ListStable ==
  ASSUME TypeOK, NEW t \in Thread, xt_Lookup(t) \/ Step(t)
  PROVE  UNCHANGED <<bCachelist, b_next>> \/ pc[t] \in Inside \/ pc'[t] \in Inside
BY DEF TypeOK, xt_Lookup, Step, Descend, Out, ReleaseLink, ReleasePush, Test, NoMemory, Malloc,
       AllocLink, AllocPush, Head, LoadNext, Fault, Take, Fill, Goto, list, Inside

LEMMA OneElement ==
  ASSUME NEW S, IsFiniteSet(S), ~(Cardinality(S) > 1), NEW x \in S, NEW y \in S
  PROVE  x = y
<1> SUFFICES ASSUME x # y PROVE FALSE
  OBVIOUS
<1>1. IsFiniteSet({x}) /\ Cardinality({x}) = 1
  BY FS_Singleton
<1>2. Cardinality({x} \cup {y}) = 2
  BY <1>1, FS_AddElement
<1>3. {x} \cup {y} \in SUBSET S
  OBVIOUS
<1>4. Cardinality({x} \cup {y}) <= Cardinality(S)
  BY <1>3, FS_Subset
<1>5. Cardinality(S) \in Nat
  BY FS_CardinalityType
<1> QED BY <1>2, <1>4, <1>5

(* Without an overlap so far there was none before, and there is none now. *)
LEMMA NoOverlap ==
  ASSUME Next, ~raced'
  PROVE  ~raced /\ Alone'
<1> DEFINE S == {t \in Thread : pc'[t] \in Inside}
<1>1. ~raced /\ ~(Cardinality(S) > 1)
  BY DEF Next
<1>2. IsFiniteSet(S)
  BY PoolAssumption, FS_Subset
<1>3. \A x, y \in S : x = y
  <2> HIDE DEF S
  <2> QED BY <1>1, <1>2, OneElement
<1> QED BY <1>1, <1>3 DEF Alone
-----------------------------------------------------------------------------
(* The ways in which the list and the hands change.                         *)

(* The hands and the head stay, and only links of buffers in hand change. *)
LEMMA KeepShape ==
  ASSUME Shape, pool' = pool, bCachelist' = bCachelist,
         \A u \in Thread : HoldSet(u)' = HoldSet(u),
         \A b \in Buf : (\A u \in Thread : b \notin HoldSet(u)) => b_next'[b] = b_next[b]
  PROVE  Shape'
<1>0. PICK n \in Nat : \E s \in [1 .. n -> Buf] : IsList(n, s) /\ Splits(n, s)
  BY DEF Shape
<1>1. PICK s \in [1 .. n -> Buf] : IsList(n, s) /\ Splits(n, s)
  BY <1>0
<1>2. \A i \in 1 .. n : b_next'[s[i]] = b_next[s[i]]
  BY <1>1 DEF Splits
<1>3. IsList(n, s)'
  BY <1>1, <1>2 DEF IsList
<1>4. Splits(n, s)'
  BY <1>1 DEF Splits
<1> QED BY <1>3, <1>4 DEF Shape

(* Buffer x goes from the hands of t to the head of the list. *)
LEMMA PushShape ==
  ASSUME Shape, Disjoint, NEW t \in Thread, NEW x \in Buf, x \in HoldSet(t),
         pool' = pool, bCachelist' = x, b_next' = b_next, b_next[x] = bCachelist,
         HoldSet(t)' = HoldSet(t) \ {x},
         \A u \in Thread : u # t => HoldSet(u)' = HoldSet(u)
  PROVE  Shape'
<1>0. PICK n \in Nat : \E s \in [1 .. n -> Buf] : IsList(n, s) /\ Splits(n, s)
  BY DEF Shape
<1>1. PICK s \in [1 .. n -> Buf] : IsList(n, s) /\ Splits(n, s)
  BY <1>0
<1> DEFINE r == [i \in 1 .. n + 1 |-> IF i = 1 THEN x ELSE s[i - 1]]
<1>2. r \in [1 .. n + 1 -> Buf] /\ n + 1 \in Nat
  OBVIOUS
<1>3. r[1] = x /\ \A i \in 1 .. n : r[i + 1] = s[i]
  OBVIOUS
<1>4. \A i \in 1 .. n + 1 : i = 1 \/ (i - 1 \in 1 .. n /\ r[i] = s[i - 1])
  OBVIOUS
<1> HIDE DEF r
<1>5. \A i \in 1 .. n : s[i] # x
  BY <1>1 DEF Splits
<1>6. IsList(n + 1, r)'
  <2>1. \A i, j \in 1 .. n + 1 : r[i] = r[j] => i = j
    <3> SUFFICES ASSUME NEW i \in 1 .. n + 1, NEW j \in 1 .. n + 1, r[i] = r[j] PROVE i = j
      OBVIOUS
    <3>1. CASE i = 1 \/ j = 1
      BY <1>3, <1>4, <1>5, <3>1
    <3>2. CASE i # 1 /\ j # 1
      <4>1. i - 1 \in 1 .. n /\ j - 1 \in 1 .. n /\ s[i - 1] = s[j - 1]
        BY <1>4, <3>2
      <4>2. i - 1 = j - 1
        BY <1>1, <4>1 DEF IsList
      <4> QED BY <4>2
    <3> QED BY <3>1, <3>2
  <2>2. ASSUME NEW i \in 1 .. n + 1
        PROVE  b_next'[r[i]] = IF i = n + 1 THEN Null ELSE r[i + 1]
    <3>1. CASE i = 1
      <4>1. n # 0 => 1 \in 1 .. n /\ r[2] = s[1]
        BY <1>3
      <4> QED BY <1>1, <1>3, <3>1, <4>1 DEF IsList
    <3>2. CASE i # 1
      <4>1. i - 1 \in 1 .. n /\ r[i] = s[i - 1]
        BY <1>4, <3>2
      <4>2. b_next[s[i - 1]] = IF i - 1 = n THEN Null ELSE s[i - 1 + 1]
        BY <1>1, <4>1 DEF IsList
      <4>3. i # n + 1 => i \in 1 .. n /\ r[i + 1] = s[i]
        BY <1>3
      <4> QED BY <4>1, <4>2, <4>3
    <3> QED BY <3>1, <3>2
  <2> QED BY <1>3, <2>1, <2>2 DEF IsList
<1>7. Splits(n + 1, r)'
  <2>1. ASSUME NEW b \in Buf
        PROVE  (\E i \in 1 .. n + 1 : r[i] = b) <=> (\E i \in 1 .. n : s[i] = b) \/ b = x
    <3>1. ASSUME NEW i \in 1 .. n, s[i] = b PROVE \E j \in 1 .. n + 1 : r[j] = b
      <4>1. i + 1 \in 1 .. n + 1 /\ r[i + 1] = b
        BY <1>3, <3>1
      <4> QED BY <4>1
    <3> QED BY <1>3, <1>4, <3>1
  <2>2. ASSUME NEW b \in Buf
        PROVE  (\E u \in Thread : b \in HoldSet(u)) <=>
                 (\E u \in Thread : b \in HoldSet(u)') \/ b = x
    OBVIOUS
  <2>3. ASSUME NEW u \in Thread PROVE x \notin HoldSet(u)'
    BY DEF Disjoint
  <2>4. ASSUME NEW i \in 1 .. n + 1, NEW u \in Thread PROVE r[i] \notin HoldSet(u)'
    <3>1. CASE i = 1
      BY <1>3, <2>3, <3>1
    <3>2. CASE i # 1
      <4>1. i - 1 \in 1 .. n /\ r[i] = s[i - 1]
        BY <1>4, <3>2
      <4>2. s[i - 1] \notin HoldSet(u)
        BY <1>1, <4>1 DEF Splits
      <4> QED BY <4>1, <4>2
    <3> QED BY <3>1, <3>2
  <2> QED BY <1>1, <2>1, <2>2, <2>4 DEF Splits
<1> QED BY <1>2, <1>6, <1>7 DEF Shape

(* The head of the list goes to the hands of t. *)
LEMMA PopShape ==
  ASSUME Shape, NEW t \in Thread, bCachelist # Null,
         pool' = pool, bCachelist' = b_next[bCachelist], b_next' = b_next,
         HoldSet(t)' = HoldSet(t) \cup {bCachelist},
         \A u \in Thread : u # t => HoldSet(u)' = HoldSet(u)
  PROVE  Shape' /\ \A u \in Thread : bCachelist \notin HoldSet(u)
<1>0. PICK n \in Nat : \E s \in [1 .. n -> Buf] : IsList(n, s) /\ Splits(n, s)
  BY DEF Shape
<1>1. PICK s \in [1 .. n -> Buf] : IsList(n, s) /\ Splits(n, s)
  BY <1>0
<1>2. n # 0 /\ 1 \in 1 .. n /\ bCachelist = s[1]
  BY <1>1 DEF IsList
<1> DEFINE r == [i \in 1 .. n - 1 |-> s[i + 1]]
<1>3. r \in [1 .. n - 1 -> Buf] /\ n - 1 \in Nat
  BY <1>2
<1>4. \A i \in 1 .. n - 1 : i + 1 \in 1 .. n /\ r[i] = s[i + 1]
  BY <1>2
<1>5. \A i \in 1 .. n : i = 1 \/ (i - 1 \in 1 .. n - 1 /\ r[i - 1] = s[i])
  BY <1>2
<1> HIDE DEF r
<1>6. IsList(n - 1, r)'
  <2>1. \A i, j \in 1 .. n - 1 : r[i] = r[j] => i = j
    <3> SUFFICES ASSUME NEW i \in 1 .. n - 1, NEW j \in 1 .. n - 1, r[i] = r[j] PROVE i = j
      OBVIOUS
    <3>1. i + 1 \in 1 .. n /\ j + 1 \in 1 .. n /\ s[i + 1] = s[j + 1]
      BY <1>4
    <3>2. i + 1 = j + 1
      BY <1>1, <3>1 DEF IsList
    <3> QED BY <3>2
  <2>2. b_next[s[1]] = IF 1 = n THEN Null ELSE s[1 + 1]
    BY <1>1, <1>2 DEF IsList
  <2>3. bCachelist' = IF n - 1 = 0 THEN Null ELSE r[1]
    <3>1. n - 1 # 0 => 1 \in 1 .. n - 1
      BY <1>2
    <3> QED BY <1>2, <1>4, <2>2, <3>1
  <2>4. ASSUME NEW i \in 1 .. n - 1
        PROVE  b_next'[r[i]] = IF i = n - 1 THEN Null ELSE r[i + 1]
    <3>1. i + 1 \in 1 .. n /\ r[i] = s[i + 1]
      BY <1>4
    <3>2. b_next[s[i + 1]] = IF i + 1 = n THEN Null ELSE s[i + 1 + 1]
      BY <1>1, <3>1 DEF IsList
    <3>3. i # n - 1 => i + 1 \in 1 .. n - 1
      BY <1>2
    <3> QED BY <1>4, <3>1, <3>2, <3>3
  <2> QED BY <2>1, <2>3, <2>4 DEF IsList
<1>7. Splits(n - 1, r)'
  <2>1. ASSUME NEW b \in Buf
        PROVE  (\E i \in 1 .. n : s[i] = b) <=> (\E i \in 1 .. n - 1 : r[i] = b) \/ b = bCachelist
    <3>1. ASSUME NEW i \in 1 .. n - 1, r[i] = b PROVE \E j \in 1 .. n : s[j] = b
      BY <1>4, <3>1
    <3>2. ASSUME NEW i \in 1 .. n, s[i] = b
          PROVE  (\E j \in 1 .. n - 1 : r[j] = b) \/ b = bCachelist
      BY <1>2, <1>5, <3>2
    <3> QED BY <1>2, <3>1, <3>2
  <2>2. ASSUME NEW b \in Buf
        PROVE  (\E u \in Thread : b \in HoldSet(u)') <=>
                 (\E u \in Thread : b \in HoldSet(u)) \/ b = bCachelist
    OBVIOUS
  <2>3. ASSUME NEW i \in 1 .. n - 1, NEW u \in Thread PROVE r[i] \notin HoldSet(u)'
    <3>1. i + 1 \in 1 .. n /\ r[i] = s[i + 1] /\ i + 1 # 1
      BY <1>4
    <3>2. s[i + 1] # s[1]
      BY <1>1, <1>2, <3>1 DEF IsList
    <3>3. s[i + 1] \notin HoldSet(u)
      BY <1>1, <3>1 DEF Splits
    <3> QED BY <1>2, <3>1, <3>2, <3>3
  <2> QED BY <1>1, <2>1, <2>2, <2>3 DEF Splits
<1>8. \A u \in Thread : bCachelist \notin HoldSet(u)
  BY <1>1, <1>2 DEF Splits
<1> QED BY <1>3, <1>6, <1>7, <1>8 DEF Shape

(* New buffers come into the hands of t. *)
LEMMA GrowShape ==
  ASSUME Shape, NEW t \in Thread, NEW new \in SUBSET Buf, new \cap pool = {},
         pool' = pool \cup new, bCachelist' = bCachelist, b_next' = b_next,
         HoldSet(t)' = HoldSet(t) \cup new,
         \A u \in Thread : u # t => HoldSet(u)' = HoldSet(u)
  PROVE  Shape'
<1>0. PICK n \in Nat : \E s \in [1 .. n -> Buf] : IsList(n, s) /\ Splits(n, s)
  BY DEF Shape
<1>1. PICK s \in [1 .. n -> Buf] : IsList(n, s) /\ Splits(n, s)
  BY <1>0
<1>2. IsList(n, s)'
  BY <1>1 DEF IsList
<1>3. \A i \in 1 .. n : s[i] \notin new
  BY <1>1 DEF Splits
<1>4. Splits(n, s)'
  <2>1. ASSUME NEW b \in Buf
        PROVE  (\E u \in Thread : b \in HoldSet(u)') <=>
                 (\E u \in Thread : b \in HoldSet(u)) \/ b \in new
    OBVIOUS
  <2>2. ASSUME NEW i \in 1 .. n, NEW u \in Thread PROVE s[i] \notin HoldSet(u)'
    BY <1>1, <1>3 DEF Splits
  <2> QED BY <1>1, <2>1, <2>2 DEF Splits
<1> QED BY <1>2, <1>4 DEF Shape
-----------------------------------------------------------------------------
(* Types and memory, whatever overlaps.                                     *)

LEMMA MinIn ==
  ASSUME NEW S \in SUBSET Buf, S # {}
  PROVE  Min(S) \in S
<1>1. S \subseteq Nat
  BY DEF Buf
<1>2. \E x \in S : \A y \in S : x =< y
  BY <1>1, LeastNumber
<1> QED BY <1>2 DEF Min

LEMMA StepType ==
  ASSUME TypeOK, Memory, NEW t \in Thread, xt_Lookup(t) \/ Step(t),
         NBUFFER' = NBUFFER, raced' \in BOOLEAN
  PROVE  TypeOK'
<1>1. CASE xt_Lookup(t)
  BY <1>1 DEF xt_Lookup, Goto, list, TypeOK
<1>2. CASE Descend(t)
  <2>1. AfterParent(t) \in {"test", "link"}
    BY DEF AfterParent
  <2> QED BY <1>2, <2>1 DEF Descend, Goto, list, TypeOK
<1>3. CASE Out(t)
  <2>1. AfterLeaf(t) \in {"idle", "link"}
    BY DEF AfterLeaf
  <2> QED BY <1>3, <2>1 DEF Out, Goto, list, TypeOK
<1>4. CASE ReleaseLink(t)
  BY <1>4 DEF ReleaseLink, Goto, local, TypeOK, Inside
<1>5. CASE ReleasePush(t)
  BY <1>5 DEF ReleasePush, Goto, TypeOK
<1>6. CASE Test(t)
  BY <1>6 DEF Test, Goto, list, local, TypeOK, Inside
<1>7. CASE NoMemory(t)
  BY <1>7 DEF NoMemory, list, local, TypeOK
<1>8. CASE Malloc(t)
  <2> DEFINE new == Cardinality(pool) + 1 .. Cardinality(pool) + NBUFFER
  <2>1. new \in SUBSET Buf /\ pool' = pool \cup new /\ todo' = [todo EXCEPT ![t] = new]
    BY <1>8 DEF Malloc, Looped
  <2> HIDE DEF new
  <2> QED BY <1>8, <2>1 DEF Malloc, Goto, TypeOK, Inside
<1>9. CASE AllocLink(t)
  <2> DEFINE b == Min(todo[t])
  <2>1. b \in todo[t] /\ b \in Buf
    BY <1>9, MinIn DEF AllocLink, Memory, TypeOK
  <2>2. /\ b_next' = [b_next EXCEPT ![b] = bCachelist]
        /\ bp' = [bp EXCEPT ![t] = b] /\ todo' = [todo EXCEPT ![t] = @ \ {b}]
    BY <1>9 DEF AllocLink
  <2> HIDE DEF b
  <2> QED BY <1>9, <2>1, <2>2 DEF AllocLink, Goto, TypeOK, Inside
<1>10. CASE AllocPush(t)
  BY <1>10 DEF AllocPush, Goto, local, TypeOK, Inside
<1>11. CASE Head(t)
  BY <1>11 DEF Head, Goto, list, TypeOK, Inside
<1>12. CASE LoadNext(t)
  BY <1>12 DEF LoadNext, Goto, list, TypeOK, Inside
<1>13. CASE Fault(t)
  BY <1>13 DEF Fault, list, local, TypeOK
<1>14. CASE Take(t)
  BY <1>14 DEF Take, Taken, Goto, TypeOK
<1>15. CASE Fill(t)
  BY <1>15 DEF Fill, Copied, Goto, list, local, TypeOK
<1> QED BY <1>1, <1>2, <1>3, <1>4, <1>5, <1>6, <1>7, <1>8, <1>9, <1>10, <1>11, <1>12, <1>13,
           <1>14, <1>15 DEF Step

(* malloc returns memory that is not in the pool yet. *)
LEMMA NewBuffers ==
  ASSUME TypeOK, Memory, NEW t \in Thread, Malloc(t)
  PROVE  \E new \in SUBSET Buf, m \in Nat :
           /\ pool = 1 .. m /\ Cardinality(pool) = m /\ NBUFFER \in Nat \ {0}
           /\ new # {} /\ new \cap pool = {} /\ pool' = pool \cup new
           /\ pool' = 1 .. m + NBUFFER /\ Cardinality(pool') = m + NBUFFER
           /\ todo' = [todo EXCEPT ![t] = new]
<1>1. PICK m \in Nat : pool = 1 .. m
  BY DEF Memory
<1>2. Cardinality(pool) = m
  BY <1>1, FS_Interval
<1>3. NBUFFER \in Nat \ {0}
  BY PoolAssumption DEF TypeOK
<1> DEFINE new == m + 1 .. m + NBUFFER
<1>4. new \in SUBSET Buf /\ pool' = pool \cup new /\ todo' = [todo EXCEPT ![t] = new]
  BY <1>2 DEF Malloc, Looped
<1>5. pool' = 1 .. m + NBUFFER
  BY <1>1, <1>3, <1>4
<1>6. Cardinality(pool') = m + NBUFFER
  <2> DEFINE k == m + NBUFFER
  <2>1. k \in Int /\ ~(1 > k) /\ 1 \in Int
    BY <1>3
  <2> HIDE DEF k
  <2>2. Cardinality(1 .. k) = IF 1 > k THEN 0 ELSE k - 1 + 1
    BY <2>1, FS_Interval
  <2>3. Cardinality(1 .. k) = k
    BY <2>1, <2>2
  <2> QED BY <1>5, <2>3 DEF k
<1>7. new # {} /\ new \cap pool = {}
  <2>1. m + 1 \in new
    BY <1>3
  <2> QED BY <1>1, <2>1
<1> HIDE DEF new
<1> QED BY <1>1, <1>2, <1>3, <1>4, <1>5, <1>6, <1>7

LEMMA StepMemory ==
  ASSUME TypeOK, Memory, NEW t \in Thread, xt_Lookup(t) \/ Step(t)
  PROVE  Memory'
<1> DEFINE Fine(u) ==
      /\ bp[u] \in pool \cup {Null} /\ next[u] \in pool \cup {Null} /\ todo[u] \subseteq pool
      /\ pc[u] \in {"link", "push", "apush", "take", "fill"} => bp[u] # Null
      /\ pc[u] = "alink" => todo[u] # {}
      /\ todo[u] # {} => pc[u] \in {"alink", "apush"}
    Links ==
      /\ \E m \in Nat : pool = 1 .. m
      /\ bCachelist \in pool \cup {Null}
      /\ \A b \in Buf : b_next[b] \in pool \cup {Null}
<1>0. Links /\ Fine(t) /\ \A u \in Thread : Fine(u)
  BY DEF Memory
<1>a. Null \notin Buf /\ pool \subseteq Buf
  BY PoolAssumption DEF TypeOK, Buf
<1>b. ASSUME NEW u \in Thread, u # t, pool \subseteq pool' PROVE Fine(u)'
  BY <1>0, <1>b, OthersKept
<1>c. ASSUME Links', pool \subseteq pool', Fine(t)' PROVE Memory'
  <2>1. \A u \in Thread : Fine(u)'
    BY <1>b, <1>c
  <2> QED BY <1>c, <2>1 DEF Memory
<1> SUFFICES Links' /\ pool \subseteq pool' /\ Fine(t)'
  BY <1>c
<1>1. CASE xt_Lookup(t)
  BY <1>0, <1>1 DEF xt_Lookup, Goto, list, TypeOK
<1>2. CASE Descend(t)
  BY <1>0, <1>2 DEF Descend, AfterParent, Goto, list, TypeOK
<1>3. CASE Out(t)
  BY <1>0, <1>3 DEF Out, AfterLeaf, Goto, list, TypeOK
<1>4. CASE ReleaseLink(t)
  BY <1>0, <1>a, <1>4 DEF ReleaseLink, Goto, local, TypeOK
<1>5. CASE ReleasePush(t)
  BY <1>0, <1>5 DEF ReleasePush, Goto, TypeOK
<1>6. CASE Test(t)
  BY <1>0, <1>6 DEF Test, Goto, list, local, TypeOK
<1>7. CASE NoMemory(t)
  BY <1>0, <1>7 DEF NoMemory, list, local, TypeOK
<1>8. CASE Malloc(t)
  <2>1. PICK new \in SUBSET Buf, m \in Nat :
           /\ new # {} /\ pool' = pool \cup new /\ pool' = 1 .. m + NBUFFER
           /\ todo' = [todo EXCEPT ![t] = new] /\ NBUFFER \in Nat \ {0} /\ new \cap pool = {}
    BY <1>8, NewBuffers
  <2>2. pc'[t] = "alink" /\ UNCHANGED <<bCachelist, b_next, bp, next>>
    BY <1>8 DEF Malloc, Goto, TypeOK
  <2>3. todo'[t] = new
    BY <2>1 DEF TypeOK
  <2>4. m + NBUFFER \in Nat
    BY <2>1
  <2>5. Fine(t)'
    BY <1>0, <2>1, <2>2, <2>3
  <2>6. bCachelist' \in pool' \cup {Null}
    BY <1>0, <2>1, <2>2
  <2>7. \A b \in Buf : b_next'[b] \in pool' \cup {Null}
    BY <1>0, <2>1, <2>2
  <2> QED BY <2>1, <2>4, <2>5, <2>6, <2>7
<1>9. CASE AllocLink(t)
  <2> DEFINE b == Min(todo[t])
  <2>1. b \in todo[t] /\ b \in pool /\ b \in Buf
    BY <1>0, <1>9, MinIn DEF AllocLink, TypeOK
  <2>2. /\ b_next' = [b_next EXCEPT ![b] = bCachelist]
        /\ bp' = [bp EXCEPT ![t] = b] /\ todo' = [todo EXCEPT ![t] = @ \ {b}]
    BY <1>9 DEF AllocLink
  <2>3. pc'[t] = "apush" /\ UNCHANGED <<bCachelist, pool, next>>
    BY <1>9 DEF AllocLink, Goto, TypeOK
  <2> HIDE DEF b
  <2>4. bp'[t] = b /\ todo'[t] = todo[t] \ {b} /\ b # Null
    BY <1>a, <2>1, <2>2 DEF TypeOK
  <2>5. Fine(t)'
    BY <1>0, <2>1, <2>3, <2>4
  <2>6. Links'
    BY <1>0, <2>1, <2>2, <2>3 DEF TypeOK
  <2> QED BY <2>3, <2>5, <2>6
<1>10. CASE AllocPush(t)
  BY <1>0, <1>10 DEF AllocPush, Goto, local, TypeOK
<1>11. CASE Head(t)
  BY <1>0, <1>11 DEF Head, Goto, list, TypeOK
<1>12. CASE LoadNext(t)
  BY <1>0, <1>12 DEF LoadNext, Goto, list, TypeOK
<1>13. CASE Fault(t)
  BY <1>0, <1>13 DEF Fault, list, local, TypeOK
<1>14. CASE Take(t)
  BY <1>0, <1>14 DEF Take, Taken, Goto, TypeOK
<1>15. CASE Fill(t)
  BY <1>0, <1>15 DEF Fill, Goto, list, local, TypeOK
<1> QED BY <1>1, <1>2, <1>3, <1>4, <1>5, <1>6, <1>7, <1>8, <1>9, <1>10, <1>11, <1>12, <1>13,
           <1>14, <1>15 DEF Step
-----------------------------------------------------------------------------
(* Without an overlap.                                                      *)

(* A page is written only in a buffer of the thread's own. *)
LEMMA DataStable ==
  ASSUME TypeOK, NEW t \in Thread, xt_Lookup(t) \/ Step(t), NEW b \in Buf, b \notin HoldSet(t)
  PROVE  b_data'[b] = b_data[b]
<1>1. CASE Fill(t)
  <2>1. bp[t] \in HoldSet(t)
    BY <1>1, HolderIs DEF Fill, HoldSet
  <2> QED BY <1>1, <2>1 DEF Fill, TypeOK
<1>2. CASE ~Fill(t)
  BY <1>2 DEF xt_Lookup, Step, Descend, Out, ReleaseLink, ReleasePush, Test, NoMemory, Malloc,
              AllocLink, AllocPush, Head, LoadNext, Fault, Take
<1> QED BY <1>1, <1>2

(* What the other threads know stays true. *)
LEMMA StageOthers ==
  ASSUME TypeOK, Sound, Alone', NEW t \in Thread, xt_Lookup(t) \/ Step(t),
         NEW u \in Thread, u # t
  PROVE  Stage(u)'
<1>1. /\ pc'[u] = pc[u] /\ bp'[u] = bp[u] /\ next'[u] = next[u] /\ t64'[u] = t64[u]
  BY OthersKept
<1>2. Stage(u) /\ Alone /\ Disjoint
  BY DEF Sound
<1>3. pc[u] = "search" /\ bp[u] # Null => b_data'[bp[u]] = b_data[bp[u]]
  <2> SUFFICES ASSUME pc[u] = "search", bp[u] # Null PROVE b_data'[bp[u]] = b_data[bp[u]]
    OBVIOUS
  <2>1. bp[u] \in HoldSet(u) /\ bp[u] \in Buf
    BY HolderIs DEF HoldSet, TypeOK
  <2>2. bp[u] \notin HoldSet(t)
    BY <1>2, <2>1 DEF Disjoint
  <2> QED BY <2>1, <2>2, DataStable
<1>4. UNCHANGED <<bCachelist, b_next>> \/ pc[u] \notin Inside
  <2>1. CASE UNCHANGED <<bCachelist, b_next>>
    BY <2>1
  <2>2. CASE pc[t] \in Inside
    BY <1>2, <2>2 DEF Alone
  <2>3. CASE pc'[t] \in Inside
    BY <1>1, <2>3 DEF Alone
  <2> QED BY <2>1, <2>2, <2>3, ListStable
<1>5. CASE UNCHANGED <<bCachelist, b_next>>
  BY <1>1, <1>2, <1>3, <1>5 DEF Stage
<1>6. CASE pc[u] \notin Inside
  BY <1>1, <1>2, <1>3, <1>6 DEF Stage, Inside
<1> QED BY <1>4, <1>5, <1>6

(* A step that leaves the hands alone. *)
LEMMA KeepSound ==
  ASSUME TypeOK, Sound, Alone', NEW t \in Thread, xt_Lookup(t) \/ Step(t), NBUFFER' = NBUFFER,
         HoldSet(t)' = HoldSet(t), pool' = pool, bCachelist' = bCachelist, ended' # "fault",
         \A b \in Buf : b \notin HoldSet(t) => b_next'[b] = b_next[b],
         (t \in Holders)' => bp'[t] \notin todo'[t],
         Stage(t)'
  PROVE  Sound'
<1>1. \A u \in Thread : HoldSet(u)' = HoldSet(u)
  BY OthersKept
<1>2. Disjoint'
  <2>1. ASSUME NEW u \in Thread, (u \in Holders)' PROVE bp'[u] \notin todo'[u]
    <3>1. CASE u = t
      BY <2>1, <3>1
    <3>2. CASE u # t
      <4>1. pc'[u] = pc[u] /\ bp'[u] = bp[u] /\ todo'[u] = todo[u]
        BY <3>2, OthersKept
      <4>2. u \in Holders
        BY <2>1, <4>1 DEF Holders
      <4> QED BY <4>1, <4>2 DEF Sound, Disjoint
    <3> QED BY <3>1, <3>2
  <2>2. Holders' \subseteq Thread
    BY DEF Holders
  <2> QED BY <1>1, <2>1, <2>2 DEF Sound, Disjoint
<1>3. Shape'
  BY <1>1, KeepShape DEF Sound
<1>4. Bound'
  BY DEF Sound, Bound
<1>5. \A u \in Thread : Stage(u)'
  BY StageOthers
<1> QED BY <1>2, <1>3, <1>4, <1>5 DEF Sound

(* A buffer that its thread has linked is pushed. *)
LEMMA PushSound ==
  ASSUME TypeOK, Memory, Sound, Alone', NEW t \in Thread, xt_Lookup(t) \/ Step(t),
         NBUFFER' = NBUFFER,
         pc[t] \in {"push", "apush"}, pc'[t] \in {"idle", "test", "head", "alink"},
         todo'[t] = todo[t],
         pool' = pool, bCachelist' = bp[t], b_next' = b_next, ended' = ended,
         Stage(t)'
  PROVE  Sound'
<1> DEFINE x == bp[t]
<1>1. t \in Holders /\ (t \notin Holders)'
  BY DEF Holders
<1>2. x \in Buf /\ x \in HoldSet(t) /\ x \notin todo[t] /\ b_next[x] = bCachelist
  BY <1>1 DEF HoldSet, Sound, Disjoint, Stage, Memory, TypeOK
<1>3. HoldSet(t)' = HoldSet(t) \ {x}
  BY <1>1, <1>2 DEF HoldSet
<1>4. \A u \in Thread : u # t => HoldSet(u)' = HoldSet(u)
  BY OthersKept
<1>5. Shape'
  BY <1>2, <1>3, <1>4, PushShape DEF Sound
<1>6. Disjoint'
  <2>1. ASSUME NEW u \in Thread, (u \in Holders)' PROVE bp'[u] \notin todo'[u]
    <3>1. u # t
      BY <1>1, <2>1
    <3>2. pc'[u] = pc[u] /\ bp'[u] = bp[u] /\ todo'[u] = todo[u]
      BY <3>1, OthersKept
    <3>3. u \in Holders
      BY <2>1, <3>2 DEF Holders
    <3> QED BY <3>2, <3>3 DEF Sound, Disjoint
  <2>2. ASSUME NEW u \in Thread, NEW v \in Thread, u # v
        PROVE  HoldSet(u)' \cap HoldSet(v)' = {}
    <3>1. HoldSet(u)' \subseteq HoldSet(u) /\ HoldSet(v)' \subseteq HoldSet(v)
      BY <1>3, <1>4
    <3> QED BY <2>2, <3>1 DEF Sound, Disjoint
  <2>3. Holders' \subseteq Thread
    BY DEF Holders
  <2> QED BY <2>1, <2>2, <2>3 DEF Disjoint
<1>7. Bound'
  BY DEF Sound, Bound
<1>8. \A u \in Thread : Stage(u)'
  BY StageOthers
<1> QED BY <1>5, <1>6, <1>7, <1>8 DEF Sound

(* The pool grows only while all other threads hold a buffer. *)
LEMMA AllInHand ==
  ASSUME TypeOK, Memory, Sound, NEW t \in Thread, pc[t] = "malloc"
  PROVE  Cardinality(pool) <= Cardinality(Thread) - 1
<1> DEFINE H == {u \in Thread \ {t} : bp[u] \in pool}
           f == [u \in H |-> bp[u]]
<1>1. \A b \in pool : \E u \in H : bp[u] = b
  <2> SUFFICES ASSUME NEW b \in pool PROVE \E u \in H : bp[u] = b
    OBVIOUS
  <2>0. b \in Buf /\ Null \notin Buf
    BY PoolAssumption DEF TypeOK, Buf
  <2>1. \E u \in Thread : b \in HoldSet(u)
    <3>0. PICK n \in Nat : \E s \in [1 .. n -> Buf] : IsList(n, s) /\ Splits(n, s)
      BY DEF Sound, Shape
    <3>1. PICK s \in [1 .. n -> Buf] : IsList(n, s) /\ Splits(n, s)
      BY <3>0
    <3>2. bCachelist = Null
      BY DEF Sound, Stage
    <3>3. n = 0
      <4>1. n # 0 => 1 \in 1 .. n /\ s[1] \in Buf
        BY <3>1
      <4> QED BY <2>0, <3>1, <3>2, <4>1 DEF IsList
    <3> QED BY <2>0, <3>1, <3>3 DEF Splits
  <2>2. PICK u \in Thread : b \in HoldSet(u)
    BY <2>1
  <2>3. todo[u] = {}
    <3>1. pc[u] \in {"alink", "apush"} => u = t
      BY DEF Sound, Alone, Inside
    <3> QED BY <3>1 DEF Memory
  <2>4. u \in Holders /\ b = bp[u]
    BY <2>2, <2>3 DEF HoldSet
  <2>5. u # t
    BY <2>4 DEF Holders
  <2> QED BY <2>4, <2>5
<1>2. H \in SUBSET (Thread \ {t}) /\ f \in [H -> pool]
  OBVIOUS
<1>3. \A b \in pool : \E u \in H : f[u] = b
  BY <1>1
<1>4. f \in Surjection(H, pool)
  <2> HIDE DEF f, H
  <2> QED BY <1>2, <1>3 DEF Surjection
<1>5. IsFiniteSet(Thread \ {t}) /\ Cardinality(Thread \ {t}) = Cardinality(Thread) - 1
  BY PoolAssumption, FS_RemoveElement
<1>6. IsFiniteSet(H) /\ Cardinality(H) <= Cardinality(Thread \ {t})
  BY <1>2, <1>5, FS_Subset
<1>7. IsFiniteSet(pool) /\ Cardinality(pool) <= Cardinality(H)
  BY <1>4, <1>6, FS_Surjection
<1>8. Cardinality(H) \in Nat /\ Cardinality(pool) \in Nat /\ Cardinality(Thread) \in Nat
  BY <1>6, <1>7, PoolAssumption, FS_CardinalityType
<1> HIDE DEF H
<1> QED BY <1>5, <1>6, <1>7, <1>8
(* The hands of t get more, and nothing that was in other hands. *)
LEMMA MoreInHand ==
  ASSUME TypeOK, Disjoint, NEW t \in Thread, xt_Lookup(t) \/ Step(t), NEW more,
         HoldSet(t)' = HoldSet(t) \cup more,
         \A u \in Thread : u # t => HoldSet(u) \cap more = {},
         (t \in Holders)' => bp'[t] \notin todo'[t]
  PROVE  Disjoint'
<1>1. \A u \in Thread : u # t => HoldSet(u)' = HoldSet(u)
  BY OthersKept
<1>2. ASSUME NEW u \in Thread, (u \in Holders)' PROVE bp'[u] \notin todo'[u]
  <2>1. CASE u = t
    BY <1>2, <2>1
  <2>2. CASE u # t
    <3>1. pc'[u] = pc[u] /\ bp'[u] = bp[u] /\ todo'[u] = todo[u]
      BY <2>2, OthersKept
    <3>2. u \in Holders
      BY <1>2, <3>1 DEF Holders
    <3> QED BY <3>1, <3>2 DEF Disjoint
  <2> QED BY <2>1, <2>2
<1>3. ASSUME NEW u \in Thread, NEW v \in Thread, u # v
      PROVE  HoldSet(u)' \cap HoldSet(v)' = {}
  <2>1. HoldSet(u) \cap HoldSet(v) = {}
    BY <1>3 DEF Disjoint
  <2>2. CASE u # t /\ v # t
    BY <1>1, <2>1, <2>2
  <2>3. CASE u = t
    BY <1>1, <1>3, <2>1, <2>3
  <2>4. CASE v = t
    BY <1>1, <1>3, <2>1, <2>4
  <2> QED BY <2>2, <2>3, <2>4
<1>4. Holders' \subseteq Thread
  BY DEF Holders
<1> QED BY <1>2, <1>3, <1>4 DEF Disjoint

LEMMA MallocSound ==
  ASSUME TypeOK, Memory, Sound, Alone', NEW t \in Thread, Malloc(t), NBUFFER' = NBUFFER
  PROVE  Sound'
<1>0. xt_Lookup(t) \/ Step(t)
  BY DEF Step
<1>1. PICK new \in SUBSET Buf, m \in Nat :
           /\ pool = 1 .. m /\ Cardinality(pool) = m /\ NBUFFER \in Nat \ {0}
           /\ new # {} /\ new \cap pool = {} /\ pool' = pool \cup new
           /\ pool' = 1 .. m + NBUFFER /\ Cardinality(pool') = m + NBUFFER
           /\ todo' = [todo EXCEPT ![t] = new]
  BY NewBuffers
<1>2. /\ pc[t] = "malloc" /\ pc'[t] = "alink" /\ todo'[t] = new
      /\ UNCHANGED <<bCachelist, b_next, b_data, bp, next, t64, ended>>
  BY <1>1 DEF Malloc, Goto, TypeOK
<1>3. todo[t] = {}
  BY <1>2 DEF Memory
<1>4. HoldSet(t)' = HoldSet(t) \cup new /\ (t \notin Holders)'
  BY <1>2, <1>3 DEF HoldSet, Holders
<1>5. \A u \in Thread : u # t => HoldSet(u)' = HoldSet(u)
  BY <1>0, OthersKept
<1>6. Shape'
  BY <1>1, <1>2, <1>4, <1>5, GrowShape DEF Sound
<1>7. \A u \in Thread : HoldSet(u) \subseteq pool
  <2>1. Null \notin Buf
    BY PoolAssumption DEF Buf
  <2>2. ASSUME NEW u \in Thread, u \in Holders PROVE bp[u] \in pool
    BY <2>1, <2>2 DEF Holders, Memory
  <2> QED BY <2>2 DEF HoldSet, Memory
<1>8. Disjoint'
  <2>1. \A u \in Thread : u # t => HoldSet(u) \cap new = {}
    BY <1>1, <1>7
  <2> QED BY <1>0, <1>4, <2>1, MoreInHand DEF Sound
<1>9. Bound'
  <2>1. m <= Cardinality(Thread) - 1
    BY <1>1, <1>2, AllInHand
  <2>2. Cardinality(Thread) \in Nat
    BY PoolAssumption, FS_CardinalityType
  <2> QED BY <1>1, <2>1, <2>2 DEF Bound
<1>10. Stage(t)'
  BY <1>2 DEF Sound, Stage
<1>11. \A u \in Thread : Stage(u)'
  BY <1>0, <1>10, StageOthers
<1> QED BY <1>2, <1>6, <1>8, <1>9, <1>11 DEF Sound

LEMMA TakeSound ==
  ASSUME TypeOK, Memory, Sound, Alone', NEW t \in Thread, Take(t), NBUFFER' = NBUFFER
  PROVE  Sound'
<1>0. xt_Lookup(t) \/ Step(t)
  BY DEF Step
<1>1. Stage(t) /\ pc[t] = "take"
  BY DEF Sound, Take
<1>2. /\ bp[t] = bCachelist /\ bCachelist # Null /\ next[t] = b_next[bCachelist]
      /\ t64[t] # NoPage
  BY <1>1 DEF Stage
<1>3. /\ pc'[t] = "fill" /\ bCachelist' = b_next[bCachelist] /\ bp'[t] = bp[t]
      /\ UNCHANGED <<b_next, pool, b_data, bp, t64, todo, ended>>
  BY <1>2 DEF Take, Taken, Goto, TypeOK
<1>4. todo[t] = {}
  BY <1>1 DEF Memory
<1>5. HoldSet(t)' = HoldSet(t) \cup {bCachelist}
  BY <1>1, <1>2, <1>3, <1>4 DEF HoldSet, Holders
<1>6. \A u \in Thread : u # t => HoldSet(u)' = HoldSet(u)
  BY <1>0, OthersKept
<1>7. Shape' /\ \A u \in Thread : bCachelist \notin HoldSet(u)
  BY <1>2, <1>3, <1>5, <1>6, PopShape DEF Sound
<1>8. Disjoint'
  <2>1. \A u \in Thread : u # t => HoldSet(u) \cap {bCachelist} = {}
    BY <1>7
  <2>2. bp'[t] \notin todo'[t]
    BY <1>3, <1>4
  <2> QED BY <1>0, <1>5, <2>1, <2>2, MoreInHand DEF Sound
<1>9. Bound'
  BY <1>3 DEF Sound, Bound
<1>10. Stage(t)'
  BY <1>1, <1>2, <1>3 DEF Stage
<1>11. \A u \in Thread : Stage(u)'
  BY <1>0, <1>10, StageOthers
<1> QED BY <1>3, <1>7, <1>8, <1>9, <1>11 DEF Sound

LEMMA StepSound ==
  ASSUME TypeOK, Memory, Sound, Alone', NEW t \in Thread, xt_Lookup(t) \/ Step(t),
         NBUFFER' = NBUFFER
  PROVE  Sound'
<1>0. Stage(t) /\ ended # "fault" /\ bp[t] \in Buf \cup {Null} /\ Null \notin Buf
  BY PoolAssumption DEF Sound, TypeOK, Buf
<1>a. pc[t] \notin {"alink", "apush"} => todo[t] = {}
  BY DEF Memory
<1>1. CASE xt_Lookup(t)
  <2>1. /\ pc[t] = "idle" /\ pc'[t] = "search" /\ bp'[t] = Null
        /\ UNCHANGED <<bCachelist, b_next, pool, b_data, next, t64, todo, ended>>
    BY <1>1 DEF xt_Lookup, Goto, list, TypeOK
  <2>2. HoldSet(t)' = HoldSet(t) /\ (t \notin Holders)'
    BY <2>1 DEF HoldSet, Holders
  <2>3. Stage(t)'
    BY <1>0, <2>1 DEF Stage
  <2> QED BY <1>0, <2>1, <2>2, <2>3, KeepSound
<1>2. CASE Descend(t)
  <2>1. /\ pc[t] = "search" /\ pc'[t] = (IF bp[t] = Null THEN "test" ELSE "link")
        /\ UNCHANGED <<bCachelist, b_next, pool, b_data, bp, next, todo, ended>>
    BY <1>2 DEF Descend, AfterParent, Goto, list, TypeOK
  <2>2. HoldSet(t)' = HoldSet(t)
    BY <2>1 DEF HoldSet, Holders
  <2>3. PICK pg \in Page : /\ pg = IF bp[t] = Null THEN <<t, 1>> ELSE Child(b_data[bp[t]])
                           /\ t64' = [t64 EXCEPT ![t] = pg]
    BY <1>2 DEF Descend
  <2>4. pg # NoPage
    BY <2>3, PoolAssumption DEF Page
  <2>5. t64'[t] = pg
    BY <2>3 DEF TypeOK
  <2>6. pg[1] = t
    <3>1. CASE bp[t] = Null
      BY <2>3, <3>1
    <3>2. CASE bp[t] # Null
      BY <1>0, <2>1, <2>3, <3>2 DEF Stage, Child
    <3> QED BY <3>1, <3>2
  <2>7. Stage(t)'
    BY <2>1, <2>4, <2>5, <2>6 DEF Stage
  <2>8. bp'[t] \notin todo'[t]
    BY <1>a, <2>1
  <2> QED BY <1>0, <2>1, <2>2, <2>7, <2>8, KeepSound
<1>3. CASE Out(t)
  <2>1. /\ pc[t] = "search" /\ pc'[t] = (IF bp[t] = Null THEN "idle" ELSE "link")
        /\ t64'[t] = NoPage
        /\ UNCHANGED <<bCachelist, b_next, pool, b_data, bp, next, todo, ended>>
    BY <1>3 DEF Out, AfterLeaf, Goto, list, TypeOK
  <2>2. HoldSet(t)' = HoldSet(t)
    BY <2>1 DEF HoldSet, Holders
  <2>3. Stage(t)'
    BY <2>1 DEF Stage
  <2>4. bp'[t] \notin todo'[t]
    BY <1>a, <2>1
  <2> QED BY <1>0, <2>1, <2>2, <2>3, <2>4, KeepSound
<1>4. CASE ReleaseLink(t)
  <2>1. /\ pc[t] = "link" /\ pc'[t] = "push" /\ b_next' = [b_next EXCEPT ![bp[t]] = bCachelist]
        /\ UNCHANGED <<bCachelist, pool, b_data, bp, next, t64, todo, ended>>
    BY <1>4 DEF ReleaseLink, Goto, local, TypeOK
  <2>2. HoldSet(t)' = HoldSet(t) /\ bp[t] \in HoldSet(t)
    BY <2>1 DEF HoldSet, Holders
  <2>3. bp[t] \in Buf /\ b_next'[bp[t]] = bCachelist
    BY <1>0, <2>1 DEF Memory, TypeOK
  <2>4. \A b \in Buf : b \notin HoldSet(t) => b_next'[b] = b_next[b]
    BY <2>1, <2>2 DEF TypeOK
  <2>5. Stage(t)'
    BY <1>0, <2>1, <2>3 DEF Stage
  <2>6. bp'[t] \notin todo'[t]
    BY <1>a, <2>1
  <2> QED BY <1>0, <2>1, <2>2, <2>4, <2>5, <2>6, KeepSound
<1>5. CASE ReleasePush(t)
  <2>1. /\ pc[t] = "push" /\ pc'[t] = (IF t64[t] = NoPage THEN "idle" ELSE "test")
        /\ bCachelist' = bp[t] /\ bp'[t] = Null
        /\ UNCHANGED <<b_next, pool, b_data, next, t64, todo, ended>>
    BY <1>5 DEF ReleasePush, Goto, TypeOK
  <2>2. Stage(t)'
    BY <1>0, <2>1 DEF Stage
  <2> QED BY <2>1, <2>2, PushSound
<1>6. CASE Test(t)
  <2>1. /\ pc[t] = "test" /\ pc'[t] = (IF bCachelist = Null THEN "malloc" ELSE "head")
        /\ UNCHANGED <<bCachelist, b_next, pool, b_data, bp, next, t64, todo, ended>>
    BY <1>6 DEF Test, Goto, list, local, TypeOK
  <2>2. HoldSet(t)' = HoldSet(t) /\ (t \notin Holders)'
    BY <2>1 DEF HoldSet, Holders
  <2>3. Stage(t)'
    BY <1>0, <2>1 DEF Stage
  <2> QED BY <1>0, <2>1, <2>2, <2>3, KeepSound
<1>7. CASE NoMemory(t)
  <2>1. /\ pc[t] = "malloc" /\ ended' = "exit"
        /\ UNCHANGED <<pc, bCachelist, b_next, pool, b_data, bp, next, t64, todo>>
    BY <1>7 DEF NoMemory, list, local
  <2>2. HoldSet(t)' = HoldSet(t) /\ (t \notin Holders)'
    BY <2>1 DEF HoldSet, Holders
  <2>3. Stage(t)'
    BY <1>0, <2>1 DEF Stage
  <2> QED BY <1>0, <2>1, <2>2, <2>3, KeepSound
<1>8. CASE Malloc(t)
  BY <1>8, MallocSound
<1>9. CASE AllocLink(t)
  <2> DEFINE b == Min(todo[t])
  <2>1. b \in todo[t] /\ b \in Buf
    BY <1>9, MinIn DEF AllocLink, Memory, TypeOK
  <2>2. /\ b_next' = [b_next EXCEPT ![b] = bCachelist]
        /\ bp' = [bp EXCEPT ![t] = b] /\ todo' = [todo EXCEPT ![t] = @ \ {b}]
    BY <1>9 DEF AllocLink
  <2> HIDE DEF b
  <2>3. /\ pc[t] = "alink" /\ pc'[t] = "apush" /\ bp'[t] = b /\ todo'[t] = todo[t] \ {b}
        /\ UNCHANGED <<bCachelist, pool, b_data, next, t64, ended>>
    BY <1>9, <2>2 DEF AllocLink, Goto, TypeOK
  <2>4. HoldSet(t)' = HoldSet(t) /\ b \in HoldSet(t)
    BY <2>1, <2>3 DEF HoldSet, Holders
  <2>5. b_next'[b] = bCachelist /\ \A c \in Buf : c \notin HoldSet(t) => b_next'[c] = b_next[c]
    BY <2>1, <2>2, <2>4 DEF TypeOK
  <2>6. Stage(t)'
    BY <1>0, <2>3, <2>5 DEF Stage
  <2>7. bp'[t] \notin todo'[t]
    BY <2>3
  <2> QED BY <1>0, <2>3, <2>4, <2>5, <2>6, <2>7, KeepSound
<1>10. CASE AllocPush(t)
  <2>1. /\ pc[t] = "apush" /\ pc'[t] = (IF todo[t] = {} THEN "head" ELSE "alink")
        /\ bCachelist' = bp[t]
        /\ UNCHANGED <<b_next, pool, b_data, bp, next, t64, todo, ended>>
    BY <1>10 DEF AllocPush, Goto, local, TypeOK
  <2>2. bp[t] # Null
    BY <2>1 DEF Memory
  <2>3. Stage(t)'
    BY <1>0, <2>1, <2>2 DEF Stage
  <2> QED BY <2>1, <2>3, PushSound
<1>11. CASE Head(t)
  <2>1. /\ pc[t] = "head" /\ pc'[t] = "next" /\ bp'[t] = bCachelist
        /\ UNCHANGED <<bCachelist, b_next, pool, b_data, next, t64, todo, ended>>
    BY <1>11 DEF Head, Goto, list, TypeOK
  <2>2. HoldSet(t)' = HoldSet(t) /\ (t \notin Holders)'
    BY <2>1 DEF HoldSet, Holders
  <2>3. Stage(t)'
    BY <1>0, <2>1 DEF Stage
  <2> QED BY <1>0, <2>1, <2>2, <2>3, KeepSound
<1>12. CASE LoadNext(t)
  <2>1. /\ pc[t] = "next" /\ pc'[t] = "take" /\ next'[t] = b_next[bp[t]]
        /\ UNCHANGED <<bCachelist, b_next, pool, b_data, bp, t64, todo, ended>>
    BY <1>12 DEF LoadNext, Goto, list, TypeOK
  <2>2. HoldSet(t)' = HoldSet(t) /\ (t \notin Holders)'
    BY <2>1 DEF HoldSet, Holders
  <2>3. Stage(t)'
    BY <1>0, <2>1 DEF Stage
  <2> QED BY <1>0, <2>1, <2>2, <2>3, KeepSound
<1>13. CASE Fault(t)
  BY <1>0, <1>13 DEF Fault, Stage
<1>14. CASE Take(t)
  BY <1>14, TakeSound
<1>15. CASE Fill(t)
  <2>1. /\ pc[t] = "fill" /\ pc'[t] = "search" /\ b_data' = [b_data EXCEPT ![bp[t]] = t64[t]]
        /\ UNCHANGED <<bCachelist, b_next, pool, bp, next, t64, todo, ended>>
    BY <1>15 DEF Fill, Copied, Goto, list, local, TypeOK
  <2>2. bp[t] # Null /\ bp[t] \in Buf
    BY <1>0, <2>1 DEF Memory
  <2>3. HoldSet(t)' = HoldSet(t)
    BY <2>1, <2>2 DEF HoldSet, Holders
  <2>4. b_data'[bp[t]] = t64[t]
    BY <2>1, <2>2 DEF TypeOK
  <2>5. Stage(t)'
    BY <1>0, <2>1, <2>4 DEF Stage
  <2>6. bp'[t] \notin todo'[t]
    BY <1>a, <2>1
  <2> QED BY <1>0, <2>1, <2>3, <2>5, <2>6, KeepSound
<1> QED BY <1>1, <1>2, <1>3, <1>4, <1>5, <1>6, <1>7, <1>8, <1>9, <1>10, <1>11, <1>12, <1>13,
           <1>14, <1>15 DEF Step

LEMMA StepIInv == IInv /\ [Next]_vars => IInv'
<1> SUFFICES ASSUME IInv, [Next]_vars PROVE IInv'
  OBVIOUS
<1>1. CASE Next
  <2>1. PICK t \in Thread : xt_Lookup(t) \/ Step(t)
    BY <1>1 DEF Next
  <2>2. NBUFFER' = NBUFFER /\ raced' \in BOOLEAN
    BY <1>1 DEF Next
  <2>3. TypeOK /\ Memory
    BY DEF IInv
  <2>4. TypeOK' /\ Memory'
    BY <2>1, <2>2, <2>3, StepType, StepMemory
  <2>5. ASSUME ~raced' PROVE Sound'
    <3>1. ~raced /\ Alone'
      BY <1>1, <2>5, NoOverlap
    <3>2. Sound
      BY <3>1 DEF IInv
    <3> QED BY <2>1, <2>2, <2>3, <3>1, <3>2, StepSound
  <2> QED BY <2>4, <2>5 DEF IInv
<1>2. CASE UNCHANGED vars
  <2>1. TypeOK' /\ Memory'
    BY <1>2 DEF vars, IInv, TypeOK, Memory
  <2>2. Alone' = Alone /\ Disjoint' = Disjoint /\ Bound' = Bound
    BY <1>2 DEF vars, Alone, Disjoint, Bound, HoldSet, Holders
  <2>3. Shape' = Shape
    BY <1>2 DEF vars, Shape, IsList, Splits, HoldSet, Holders
  <2>4. \A t \in Thread : Stage(t)' = Stage(t)
    BY <1>2 DEF vars, Stage
  <2>5. ended' = ended /\ raced' = raced
    BY <1>2 DEF vars
  <2> QED BY <2>1, <2>2, <2>3, <2>4, <2>5 DEF IInv, Sound
<1> QED BY <1>1, <1>2
-----------------------------------------------------------------------------
(* What Nth computes.                                                       *)

LEMMA NthIs ==
  ASSUME TypeOK
  PROVE  /\ Nth[0] = bCachelist
         /\ \A k \in Nat : Nth[k + 1] = IF Nth[k] = Null THEN Null ELSE b_next[Nth[k]]
<1> DEFINE S == Buf \cup {Null}
           g == [x \in S |-> IF x = Null THEN Null ELSE b_next[x]]
           Def(f) == [k \in Nat |-> IF k = 0 THEN bCachelist
                                   ELSE IF f[k - 1] = Null THEN Null ELSE b_next[f[k - 1]]]
<1>1. bCachelist \in S /\ g \in [S -> S]
  BY DEF TypeOK
<1>2. PICK f \in [Nat -> S] : f[0] = bCachelist /\ \A n \in Nat : f[n + 1] = g[f[n]]
  <2> HIDE DEF S, g
  <2> QED BY <1>1, Iterated
<1>3. f = Def(f)
  <2>1. ASSUME NEW k \in Nat
        PROVE  f[k] = IF k = 0 THEN bCachelist
                      ELSE IF f[k - 1] = Null THEN Null ELSE b_next[f[k - 1]]
    <3>1. CASE k = 0
      BY <1>2, <3>1
    <3>2. CASE k # 0
      <4>1. k - 1 \in Nat /\ (k - 1) + 1 = k
        BY <3>2
      <4>2. f[k] = g[f[k - 1]] /\ f[k - 1] \in S
        BY <1>2, <4>1
      <4> QED BY <3>2, <4>2
    <3> QED BY <3>1, <3>2
  <2>2. f = [k \in Nat |-> f[k]]
    OBVIOUS
  <2> QED BY <2>1, <2>2
<1>4. Nth = CHOOSE h : h = Def(h)
  BY DEF Nth
<1>5. Nth = Def(Nth)
  <2> HIDE DEF Def
  <2> QED BY <1>3, <1>4
<1>6. \A k \in Nat : Nth[k] = IF k = 0 THEN bCachelist
                              ELSE IF Nth[k - 1] = Null THEN Null ELSE b_next[Nth[k - 1]]
  BY <1>5
<1>7. ASSUME NEW k \in Nat
      PROVE  Nth[k + 1] = IF Nth[k] = Null THEN Null ELSE b_next[Nth[k]]
  <2>1. k + 1 \in Nat /\ k + 1 # 0 /\ (k + 1) - 1 = k
    OBVIOUS
  <2> HIDE DEF Def
  <2> QED BY <1>6, <2>1
<1> QED BY <1>6, <1>7

(* Following links never leaves the pool. *)
LEMMA NthInPool ==
  ASSUME TypeOK, Memory
  PROVE  \A k \in Nat : Nth[k] \in pool \cup {Null}
<1> DEFINE In == {k \in Nat : Nth[k] \in pool \cup {Null}}
<1>1. 0 \in In
  BY NthIs DEF Memory
<1>2. ASSUME NEW k \in Nat, k \in In PROVE k + 1 \in In
  <2>1. Nth[k + 1] = IF Nth[k] = Null THEN Null ELSE b_next[Nth[k]]
    BY NthIs
  <2>2. Nth[k] # Null => Nth[k] \in Buf
    BY <1>2 DEF TypeOK
  <2> QED BY <1>2, <2>1, <2>2 DEF Memory
<1>3. \A k \in Nat : k \in In
  <2> HIDE DEF In
  <2> QED BY <1>1, <1>2, InductionSet
<1> QED BY <1>3

(* Along a list s the function gives its elements, then Null. *)
LEMMA NthOfList ==
  ASSUME TypeOK, NEW n \in Nat, NEW s \in [1 .. n -> Buf], IsList(n, s)
  PROVE  \A k \in Nat : Nth[k] = IF k < n THEN s[k + 1] ELSE Null
<1> DEFINE In == {k \in Nat : Nth[k] = IF k < n THEN s[k + 1] ELSE Null}
<1>0. Null \notin Buf
  BY PoolAssumption DEF Buf
<1>1. 0 \in In
  BY NthIs DEF IsList
<1>2. ASSUME NEW k \in Nat, k \in In PROVE k + 1 \in In
  <2>1. Nth[k + 1] = IF Nth[k] = Null THEN Null ELSE b_next[Nth[k]]
    BY NthIs
  <2>2. CASE k < n
    <3>1. k + 1 \in 1 .. n /\ Nth[k] = s[k + 1] /\ s[k + 1] # Null
      BY <1>0, <1>2, <2>2
    <3>2. b_next[s[k + 1]] = IF k + 1 = n THEN Null ELSE s[k + 1 + 1]
      BY <3>1 DEF IsList
    <3>3. k + 1 < n <=> k + 1 # n
      BY <2>2
    <3> QED BY <2>1, <3>1, <3>2, <3>3
  <2>3. CASE ~(k < n)
    <3>1. Nth[k] = Null /\ ~(k + 1 < n)
      BY <1>2, <2>3
    <3> QED BY <2>1, <3>1
  <2> QED BY <2>2, <2>3
<1>3. \A k \in Nat : k \in In
  <2> HIDE DEF In
  <2> QED BY <1>1, <1>2, InductionSet
<1> QED BY <1>3

LEMMA SizeOfBuf == Cardinality(Buf) = MaxBuf /\ IsFiniteSet(Buf)
<1>1. MaxBuf \in Nat
  BY PoolAssumption
<1>2. Cardinality(1 .. MaxBuf) = IF 1 > MaxBuf THEN 0 ELSE MaxBuf - 1 + 1
  BY <1>1, FS_Interval
<1>3. Cardinality(1 .. MaxBuf) = MaxBuf
  BY <1>1, <1>2
<1>4. IsFiniteSet(1 .. MaxBuf)
  BY <1>1, FS_Interval
<1> QED BY <1>3, <1>4 DEF Buf

(* So the list s is what is free, no more than there are buffers. *)
LEMMA FreeIs ==
  ASSUME TypeOK, NEW n \in Nat, NEW s \in [1 .. n -> Buf], IsList(n, s)
  PROVE  /\ \A b : b \in Free <=> \E i \in 1 .. n : s[i] = b
         /\ Nth[Cardinality(Free)] = Null
<1>0. Null \notin Buf /\ MaxBuf \in Nat
  BY PoolAssumption DEF Buf
<1>1. s \in Injection(1 .. n, Buf)
  <2>1. \A i, j \in 1 .. n : s[i] = s[j] => i = j
    BY DEF IsList
  <2> QED BY <2>1 DEF Injection, IsInjective
<1>2. Cardinality(1 .. n) = n /\ IsFiniteSet(1 .. n)
  <2>1. Cardinality(1 .. n) = IF 1 > n THEN 0 ELSE n - 1 + 1
    BY FS_Interval
  <2>2. IsFiniteSet(1 .. n)
    BY FS_Interval
  <2> QED BY <2>1, <2>2
<1>3. n <= MaxBuf
  BY <1>1, <1>2, SizeOfBuf, FS_Injection
<1>4. ASSUME NEW b PROVE b \in Free <=> \E i \in 1 .. n : s[i] = b
  <2>1. ASSUME NEW i \in 1 .. n, s[i] = b PROVE b \in Free
    <3>1. i - 1 \in Nat /\ i - 1 < n /\ i - 1 \in 0 .. MaxBuf /\ (i - 1) + 1 = i
      BY <1>0, <1>3
    <3>2. Nth[i - 1] = b
      BY <2>1, <3>1, NthOfList
    <3>3. b # Null
      BY <1>0, <2>1
    <3> QED BY <3>1, <3>2, <3>3, SizeOfBuf DEF Free
  <2>2. ASSUME b \in Free PROVE \E i \in 1 .. n : s[i] = b
    <3>1. PICK k \in 0 .. MaxBuf : Nth[k] = b
      BY <2>2, SizeOfBuf DEF Free
    <3>2. b # Null
      BY <2>2 DEF Free
    <3>3. k \in Nat
      BY <1>0
    <3>4. k < n /\ s[k + 1] = b
      BY <3>1, <3>2, <3>3, NthOfList
    <3>5. k + 1 \in 1 .. n
      BY <3>3, <3>4
    <3> QED BY <3>4, <3>5
  <2> QED BY <2>1, <2>2
<1>5. s \in Bijection(1 .. n, Free)
  <2>1. \A i \in 1 .. n : s[i] \in Free
    BY <1>4
  <2>2. s \in [1 .. n -> Free]
    <3>1. s = [i \in 1 .. n |-> s[i]]
      OBVIOUS
    <3> QED BY <2>1, <3>1
  <2>3. s \in Injection(1 .. n, Free)
    BY <1>1, <2>2 DEF Injection
  <2>4. s \in Surjection(1 .. n, Free)
    BY <1>4, <2>2 DEF Surjection
  <2> QED BY <2>3, <2>4 DEF Bijection
<1>6. Cardinality(Free) = n
  BY <1>5, FS_CountingElements DEF ExistsBijection
<1>7. Nth[n] = Null
  BY NthOfList
<1> QED BY <1>4, <1>6, <1>7

LEMMA SoundPool == ASSUME IInv PROVE PoolSound
<1> SUFFICES ASSUME ~raced PROVE PoolSound
  BY DEF PoolSound
<1>0. TypeOK /\ Memory /\ Sound
  BY DEF IInv
<1>1. PICK n \in Nat : \E s \in [1 .. n -> Buf] : IsList(n, s) /\ Splits(n, s)
  BY <1>0 DEF Sound, Shape
<1>2. PICK s \in [1 .. n -> Buf] : IsList(n, s) /\ Splits(n, s)
  BY <1>1
<1>3. \A b : b \in Free <=> \E i \in 1 .. n : s[i] = b
  BY <1>0, <1>2, FreeIs
<1>4. Nth[Cardinality(Free)] = Null
  BY <1>0, <1>2, FreeIs
<1>5. InHand \subseteq Buf
  <2>1. ASSUME NEW t \in Thread PROVE HoldSet(t) \subseteq Buf
    BY <1>0 DEF HoldSet, Holders, Memory, TypeOK
  <2> QED BY <2>1, InHandIs
<1>6. Free \cup InHand = pool /\ Free \cap InHand = {}
  <2>1. Free \subseteq Buf /\ pool \subseteq Buf
    BY <1>0, <1>3 DEF TypeOK
  <2>2. ASSUME NEW b \in Buf PROVE b \in pool <=> b \in Free \cup InHand
    BY <1>2, <1>3, InHandIs DEF Splits
  <2>3. ASSUME NEW b \in Free PROVE b \notin InHand
    BY <1>2, <1>3, InHandIs DEF Splits
  <2> QED BY <1>5, <2>1, <2>2, <2>3
<1>7. \A t, u \in Holders : bp[t] = bp[u] => t = u
  <2>1. \A t \in Holders : t \in Thread /\ bp[t] \in HoldSet(t)
    BY DEF Holders, HoldSet
  <2> QED BY <1>0, <2>1 DEF Sound, Disjoint
<1> QED BY <1>0, <1>4, <1>6, <1>7 DEF PoolSound, Sound, Bound

-----------------------------------------------------------------------------
(***************************************************************************)
(* The list, the buffers and the local variables of the threads stay in    *)
(* their types, overlaps or not.                                           *)
(***************************************************************************)
THEOREM TypeCorrect == Spec => []TypeOK
BY InitIInv, StepIInv, PTL DEF Spec, IInv

(***************************************************************************)
(* Whatever operations on bCachelist overlap, neither following the list   *)
(* nor what the threads hold leads out of the memory of bAllocate, for any *)
(* number of threads and of buffers.                                       *)
(***************************************************************************)
THEOREM NoOtherMemory == Spec => []ListInPool
<1>1. ASSUME IInv PROVE ListInPool
  <2>0. TypeOK /\ Memory
    BY <1>1 DEF IInv
  <2>1. Cardinality(Buf) \in Nat
    BY PoolAssumption, SizeOfBuf
  <2>2. Free \subseteq pool
    BY <2>0, <2>1, NthInPool DEF Free
  <2>3. Null \notin Buf
    BY PoolAssumption DEF Buf
  <2>4. ASSUME NEW t \in Thread PROVE HoldSet(t) \subseteq pool
    BY <2>0 DEF HoldSet, Holders, Memory
  <2>5. InHand \subseteq pool
    BY <2>4, InHandIs
  <2> QED BY <2>2, <2>5 DEF ListInPool
<1> QED BY <1>1, InitIInv, StepIInv, PTL DEF Spec

(***************************************************************************)
(* bRead, bRelease and bAllocate keep the pool right until two of them     *)
(* overlap: no buffer is lost or shared, the list ends, it is not empty    *)
(* when its head is taken, and the pool stays within one buffer per other  *)
(* thread and one allocation.                                              *)
(***************************************************************************)
THEOREM PoolIsSound == Spec => []PoolSound
BY SoundPool, InitIInv, StepIInv, PTL DEF Spec

(***************************************************************************)
(* Until then a search reads the page it asked for.                        *)
(***************************************************************************)
THEOREM PageIsOwn == Spec => []OwnPage
<1>1. IInv => OwnPage
  BY DEF IInv, Sound, Stage, OwnPage
<1> QED BY <1>1, InitIInv, StepIInv, PTL DEF Spec
=============================================================================
