--------------------------- MODULE DirectoryProofs ---------------------------
(***************************************************************************)
(* What lookups and listings of directories return, for any number of      *)
(* threads, of directories, of leaves and of entries, with and without     *)
(* other threads in UTF8_Buffer.                                           *)
(*                                                                         *)
(* Entries(d) is the concatenation of the leaves, by the recursive         *)
(* function Upto. That it puts the entries of leaf l behind those of the   *)
(* leaves before it is shown by induction, with the library's theorem that *)
(* < is well-founded on the natural numbers.                               *)
(***************************************************************************)
EXTENDS Directory, SequenceTheorems, WellFoundedInduction, TLAPS

(* The least-number principle, from the library's well-foundedness of <. *)
LEMMA LeastNumber ==
  ASSUME NEW T, T \subseteq Nat, T # {}
  PROVE  \E n \in T : \A m \in T : n <= m
<1> DEFINE R == {s \in Nat \X Nat : s[1] < s[2]}
<1>0. R = OpToRel(<, Nat)
  BY DEF OpToRel
<1>1. IsWellFoundedOn(R, Nat)
  BY <1>0, NatLessThanWellFounded
<1>2. \E x \in T : \A y \in T : ~(<<y, x>> \in R)
  BY <1>1, WFMin
<1>3. PICK x \in T : \A y \in T : ~(<<y, x>> \in R)
  BY <1>2
<1>4. ASSUME NEW y \in T PROVE x <= y
  <2>1. x \in Nat /\ y \in Nat /\ ~(<<y, x>> \in R)
    BY <1>3
  <2>2. ~(y < x)
    BY <2>1
  <2> QED BY <2>1, <2>2
<1> QED BY <1>4

(* Induction over the natural numbers, for sets. *)
LEMMA InductionSet ==
  ASSUME NEW S, 0 \in S, \A n \in Nat : n \in S => n + 1 \in S
  PROVE  \A n \in Nat : n \in S
<1> SUFFICES ASSUME Nat \ S # {} PROVE FALSE
  OBVIOUS
<1>1. PICK n \in Nat \ S : \A m \in Nat \ S : n <= m
  BY LeastNumber
<1>2. n # 0 /\ n - 1 \in Nat
  BY <1>1
<1>3. n - 1 \in S
  BY <1>1, <1>2
<1> QED BY <1>1, <1>2, <1>3

(* A function iterated from c on. *)
LEMMA Iterated ==
  ASSUME NEW S, NEW c \in S, NEW g \in [S -> S]
  PROVE  \E f \in [Nat -> S] : f[0] = c /\ \A n \in Nat : f[n + 1] = g[f[n]]
<1> DEFINE Run(h, n) == /\ h \in [0 .. n -> S] /\ h[0] = c
                        /\ \A q \in 0 .. n - 1 : h[q + 1] = g[h[q]]
           Have == {n \in Nat : \E h : Run(h, n)}
<1>1. \A n \in Nat : n \in Have
  <2>1. 0 \in Have
    <3>1. Run([q \in 0 .. 0 |-> c], 0)
      OBVIOUS
    <3> QED BY <3>1
  <2>2. ASSUME NEW n \in Nat, n \in Have PROVE n + 1 \in Have
    <3>1. PICK h : Run(h, n)
      BY <2>2
    <3> DEFINE j == [q \in 0 .. n + 1 |-> IF q = n + 1 THEN g[h[n]] ELSE h[q]]
    <3>2. h[n] \in S /\ g[h[n]] \in S
      BY <3>1
    <3>3. j \in [0 .. n + 1 -> S]
      BY <3>1, <3>2
    <3>4. j[0] = c
      BY <3>1
    <3>5. ASSUME NEW q \in 0 .. (n + 1) - 1 PROVE j[q + 1] = g[j[q]]
      <4>1. CASE q = n
        BY <4>1
      <4>2. CASE q # n
        <5>1. q \in 0 .. n - 1 /\ q + 1 \in 0 .. n
          BY <4>2
        <5>2. h[q + 1] = g[h[q]]
          BY <3>1, <5>1
        <5> QED BY <5>1, <5>2
      <4> QED BY <4>1, <4>2
    <3> HIDE DEF j
    <3>6. Run(j, n + 1)
      BY <3>3, <3>4, <3>5
    <3> QED BY <3>6
  <2> HIDE DEF Have
  <2> QED BY <2>1, <2>2, InductionSet
<1>2. ASSUME NEW h, NEW j, NEW n \in Nat, NEW m \in Nat, Run(h, n), Run(j, m)
      PROVE  \A q \in Nat : q <= n /\ q <= m => h[q] = j[q]
  <2> DEFINE Eq == {q \in Nat : q <= n /\ q <= m => h[q] = j[q]}
  <2>1. 0 \in Eq
    BY <1>2
  <2>2. ASSUME NEW q \in Nat, q \in Eq PROVE q + 1 \in Eq
    <3> SUFFICES ASSUME q + 1 <= n, q + 1 <= m PROVE h[q + 1] = j[q + 1]
      OBVIOUS
    <3>1. h[q] = j[q]
      BY <2>2
    <3>2. q \in 0 .. n - 1 /\ q \in 0 .. m - 1
      OBVIOUS
    <3> QED BY <1>2, <3>1, <3>2
  <2>3. \A q \in Nat : q \in Eq
    <3> HIDE DEF Eq
    <3> QED BY <2>1, <2>2, InductionSet
  <2> QED BY <2>3
<1> DEFINE run(n) == CHOOSE h : Run(h, n)
           f == [n \in Nat |-> run(n)[n]]
<1>3. ASSUME NEW n \in Nat PROVE Run(run(n), n)
  BY <1>1
<1> HIDE DEF run
<1>4. \A n \in Nat : run(n)[n] \in S
  BY <1>3
<1>5. f \in [Nat -> S]
  BY <1>4
<1>6. f[0] = c
  BY <1>3
<1>7. ASSUME NEW n \in Nat PROVE f[n + 1] = g[f[n]]
  <2> DEFINE h == run(n)
             j == run(n + 1)
  <2>1. Run(h, n) /\ Run(j, n + 1) /\ n + 1 \in Nat
    BY <1>3
  <2> HIDE DEF h, j
  <2>2. h[n] = j[n]
    <3> HIDE DEF Run
    <3> QED BY <1>2, <2>1
  <2>3. j[n + 1] = g[j[n]]
    BY <2>1
  <2> QED BY <2>2, <2>3 DEF h, j
<1> HIDE DEF f
<1> QED BY <1>5, <1>6, <1>7

-----------------------------------------------------------------------------
(* The entries of a directory.                                              *)

LEMMA LeavesType ==
  ASSUME NEW d \in Dir
  PROVE  /\ Leaves[d] \in Seq(Seq(DirEntry))
         /\ Len(Leaves[d]) \in Nat \ {0}
         /\ \A k \in 1 .. Len(Leaves[d]) : Leaves[d][k] \in Seq(DirEntry)
<1>1. Leaves[d] \in Seq(Seq(DirEntry)) /\ Len(Leaves[d]) > 0
  BY DirAssumption
<1>2. Len(Leaves[d]) \in Nat
  BY <1>1
<1>3. \A k \in 1 .. Len(Leaves[d]) : Leaves[d][k] \in Seq(DirEntry)
  BY <1>1
<1> QED BY <1>1, <1>2, <1>3

(* Upto obeys its recursive definition. *)
LEMMA UptoIs ==
  ASSUME NEW d \in Dir
  PROVE  /\ Upto(d)[0] = <<>>
         /\ \A k \in 1 .. Len(Leaves[d]) : Upto(d)[k] = Upto(d)[k - 1] \o Leaves[d][k]
<1> DEFINE L == Len(Leaves[d])
           Q == Seq(DirEntry)
           S == Nat \X Q
           g == [x \in S |-> <<x[1] + 1, IF x[1] < L THEN x[2] \o Leaves[d][x[1] + 1] ELSE x[2]>>]
           Def(f) == [k \in 0 .. L |-> IF k = 0 THEN <<>> ELSE f[k - 1] \o Leaves[d][k]]
<1>0. L \in Nat /\ \A k \in 1 .. L : Leaves[d][k] \in Q
  BY LeavesType
<1>1. <<0, <<>> >> \in S
  <2>1. <<>> \in Q
    BY EmptySeq
  <2> HIDE DEF Q
  <2> QED BY <2>1
<1>2. g \in [S -> S]
  <2>1. ASSUME NEW x \in S
        PROVE  <<x[1] + 1, IF x[1] < L THEN x[2] \o Leaves[d][x[1] + 1] ELSE x[2]>> \in S
    <3>1. x[1] \in Nat /\ x[2] \in Q
      OBVIOUS
    <3>2. CASE x[1] < L
      <4>1. x[1] + 1 \in 1 .. L
        BY <1>0, <3>1, <3>2
      <4>2. Leaves[d][x[1] + 1] \in Q
        BY <1>0, <4>1
      <4>3. x[2] \o Leaves[d][x[1] + 1] \in Q
        BY <3>1, <4>2, ConcatProperties
      <4> DEFINE y == x[2] \o Leaves[d][x[1] + 1]
      <4>4. x[1] + 1 \in Nat /\ y \in Q
        BY <3>1, <4>3
      <4> HIDE DEF Q, L, y
      <4>5. <<x[1] + 1, y>> \in S
        BY <4>4
      <4> QED BY <3>2, <4>5 DEF y
    <3>3. CASE ~(x[1] < L)
      <4> HIDE DEF Q, L
      <4> QED BY <3>1, <3>3
    <3> QED BY <3>2, <3>3
  <2> QED BY <2>1
<1>3. PICK h \in [Nat -> S] : h[0] = <<0, <<>> >> /\ \A n \in Nat : h[n + 1] = g[h[n]]
  <2> DEFINE c == <<0, <<>> >>
  <2>1. c \in S
    BY <1>1
  <2>3. g \in [S -> S]
    <3> HIDE DEF S, g
    <3> QED BY <1>2
  <2> HIDE DEF S, g, c
  <2>2. \E h \in [Nat -> S] : h[0] = c /\ \A n \in Nat : h[n + 1] = g[h[n]]
    BY <2>1, <2>3, Iterated, Z3
  <2> QED BY <2>2 DEF c
<1>4. \A n \in Nat : h[n][1] = n
  <2> DEFINE T == {n \in Nat : h[n][1] = n}
  <2>1. 0 \in T
    BY <1>3
  <2>2. ASSUME NEW n \in Nat, n \in T PROVE n + 1 \in T
    <3>1. h[n] \in S /\ h[n + 1] = g[h[n]] /\ h[n][1] = n
      BY <1>3, <2>2
    <3>2. g[h[n]][1] = n + 1
      BY <3>1
    <3> QED BY <3>1, <3>2
  <2>3. \A n \in Nat : n \in T
    <3> HIDE DEF T
    <3> QED BY <2>1, <2>2, InductionSet
  <2> QED BY <2>3
<1> DEFINE f == [k \in 0 .. L |-> h[k][2]]
<1>5. f = Def(f)
  <2>1. ASSUME NEW k \in 0 .. L
        PROVE  f[k] = IF k = 0 THEN <<>> ELSE f[k - 1] \o Leaves[d][k]
    <3>1. CASE k = 0
      BY <1>0, <1>3, <3>1
    <3>2. CASE k # 0
      <4>1. k - 1 \in Nat /\ k - 1 < L /\ (k - 1) + 1 = k /\ k - 1 \in 0 .. L
        <5> HIDE DEF L
        <5> QED BY <1>0, <3>2
      <4>2. h[k] = g[h[k - 1]] /\ h[k - 1] \in S /\ h[k - 1][1] = k - 1
        BY <1>3, <1>4, <4>1
      <4>3. h[k][2] = h[k - 1][2] \o Leaves[d][k]
        <5> HIDE DEF L, Q
        <5>1. g[h[k - 1]] = <<k, h[k - 1][2] \o Leaves[d][k]>>
          BY <4>1, <4>2
        <5> DEFINE y == h[k - 1][2] \o Leaves[d][k]
        <5>2. h[k] = <<k, y>>
          BY <4>2, <5>1
        <5> HIDE DEF y
        <5>3. h[k][2] = y
          BY ONLY <5>2
        <5> QED BY <5>3 DEF y
      <4> QED BY <3>2, <4>1, <4>3
    <3> QED BY <3>1, <3>2
  <2>2. f = [k \in 0 .. L |-> f[k]]
    OBVIOUS
  <2> HIDE DEF f
  <2> QED BY <2>1, <2>2
<1>6. Upto(d) = CHOOSE u : u = Def(u)
  BY DEF Upto
<1>7. Upto(d) = Def(Upto(d))
  <2> HIDE DEF Def
  <2> QED BY <1>5, <1>6
<1>8. \A k \in 0 .. L : Upto(d)[k] = IF k = 0 THEN <<>> ELSE Upto(d)[k - 1] \o Leaves[d][k]
  BY <1>7
<1>9. Upto(d)[0] = <<>>
  <2>1. 0 \in 0 .. L
    BY <1>0
  <2> HIDE DEF Def, L
  <2> QED BY <1>8, <2>1
<1>10. ASSUME NEW k \in 1 .. L PROVE Upto(d)[k] = Upto(d)[k - 1] \o Leaves[d][k]
  <2>1. k \in 0 .. L /\ k # 0
    BY <1>0
  <2> HIDE DEF Def
  <2> QED BY <1>8, <2>1
<1> QED BY <1>9, <1>10

(* ... and is a sequence of entries. *)
LEMMA UptoType ==
  ASSUME NEW d \in Dir
  PROVE  \A k \in 0 .. Len(Leaves[d]) : Upto(d)[k] \in Seq(DirEntry)
<1> DEFINE L == Len(Leaves[d])
           T == {k \in Nat : k <= L => Upto(d)[k] \in Seq(DirEntry)}
<1>0. L \in Nat
  BY LeavesType
<1>1. 0 \in T
  BY UptoIs, EmptySeq
<1>2. ASSUME NEW k \in Nat, k \in T PROVE k + 1 \in T
  <2> SUFFICES ASSUME k + 1 <= L PROVE Upto(d)[k + 1] \in Seq(DirEntry)
    OBVIOUS
  <2>1. k + 1 \in 1 .. L /\ (k + 1) - 1 = k /\ k <= L
    BY <1>0
  <2>2. Upto(d)[k + 1] = Upto(d)[k] \o Leaves[d][k + 1]
    BY <2>1, UptoIs
  <2>3. Leaves[d][k + 1] \in Seq(DirEntry) /\ Upto(d)[k] \in Seq(DirEntry)
    BY <1>2, <2>1, LeavesType
  <2>4. Upto(d)[k] \o Leaves[d][k + 1] \in Seq(DirEntry)
    BY <2>3, ConcatProperties
  <2> QED BY <2>2, <2>4
<1>3. \A k \in Nat : k \in T
  <2> HIDE DEF T
  <2> QED BY <1>1, <1>2, InductionSet
<1> QED BY <1>0, <1>3

(* One leaf more. *)
LEMMA UptoStep ==
  ASSUME NEW d \in Dir, NEW k \in 1 .. Len(Leaves[d])
  PROVE  /\ Len(Upto(d)[k - 1]) \in Nat /\ Len(Leaves[d][k]) \in Nat
         /\ Len(Upto(d)[k]) = Len(Upto(d)[k - 1]) + Len(Leaves[d][k])
         /\ \A n \in 1 .. Len(Upto(d)[k - 1]) : Upto(d)[k][n] = Upto(d)[k - 1][n]
         /\ \A n \in 1 .. Len(Leaves[d][k]) :
              Upto(d)[k][Len(Upto(d)[k - 1]) + n] = Leaves[d][k][n]
<1> DEFINE a == Upto(d)[k - 1]
           b == Leaves[d][k]
<1>1. Len(Leaves[d]) \in Nat /\ k - 1 \in 0 .. Len(Leaves[d])
  BY LeavesType
<1>2. a \in Seq(DirEntry) /\ b \in Seq(DirEntry) /\ Upto(d)[k] = a \o b
  BY <1>1, LeavesType, UptoType, UptoIs
<1> HIDE DEF a, b
<1>3. Len(a) \in Nat /\ Len(b) \in Nat /\ Len(a \o b) = Len(a) + Len(b)
  BY <1>2
<1>4. \A n \in 1 .. Len(a) : (a \o b)[n] = a[n]
  BY <1>2, <1>3
<1>5. ASSUME NEW n \in 1 .. Len(b) PROVE (a \o b)[Len(a) + n] = b[n]
  <2>1. Len(a) + n \in 1 .. Len(a) + Len(b) /\ ~(Len(a) + n <= Len(a)) /\ (Len(a) + n) - Len(a) = n
    BY <1>3
  <2> QED BY <1>2, <1>3, <2>1
<1>6. Len(Upto(d)[k]) = Len(a) + Len(b)
  BY <1>2, <1>3
<1>7. \A n \in 1 .. Len(a) : Upto(d)[k][n] = a[n]
  BY <1>2, <1>4
<1>8. \A n \in 1 .. Len(b) : Upto(d)[k][Len(a) + n] = b[n]
  BY <1>2, <1>5
<1> QED BY <1>3, <1>6, <1>7, <1>8 DEF a, b

(* The entries of fewer leaves are the first ones of those of more. *)
LEMMA UptoPrefix ==
  ASSUME NEW d \in Dir, NEW l \in 0 .. Len(Leaves[d])
  PROVE  \A m \in l .. Len(Leaves[d]) :
           /\ Len(Upto(d)[l]) <= Len(Upto(d)[m])
           /\ \A n \in 1 .. Len(Upto(d)[l]) : Upto(d)[m][n] = Upto(d)[l][n]
<1> DEFINE L == Len(Leaves[d])
           P(m) == /\ Len(Upto(d)[l]) <= Len(Upto(d)[m])
                   /\ \A n \in 1 .. Len(Upto(d)[l]) : Upto(d)[m][n] = Upto(d)[l][n]
           T == {k \in Nat : l + k <= L => P(l + k)}
<1>0. L \in Nat /\ Len(Upto(d)[l]) \in Nat
  <2>1. L \in Nat
    BY LeavesType
  <2>2. Upto(d)[l] \in Seq(DirEntry)
    BY UptoType
  <2> QED BY <2>1, <2>2
<1>1. 0 \in T
  BY <1>0
<1>2. ASSUME NEW k \in Nat, k \in T PROVE k + 1 \in T
  <2> SUFFICES ASSUME l + (k + 1) <= L PROVE P(l + (k + 1))
    OBVIOUS
  <2> DEFINE m == l + (k + 1)
  <2>1. m \in 1 .. L /\ m - 1 = l + k /\ l + k <= L
    BY <1>0
  <2>2. P(l + k)
    BY <1>2, <2>1
  <2>3. /\ Len(Upto(d)[l + k]) \in Nat /\ Len(Leaves[d][m]) \in Nat
        /\ Len(Upto(d)[m]) = Len(Upto(d)[l + k]) + Len(Leaves[d][m])
        /\ \A n \in 1 .. Len(Upto(d)[l + k]) : Upto(d)[m][n] = Upto(d)[l + k][n]
    <3> HIDE DEF m
    <3>1. /\ Len(Upto(d)[m - 1]) \in Nat /\ Len(Leaves[d][m]) \in Nat
          /\ Len(Upto(d)[m]) = Len(Upto(d)[m - 1]) + Len(Leaves[d][m])
          /\ \A n \in 1 .. Len(Upto(d)[m - 1]) : Upto(d)[m][n] = Upto(d)[m - 1][n]
      BY <2>1, UptoStep
    <3> QED BY <2>1, <3>1
  <2> HIDE DEF m
  <2>4. Len(Upto(d)[l]) <= Len(Upto(d)[m])
    <3>1. Len(Upto(d)[l]) <= Len(Upto(d)[l + k])
      BY <2>2
    <3> DEFINE a == Len(Upto(d)[l])
               b == Len(Upto(d)[l + k])
               c == Len(Upto(d)[m])
               e == Len(Leaves[d][m])
    <3>2. a \in Nat /\ b \in Nat /\ e \in Nat /\ c = b + e /\ a <= b
      BY <1>0, <2>3, <3>1
    <3> HIDE DEF a, b, c, e
    <3>3. a <= c
      BY ONLY <3>2
    <3> QED BY <3>3 DEF a, c
  <2>5. ASSUME NEW n \in 1 .. Len(Upto(d)[l]) PROVE Upto(d)[m][n] = Upto(d)[l][n]
    <3>1. n \in 1 .. Len(Upto(d)[l + k])
      BY <1>0, <2>2, <2>3
    <3> QED BY <2>2, <2>3, <3>1
  <2> QED BY <2>4, <2>5 DEF m
<1>3. \A k \in Nat : k \in T
  <2> HIDE DEF T
  <2> QED BY <1>1, <1>2, InductionSet
<1>4. ASSUME NEW m \in l .. L PROVE P(m)
  <2>1. m - l \in Nat /\ l + (m - l) = m /\ m <= L
    BY <1>0
  <2>2. m - l \in T
    BY <1>3, <2>1
  <2>3. l + (m - l) <= L => P(l + (m - l))
    BY <2>2
  <2> HIDE DEF P
  <2> QED BY <2>1, <2>3
<1> QED BY <1>4

(* Entry n of leaf l is at this place of the directory. *)
LEMMA EntryAt ==
  ASSUME NEW d \in Dir, NEW l \in 1 .. Len(Leaves[d]), NEW n \in 1 .. Len(Leaves[d][l])
  PROVE  /\ Len(Upto(d)[l - 1]) + n \in Positions(d)
         /\ Entries(d)[Len(Upto(d)[l - 1]) + n] = Leaves[d][l][n]
<1> DEFINE L == Len(Leaves[d])
           p == Len(Upto(d)[l - 1])
<1>1. /\ p \in Nat /\ Len(Leaves[d][l]) \in Nat
      /\ Len(Upto(d)[l]) = p + Len(Leaves[d][l])
      /\ Upto(d)[l][p + n] = Leaves[d][l][n]
  BY UptoStep
<1>2. L \in Nat /\ l \in 0 .. L /\ L \in l .. L
  BY LeavesType
<1>3. /\ Len(Upto(d)[l]) <= Len(Upto(d)[L])
      /\ \A k \in 1 .. Len(Upto(d)[l]) : Upto(d)[L][k] = Upto(d)[l][k]
  <2> HIDE DEF L
  <2> QED BY <1>2, UptoPrefix DEF L
<1>4. Len(Upto(d)[L]) \in Nat
  <2>1. L \in 0 .. L
    BY <1>2
  <2>2. Upto(d)[L] \in Seq(DirEntry)
    BY <2>1, UptoType
  <2> QED BY <2>2
<1> HIDE DEF p
<1>5. p + n \in 1 .. Len(Upto(d)[l])
  BY <1>1
<1>6. p + n \in 1 .. Len(Upto(d)[L])
  BY <1>1, <1>3, <1>4, <1>5
<1> QED BY <1>1, <1>3, <1>5, <1>6 DEF p, Entries, Positions

LEMMA EntriesType ==
  ASSUME NEW d \in Dir
  PROVE  /\ Entries(d) \in Seq(DirEntry)
         /\ Len(Entries(d)) \in Nat
         /\ \A k \in Positions(d) : /\ Entries(d)[k].name \in Seq(Byte)
                                    /\ Entries(d)[k].utf8 \in Seq(Byte)
                                    /\ Entries(d)[k].inum \in Nat
<1>1. Len(Leaves[d]) \in 0 .. Len(Leaves[d])
  BY LeavesType
<1>2. Entries(d) \in Seq(DirEntry)
  BY <1>1, UptoType DEF Entries
<1>3. Len(Entries(d)) \in Nat
  BY <1>2
<1>4. \A k \in Positions(d) : Entries(d)[k] \in DirEntry
  BY <1>2 DEF Positions
<1> QED BY <1>2, <1>3, <1>4 DEF DirEntry

(* The root leaf may be empty, no other. *)
LEMMA FullLeaves ==
  ASSUME NEW d \in Dir
  PROVE  IF Leaves[d] = << <<>> >> THEN Positions(d) = {}
         ELSE \A k \in 1 .. Len(Leaves[d]) : Len(Leaves[d][k]) > 0
<1>1. CASE Leaves[d] = << <<>> >>
  <2>1. Len(Leaves[d]) = 1 /\ Leaves[d][1] = <<>>
    BY <1>1
  <2>2. 1 \in 1 .. Len(Leaves[d]) /\ 1 - 1 = 0 /\ Len(<<>>) = 0
    BY <2>1
  <2>3. Len(Upto(d)[1]) = Len(Upto(d)[1 - 1]) + Len(Leaves[d][1])
    BY ONLY <2>2, UptoStep, d \in Dir
  <2>4. Upto(d)[1 - 1] = <<>>
    BY ONLY <2>2, UptoIs, d \in Dir
  <2>6. Len(Upto(d)[1]) = 0
    BY ONLY <2>1, <2>2, <2>3, <2>4
  <2>5. Positions(d) = 1 .. 0
    BY <2>1, <2>6 DEF Positions, Entries
  <2> QED BY <1>1, <2>5
<1>2. CASE Leaves[d] # << <<>> >>
  <2>1. \A k \in 1 .. Len(Leaves[d]) : Leaves[d][k] # <<>>
    <3>1. CASE Len(Leaves[d]) > 1
      BY <3>1, DirAssumption
    <3>2. CASE Len(Leaves[d]) = 1
      <4>1. SUFFICES ASSUME Leaves[d][1] = <<>> PROVE FALSE
        BY <3>2
      <4>2. Leaves[d] \in Seq(Seq(DirEntry)) /\ << <<>> >> \in Seq(Seq(DirEntry))
        BY LeavesType
      <4>3. Leaves[d] = << <<>> >>
        BY <3>2, <4>1, <4>2, SeqEqual
      <4> QED BY <1>2, <4>3
    <3>3. Len(Leaves[d]) > 1 \/ Len(Leaves[d]) = 1
      <4> DEFINE L == Len(Leaves[d])
      <4>1. L \in Nat \ {0}
        BY LeavesType
      <4> HIDE DEF L
      <4>2. L > 1 \/ L = 1
        BY <4>1
      <4> QED BY <4>2 DEF L
    <3> QED BY <3>1, <3>2, <3>3
  <2>2. \A k \in 1 .. Len(Leaves[d]) : Len(Leaves[d][k]) > 0
    BY <2>1, LeavesType
  <2> QED BY <1>2, <2>2
<1> QED BY <1>1, <1>2

(* An ASCII name is found at its own entry, and not at one before it: the    *)
(* first byte in which such an entry is not written as its name stands for a *)
(* wide character, and the name would have to come behind.                   *)
LEMMA AgreesSelf ==
  ASSUME NEW d \in Dir, NEW k \in Positions(d), Ascii(Entries(d)[k].name)
  PROVE  Agrees(Entries(d)[k].utf8, Entries(d)[k].name)
<1> DEFINE s == Entries(d)[k].name
<1>1. s \in Seq(Byte) /\ Len(s) \in Nat
  BY EntriesType
<1>2. Entries(d)[k].utf8 = s
  BY DirAssumption DEF Positions, Written
<1>3. \A m \in 1 .. Len(s) : s[m] < 128
  BY DEF Ascii
<1> HIDE DEF s
<1>4. Agrees(s, s)
  BY <1>1, <1>3 DEF Agrees, Signed
<1> QED BY <1>2, <1>4 DEF s

LEMMA NotAgrees ==
  ASSUME NEW s \in Seq(Byte), NEW u \in Seq(Byte), NEW r \in Seq(Byte),
         Ascii(r), Written(u, s), Before(s, r)
  PROVE  ~Agrees(u, r)
<1> SUFFICES ASSUME Agrees(u, r) PROVE FALSE
  OBVIOUS
<1>0. /\ Len(s) \in Nat /\ Len(u) \in Nat /\ Len(r) \in Nat
      /\ \A m \in 1 .. Len(s) : s[m] \in Byte
      /\ \A m \in 1 .. Len(r) : r[m] \in Byte
  OBVIOUS
<1>1. Len(r) <= Len(u) /\ Len(u) <= Len(s)
  BY DEF Agrees, Written
<1>2. ASSUME NEW m \in 1 .. Len(r) PROVE u[m] = r[m] /\ r[m] < 128
  <2>1. r[m] < 128 /\ u[m] = Signed(r[m])
    BY DEF Ascii, Agrees
  <2> QED BY <2>1 DEF Signed
<1>3. PICK k \in 1 .. Len(r) : /\ \A m \in 1 .. k - 1 : m <= Len(s) /\ s[m] = r[m]
                               /\ k > Len(s) \/ s[k] < r[k]
  BY DEF Before
<1>4. k \in 1 .. Len(u) /\ k \in 1 .. Len(s) /\ s[k] < r[k]
  BY <1>0, <1>1, <1>3
<1>5. ASSUME NEW m \in 1 .. k - 1 PROVE u[m] = s[m]
  <2>1. m \in 1 .. Len(r)
    BY <1>0
  <2> QED BY <1>2, <1>3, <2>1
<1>6. u[k] = s[k] \/ s[k] >= 128
  BY <1>4, <1>5 DEF Written
<1>7. u[k] = r[k] /\ r[k] < 128
  BY <1>2
<1>8. s[k] \in Nat /\ r[k] \in Nat
  <2>1. s[k] \in Byte
    BY <1>0, <1>4
  <2>2. r[k] \in Byte
    BY <1>0
  <2>3. \A x \in Byte : x \in Nat
    BY DEF Byte
  <2> QED BY <2>1, <2>2, <2>3
<1> QED BY <1>4, <1>6, <1>7, <1>8

LEMMA FirstMatch ==
  ASSUME NEW d \in Dir, NEW n \in Positions(d), NEW k \in Positions(d),
         Ascii(Entries(d)[k].name),
         \A j \in 1 .. n - 1 : ~Agrees(Entries(d)[j].utf8, Entries(d)[k].name),
         Agrees(Entries(d)[n].utf8, Entries(d)[k].name)
  PROVE  k = n
<1>0. n \in Nat /\ k \in Nat /\ n >= 1 /\ k >= 1
  BY EntriesType DEF Positions
<1>1. CASE k < n
  <2>1. k \in 1 .. n - 1
    BY <1>0, <1>1
  <2> QED BY <2>1, AgreesSelf
<1>2. CASE n < k
  <2>1. n \in 1 .. k - 1
    BY <1>0, <1>2
  <2>2. /\ Written(Entries(d)[n].utf8, Entries(d)[n].name)
        /\ Before(Entries(d)[n].name, Entries(d)[k].name)
    BY <2>1, DirAssumption DEF Positions
  <2>3. /\ Entries(d)[n].name \in Seq(Byte) /\ Entries(d)[n].utf8 \in Seq(Byte)
        /\ Entries(d)[k].name \in Seq(Byte)
    BY EntriesType
  <2> QED BY <2>2, <2>3, NotAgrees
<1> QED BY <1>0, <1>1, <1>2

-----------------------------------------------------------------------------
(* The inductive invariant.                                                 *)

Scanning == {"clear", "convert", "compare"}
Listing  == {"listclear", "listconvert", "copy"}
Scanned  == {"load", "relock", "nput", "found"}

(* The place of the entry in hand among all entries of the directory. *)
Index(t) == Len(Upto(dp[t])[leaf[t] - 1]) + i[t]

InLeaf(t) ==
  /\ leaf[t] \in 1 .. Len(Leaves[dp[t]])
  /\ i[t] \in 1 .. Len(Leaves[dp[t]][leaf[t]])

Rec == [named : BOOLEAN, inum : Nat \cup {Garbage}]

PCs == {"idle", "scan", "clear", "convert", "compare", "load", "relock", "nput", "found",
        "walk", "listclear", "listconvert", "copy", "listed"}

(* A byte of the buffer is 0 or a byte of a converted name, at its place. *)
ByteOfName(b, x) ==
  \/ x = Nul
  \/ \E d \in Dir : \E k \in Positions(d) :
       b <= Len(Entries(d)[k].utf8) /\ x = Entries(d)[k].utf8[b]

Bytes(s) == \A b \in DOMAIN s : ByteOfName(b, s[b])

Types ==
  /\ Bytes(utf8)
  /\ pc \in [Thread -> PCs] /\ dp \in [Thread -> Dir]
  /\ nomem \in [Thread -> BOOLEAN] /\ shared \in [Thread -> BOOLEAN]
  /\ name \in [Thread -> Query \cup {Blank}]
  /\ gotinum \in [Thread -> Nat \cup {-1, Garbage}]
  /\ err \in [Thread -> {"ok", "ENOENT", "EAGAIN", "EIO"}]
  /\ leaf \in [Thread -> Nat] /\ i \in [Thread -> Nat]
  /\ cpos \in [Thread -> Nat] /\ pos \in [Thread -> Nat]
  /\ amt \in [Thread -> Nat] /\ cnt \in [Thread -> Nat]
  /\ recs \in [Thread -> Seq(Rec)]

(* Thread t has the buffer for itself and memory: no entry that it passed    *)
(* was taken for the name, and the buffer holds what is written of the name  *)
(* of the entry in hand.                                                     *)
Scan(t) ==
  /\ ~nomem[t] /\ ~shared[t] /\ pc[t] \in Scanning =>
       \A k \in 1 .. Index(t) - 1 : ~Agrees(Entries(dp[t])[k].utf8, name[t])
  /\ ~shared[t] /\ pc[t] = "compare" => utf8 = Current(t).utf8

(* What gotinum is when the scan is over. *)
Result(t) ==
  /\ ~nomem[t] /\ ~shared[t] /\ pc[t] \in Scanned /\ Ascii(name[t]) =>
       \A k \in Positions(dp[t]) :
         Entries(dp[t])[k].name = name[t] => gotinum[t] = Entries(dp[t])[k].inum
  /\ ~nomem[t] /\ pc[t] \in Scanned /\ Positions(dp[t]) # {} =>
       gotinum[t] = -1 \/ \E k \in Positions(dp[t]) : Entries(dp[t])[k].inum = gotinum[t]
  /\ pc[t] \in {"relock", "nput"} => name[t] = DotDot
  /\ pc[t] # "found" => err[t] = "ok"
  /\ pc[t] = "found" /\ err[t] = "ENOENT" => gotinum[t] = -1
  /\ pc[t] = "found" /\ err[t] \in {"ok", "EIO"} /\ ~Dotted(name[t]) => gotinum[t] # -1

(* Where a listing is. *)
Walk(t) ==
  /\ pc[t] = "walk" =>
       /\ leaf[t] \in 1 .. Len(Leaves[dp[t]])
       /\ cpos[t] = Len(Upto(dp[t])[leaf[t] - 1])
       /\ cpos[t] <= pos[t]
  /\ pc[t] \in Buffering => InLeaf(t)
  /\ pc[t] \in Listing => Index(t) = pos[t] + 1

(* What it has written. *)
Records(t) ==
  /\ amt[t] = Len(recs[t])
  /\ pc[t] # "listed" => amt[t] < MaxEntries /\ cnt[t] = 0
  /\ pc[t] \notin {"walk", "listed"} \cup Listing => recs[t] = <<>>
  /\ amt[t] <= MaxEntries /\ cnt[t] <= amt[t]
  /\ ~nomem[t] => \A k \in 1 .. Len(recs[t]) :
       LET n == pos[t] - Len(recs[t]) + k
       IN  n \in Positions(dp[t]) /\ recs[t][k].inum = Entries(dp[t])[n].inum
  /\ pc[t] = "listed" /\ cnt[t] = 0 /\ ~nomem[t] =>
       pos[t] - Len(recs[t]) >= Len(Entries(dp[t]))

Local(t) == Scan(t) /\ Result(t) /\ Walk(t) /\ Records(t)

IInv == Types /\ \A t \in Thread : Local(t)

LEMMA TypesOK == IInv => TypeOK
<1> SUFFICES ASSUME IInv PROVE TypeOK
  OBVIOUS
<1>1. \A b \in DOMAIN utf8 :
       \/ utf8[b] = Nul
       \/ \E d \in Dir : \E k \in 1 .. Len(Entries(d)) :
            b <= Len(Entries(d)[k].utf8) /\ utf8[b] = Entries(d)[k].utf8[b]
  BY DEF IInv, Types, Bytes, ByteOfName, Positions
<1>2. /\ pc \in [Thread -> PCs] /\ dp \in [Thread -> Dir]
      /\ {nomem, shared} \subseteq [Thread -> BOOLEAN]
  BY DEF IInv, Types
<1>3. ASSUME NEW t \in Thread
      PROVE  /\ name[t] \in Query \cup {Blank}
             /\ gotinum[t] \in Nat \cup {-1, Garbage}
             /\ err[t] \in {"ok", "ENOENT", "EAGAIN", "EIO"}
             /\ leaf[t] \in Nat /\ i[t] \in Nat
             /\ cpos[t] \in Nat /\ pos[t] \in Nat
             /\ recs[t] \in Seq(Rec)
  BY DEF IInv, Types
<1>4. ASSUME NEW t \in Thread
      PROVE  /\ amt[t] \in 0 .. MaxEntries
             /\ Len(recs[t]) <= MaxEntries
             /\ cnt[t] \in 0 .. Len(recs[t])
  BY DirAssumption DEF IInv, Types, Local, Records
<1> QED BY <1>1, <1>2, <1>3, <1>4 DEF TypeOK, PCs, Rec

LEMMA Initially == Init => IInv
<1> SUFFICES ASSUME Init PROVE IInv
  OBVIOUS
<1>0. MaxEntries \in Nat /\ MaxEntries > 1 /\ RootDir \in Dir
  BY DirAssumption
<1>1. Types
  <2>1. Bytes(utf8)
    BY DEF Init, Blank, Bytes
  <2>2. <<>> \in Seq(Rec)
    BY EmptySeq
  <2>3. recs \in [Thread -> Seq(Rec)]
    BY <2>2 DEF Init
  <2> QED BY <1>0, <2>1, <2>3 DEF Init, Types, PCs
<1>2. ASSUME NEW t \in Thread PROVE Local(t)
  <2>1. Scan(t) /\ Result(t) /\ Walk(t)
    BY DEF Init, Scan, Result, Walk, Scanning, Scanned, Buffering, Listing
  <2>2. pc[t] = "idle" /\ recs[t] = <<>> /\ amt[t] = 0 /\ cnt[t] = 0 /\ Len(<<>>) = 0
    BY DEF Init
  <2>3. Records(t)
    BY <1>0, <2>2 DEF Records
  <2> QED BY <2>1, <2>3 DEF Local
<1> QED BY <1>1, <1>2 DEF IInv

-----------------------------------------------------------------------------
(* The other threads.                                                       *)

(* A step leaves what is local to thread u alone; if u then still is not     *)
(* marked, it was not in the buffer together with another thread.            *)
Same(u) ==
  /\ pc'[u] = pc[u] /\ dp'[u] = dp[u] /\ name'[u] = name[u] /\ gotinum'[u] = gotinum[u]
  /\ err'[u] = err[u] /\ leaf'[u] = leaf[u] /\ i'[u] = i[u] /\ cpos'[u] = cpos[u]
  /\ pos'[u] = pos[u] /\ amt'[u] = amt[u] /\ recs'[u] = recs[u] /\ cnt'[u] = cnt[u]
  /\ nomem'[u] = nomem[u]
  /\ ~shared'[u] => ~shared[u] /\ ~Sharing(u)

LEMMA OtherThread ==
  ASSUME IInv, NEW t \in Thread, NEW u \in Thread, u # t, Same(u),
         utf8' = utf8 \/ pc[t] \in Buffering
  PROVE  Local(u)'
<1>1. Local(u)
  BY DEF IInv
<1>2. Scan(u)'
  <2>1. ~shared'[u] /\ pc[u] = "compare" => utf8' = utf8
    BY DEF Same, Sharing, Buffering
  <2> QED BY <1>1, <2>1 DEF Same, Local, Scan, Index, Current
<1>3. Result(u)'
  BY <1>1 DEF Same, Local, Result
<1>4. Walk(u)'
  BY <1>1 DEF Same, Local, Walk, Index, InLeaf
<1>5. Records(u)'
  BY <1>1 DEF Same, Local, Records
<1> QED BY <1>2, <1>3, <1>4, <1>5 DEF Local

(* What Goto does. *)
LEMMA Going ==
  ASSUME Types, NEW t \in Thread, NEW label \in PCs, Goto(t, label)
  PROVE  /\ pc' \in [Thread -> PCs] /\ shared' \in [Thread -> BOOLEAN]
         /\ pc'[t] = label
         /\ label # "idle" /\ ~shared'[t] => ~shared[t] /\ ~Sharing(t)
         /\ \A u \in Thread \ {t} :
              pc'[u] = pc[u] /\ (~shared'[u] => ~shared[u] /\ ~Sharing(u))
<1>1. pc' \in [Thread -> PCs] /\ pc'[t] = label /\ \A u \in Thread \ {t} : pc'[u] = pc[u]
  BY DEF Types, Goto
<1>2. \A u \in Thread : shared'[u] = ((shared[u] \/ Sharing(u)) /\ ~(u = t /\ label = "idle"))
  BY DEF Goto
<1>3. shared' \in [Thread -> BOOLEAN]
  BY DEF Goto
<1>4. label # "idle" /\ ~shared'[t] => ~shared[t] /\ ~Sharing(t)
  BY <1>2
<1>5. \A u \in Thread \ {t} : ~shared'[u] => ~shared[u] /\ ~Sharing(u)
  BY <1>2
<1> QED BY <1>1, <1>3, <1>4, <1>5

(* The buffer of a thread that is alone in it, and of any. *)
LEMMA RacyAlone ==
  ASSUME NEW t \in Thread, pc[t] \in Buffering, ~Sharing(t), NEW bytes
  PROVE  Racy(t, bytes) = {bytes}
<1>1. {v \in Thread \ {t} : pc[v] \in Buffering} = {}
  BY DEF Sharing
<1>2. {Current(u).utf8 : u \in {v \in Thread \ {t} : pc[v] \in Buffering}} = {}
  BY <1>1
<1> QED BY <1>2 DEF Racy

LEMMA CurrentEntry ==
  ASSUME IInv, NEW t \in Thread, pc[t] \in Buffering
  PROVE  /\ InLeaf(t) /\ Index(t) \in Positions(dp[t])
         /\ Current(t) = Entries(dp[t])[Index(t)]
         /\ dp[t] \in Dir /\ Current(t).utf8 \in Seq(Byte) /\ Current(t).inum \in Nat
<1>1. InLeaf(t) /\ dp[t] \in Dir
  BY DEF IInv, Types, Local, Walk
<1>2. Index(t) \in Positions(dp[t]) /\ Current(t) = Entries(dp[t])[Index(t)]
  BY <1>1, EntryAt DEF InLeaf, Index, Current
<1> QED BY <1>1, <1>2, EntriesType

LEMMA CurrentBytes ==
  ASSUME IInv, NEW t \in Thread, pc[t] \in Buffering
  PROVE  /\ \A b : b <= Len(Current(t).utf8) => ByteOfName(b, Current(t).utf8[b])
         /\ Bytes(Current(t).utf8)
<1>1. ASSUME NEW b, b <= Len(Current(t).utf8) PROVE ByteOfName(b, Current(t).utf8[b])
  <2> DEFINE d == dp[t]
             k == Index(t)
  <2>1. d \in Dir /\ k \in Positions(d) /\ Current(t) = Entries(d)[k]
    BY CurrentEntry
  <2> HIDE DEF d, k
  <2>2. b <= Len(Entries(d)[k].utf8) /\ Current(t).utf8[b] = Entries(d)[k].utf8[b]
    BY <1>1, <2>1
  <2> QED BY <2>1, <2>2 DEF ByteOfName
<1>2. \A b \in DOMAIN Current(t).utf8 : b <= Len(Current(t).utf8)
  <2>1. Current(t).utf8 \in Seq(Byte)
    BY CurrentEntry
  <2>2. DOMAIN Current(t).utf8 = 1 .. Len(Current(t).utf8) /\ Len(Current(t).utf8) \in Nat
    BY <2>1, LenProperties
  <2> QED BY <2>2
<1> QED BY <1>1, <1>2 DEF Bytes

LEMMA RacyBytes ==
  ASSUME IInv, NEW t \in Thread, pc[t] \in Buffering, NEW s \in Racy(t, Current(t).utf8)
  PROVE  Bytes(s)
<1> DEFINE bytes == Current(t).utf8
           others == {Current(u).utf8 : u \in {v \in Thread \ {t} : pc[v] \in Buffering}}
           all == others \cup {bytes}
           longest == CHOOSE n \in {Len(b) : b \in all} : \A b \in all : Len(b) <= n
           At(k) == {b[k] : b \in {c \in all : k <= Len(c)}} \cup {Nul}
<1>1. ASSUME NEW c \in all, NEW k, k <= Len(c) PROVE ByteOfName(k, c[k])
  <2>1. PICK u \in Thread : pc[u] \in Buffering /\ c = Current(u).utf8
    OBVIOUS
  <2> QED BY <1>1, <2>1, CurrentBytes
<1>2. ASSUME NEW k, NEW x \in At(k) PROVE ByteOfName(k, x)
  <2>1. CASE x = Nul
    BY <2>1 DEF ByteOfName
  <2>2. CASE x # Nul
    <3> HIDE DEF all
    <3>1. PICK c \in all : k <= Len(c) /\ x = c[k]
      BY <2>2
    <3> QED BY <1>1, <3>1
  <2> QED BY <2>1, <2>2
<1>3. CASE others = {}
  <2>1. s = bytes
    BY <1>3 DEF Racy
  <2> QED BY <2>1, CurrentBytes
<1>4. CASE others # {}
  <2>1. s \in {b \in [1 .. longest -> UNION {At(k) : k \in 1 .. longest}] :
                 \A k \in 1 .. longest : b[k] \in At(k)}
    BY <1>4 DEF Racy
  <2> HIDE DEF longest, At
  <2>2. DOMAIN s = 1 .. longest /\ \A k \in 1 .. longest : s[k] \in At(k)
    BY <2>1
  <2> QED BY <1>2, <2>2 DEF Bytes
<1> QED BY <1>3, <1>4

-----------------------------------------------------------------------------
(* Every action keeps the invariant. *)

Others(t) == \A u \in Thread \ {t} : Same(u)

Kept(t) == Types' /\ Local(t)' /\ Others(t)

Went(t, label) ==
  /\ pc' \in [Thread -> PCs] /\ shared' \in [Thread -> BOOLEAN]
  /\ pc'[t] = label
  /\ label # "idle" /\ ~shared'[t] => ~shared[t] /\ ~Sharing(t)
  /\ \A u \in Thread \ {t} : pc'[u] = pc[u] /\ (~shared'[u] => ~shared[u] /\ ~Sharing(u))

LEMMA GotoWent ==
  ASSUME IInv, NEW t \in Thread, NEW label \in PCs, Goto(t, label)
  PROVE  Went(t, label)
BY Going DEF IInv, Went

ListPCs == {"walk", "listed"} \cup Listing

(* Parts of the invariant that say nothing at some places. *)
LEMMA NotLookup ==
  ASSUME NEW t \in Thread, pc'[t] \in {"idle", "scan"} \cup ListPCs, err'[t] = "ok"
  PROVE  Scan(t)' /\ Result(t)'
BY DEF Scan, Result, ListPCs, Listing, Scanning, Scanned

LEMMA NotWalking ==
  ASSUME NEW t \in Thread, pc'[t] \notin Buffering \cup {"walk"}
  PROVE  Walk(t)'
BY DEF Walk, Buffering, Listing

LEMMA NoRecords ==
  ASSUME NEW t \in Thread, pc'[t] # "listed", recs'[t] = <<>>, amt'[t] = 0, cnt'[t] = 0
  PROVE  Records(t)'
<1>1. MaxEntries \in Nat /\ MaxEntries > 1 /\ Len(<<>>) = 0
  BY DirAssumption
<1> QED BY <1>1 DEF Records

LEMMA LookupRecords ==
  ASSUME IInv, NEW t \in Thread, pc[t] \notin ListPCs, pc'[t] # "listed",
         recs'[t] = recs[t], amt'[t] = amt[t], cnt'[t] = cnt[t]
  PROVE  Records(t)'
<1>1. Records(t) /\ Len(<<>>) = 0
  BY DEF IInv, Local
<1>2. recs[t] = <<>> /\ amt[t] = 0 /\ cnt[t] = 0
  BY <1>1 DEF Records, ListPCs
<1> QED BY <1>2, NoRecords

LEMMA ListRecords ==
  ASSUME IInv, NEW t \in Thread, pc[t] \in ListPCs \ {"listed"}, pc'[t] \in ListPCs \ {"listed"},
         recs'[t] = recs[t], amt'[t] = amt[t], cnt'[t] = cnt[t], pos'[t] = pos[t],
         dp'[t] = dp[t], nomem'[t] = nomem[t]
  PROVE  Records(t)'
<1>1. Records(t)
  BY DEF IInv, Local
<1> QED BY <1>1 DEF Records, ListPCs

LEMMA StillOk ==
  ASSUME IInv, NEW t \in Thread, pc[t] # "found"
  PROVE  err[t] = "ok"
BY DEF IInv, Local, Result

LEMMA LookupHardKeeps ==
  ASSUME IInv, NEW t \in Thread, NEW d \in Dir, NEW s \in Query, LookupHard(t, d, s)
  PROVE  Kept(t)
<1>1. Went(t, "scan")
  BY GotoWent DEF LookupHard, PCs
<1>2. Types'
  BY <1>1 DEF IInv, Types, LookupHard, listVars, Went
<1>3. Others(t)
  BY <1>1 DEF IInv, Types, LookupHard, listVars, Went, Others, Same
<1>4. Scan(t)' /\ Result(t)' /\ Walk(t)'
  BY <1>1, NotLookup, NotWalking, StillOk DEF LookupHard, Went, Buffering
<1>5. Records(t)'
  BY <1>1, LookupRecords DEF LookupHard, Went, ListPCs, Listing, listVars
<1> QED BY <1>2, <1>3, <1>4, <1>5 DEF Kept, Local

LEMMA ScanStartKeeps ==
  ASSUME IInv, NEW t \in Thread, ScanStart(t)
  PROVE  Kept(t)
<1>0. dp[t] \in Dir /\ pc[t] = "scan" /\ err[t] = "ok"
  BY StillOk DEF IInv, Types, ScanStart
<1>1. CASE Leaves[dp[t]] = << <<>> >>
  <2>1. Went(t, "load") /\ Unassigned(t) /\ leaf' = leaf /\ i' = i
    BY <1>1, GotoWent DEF ScanStart, PCs
  <2>2. Types'
    BY <2>1 DEF IInv, Types, ScanStart, listVars, Went, Unassigned
  <2>3. Others(t)
    BY <2>1 DEF IInv, Types, ScanStart, listVars, Went, Others, Same, Unassigned
  <2>4. Scan(t)' /\ Walk(t)'
    BY <2>1, NotWalking DEF Went, Buffering, Scan, Scanning
  <2>5. Records(t)'
    BY <1>0, <2>1, LookupRecords DEF ScanStart, Went, ListPCs, Listing, listVars
  <2>6. Positions(dp[t]) = {} /\ dp' = dp /\ err' = err
    BY <1>0, <1>1, FullLeaves DEF ScanStart
  <2>7. Result(t)'
    BY <1>0, <2>1, <2>6 DEF Result, Went
  <2> QED BY <2>2, <2>3, <2>4, <2>5, <2>7 DEF Kept, Local
<1>2. CASE Leaves[dp[t]] # << <<>> >>
  <2>1. /\ Went(t, "clear") /\ gotinum' = gotinum
        /\ leaf' = [leaf EXCEPT ![t] = 1] /\ i' = [i EXCEPT ![t] = 1]
    BY <1>2, GotoWent DEF ScanStart, PCs
  <2>2. Types'
    BY <2>1 DEF IInv, Types, ScanStart, listVars, Went
  <2>3. Others(t)
    BY <2>1 DEF IInv, Types, ScanStart, listVars, Went, Others, Same
  <2>4. leaf'[t] = 1 /\ i'[t] = 1 /\ dp'[t] = dp[t] /\ err'[t] = "ok"
    BY <1>0, <2>1 DEF IInv, Types, ScanStart
  <2>5. 1 \in 1 .. Len(Leaves[dp[t]]) /\ 1 \in 1 .. Len(Leaves[dp[t]][1])
    <3>1. 1 \in 1 .. Len(Leaves[dp[t]])
      BY <1>0, LeavesType
    <3>2. Len(Leaves[dp[t]][1]) > 0 /\ Len(Leaves[dp[t]][1]) \in Nat
      <4>1. Leaves[dp[t]][1] \in Seq(DirEntry)
        BY <1>0, <3>1, LeavesType
      <4>2. Len(Leaves[dp[t]][1]) > 0
        BY <1>0, <1>2, <3>1, FullLeaves
      <4> QED BY <4>1, <4>2
    <3> QED BY <3>1, <3>2
  <2>6. InLeaf(t)'
    BY <2>4, <2>5 DEF InLeaf
  <2>7. Walk(t)'
    BY <2>1, <2>6 DEF Walk, Went, Listing
  <2>8. Index(t)' = 1
    <3>1. Upto(dp[t])[0] = <<>>
      BY <1>0, UptoIs
    <3>2. Len(Upto(dp[t])[1 - 1]) + 1 = 1
      BY <3>1
    <3> QED BY <2>4, <3>2 DEF Index
  <2>9. Scan(t)' /\ Result(t)'
    BY <2>1, <2>4, <2>8 DEF Scan, Result, Went, Scanned
  <2>10. Records(t)'
    BY <1>0, <2>1, LookupRecords DEF ScanStart, Went, ListPCs, Listing, listVars
  <2> QED BY <2>2, <2>3, <2>7, <2>9, <2>10 DEF Kept, Local
<1> QED BY <1>1, <1>2

LEMMA ScanNoMemoryKeeps ==
  ASSUME IInv, NEW t \in Thread, ScanNoMemory(t)
  PROVE  Kept(t)
<1>0. pc[t] = "scan" /\ err[t] = "ok" /\ nomem'[t] = TRUE
  BY StillOk DEF IInv, Types, ScanNoMemory, MallocFails
<1>1. Went(t, "load")
  BY GotoWent DEF ScanNoMemory, PCs
<1>2. Types'
  BY <1>1 DEF IInv, Types, ScanNoMemory, listVars, Went, Unassigned, MallocFails
<1>3. Others(t)
  BY <1>1 DEF IInv, Types, ScanNoMemory, listVars, Went, Others, Same, Unassigned, MallocFails
<1>4. Scan(t)' /\ Walk(t)'
  BY <1>1, NotWalking DEF Went, Buffering, Scan, Scanning
<1>5. Records(t)'
  BY <1>0, <1>1, LookupRecords DEF ScanNoMemory, Went, ListPCs, Listing, listVars
<1>6. Result(t)'
  BY <1>0, <1>1 DEF Result, Went, ScanNoMemory
<1> QED BY <1>2, <1>3, <1>4, <1>5, <1>6 DEF Kept, Local

(* On to the next entry: the place counts one up, and behind the last leaf   *)
(* it is that of the last entry.                                             *)
LEMMA NextEntryGoes ==
  ASSUME IInv, NEW t \in Thread, pc[t] \in Scanning, NextEntry(t), dp' = dp
  PROVE  /\ leaf' \in [Thread -> Nat] /\ i' \in [Thread -> Nat]
         /\ \A u \in Thread \ {t} : leaf'[u] = leaf[u] /\ i'[u] = i[u]
         /\ \/ Went(t, "clear") /\ InLeaf(t)' /\ Index(t)' = Index(t) + 1
            \/ Went(t, "load") /\ Index(t) = Len(Entries(dp[t]))
<1> DEFINE d == dp[t]
           l == leaf[t]
           n == i[t]
           L == Len(Leaves[d])
           M == Len(Leaves[d][l])
<1>0. d \in Dir /\ l \in 1 .. L /\ n \in 1 .. M /\ L \in Nat
  BY CurrentEntry, LeavesType DEF Scanning, Buffering, InLeaf
<1>1. M \in Nat /\ Len(Upto(d)[l - 1]) \in Nat /\ Len(Upto(d)[l]) = Len(Upto(d)[l - 1]) + M
  BY <1>0, UptoStep
<1>2. CASE n < M
  <2>1. i' = [i EXCEPT ![t] = n + 1] /\ leaf' = leaf /\ Went(t, "clear")
    BY <1>2, GotoWent DEF NextEntry, NextIndex, PCs
  <2>2. /\ leaf' \in [Thread -> Nat] /\ i' \in [Thread -> Nat]
        /\ \A u \in Thread \ {t} : leaf'[u] = leaf[u] /\ i'[u] = i[u]
        /\ leaf'[t] = l /\ i'[t] = n + 1 /\ dp'[t] = d
    BY <2>1 DEF IInv, Types
  <2> HIDE DEF d, l, n, L, M
  <2>3. n + 1 \in 1 .. M /\ (Len(Upto(d)[l - 1]) + (n + 1) = (Len(Upto(d)[l - 1]) + n) + 1)
    <3> DEFINE p == Len(Upto(d)[l - 1])
    <3>1. p \in Nat
      BY <1>1
    <3> HIDE DEF p
    <3>2. n + 1 \in 1 .. M /\ p + (n + 1) = (p + n) + 1
      BY <1>0, <1>1, <1>2, <3>1
    <3> QED BY <3>2 DEF p
  <2>4. InLeaf(t)'
    BY <1>0, <2>2, <2>3 DEF InLeaf, d, l, L, M
  <2>5. Index(t)' = Index(t) + 1
    BY <2>2, <2>3 DEF Index, d, l, n
  <2> QED BY <2>1, <2>2, <2>4, <2>5
<1>3. CASE ~(n < M) /\ l < L
  <2>1. i' = [i EXCEPT ![t] = 1] /\ leaf' = [leaf EXCEPT ![t] = l + 1] /\ Went(t, "clear")
    BY <1>3, GotoWent DEF NextEntry, PCs
  <2>2. /\ leaf' \in [Thread -> Nat] /\ i' \in [Thread -> Nat]
        /\ \A u \in Thread \ {t} : leaf'[u] = leaf[u] /\ i'[u] = i[u]
        /\ leaf'[t] = l + 1 /\ i'[t] = 1 /\ dp'[t] = d
    BY <2>1 DEF IInv, Types
  <2>3. l + 1 \in 1 .. L /\ L > 1 /\ (l + 1) - 1 = l /\ n = M
    <3> HIDE DEF d, l, n, L, M
    <3> QED BY <1>0, <1>1, <1>3
  <2>4. Leaves[d][l + 1] # <<>> /\ Leaves[d][l + 1] \in Seq(DirEntry)
    BY <1>0, <2>3, DirAssumption, LeavesType
  <2>5. Len(Leaves[d][l + 1]) \in Nat /\ Len(Leaves[d][l + 1]) > 0
    BY <2>4
  <2>6. InLeaf(t)'
    <3>1. 1 \in 1 .. Len(Leaves[d][l + 1])
      BY <2>5
    <3> HIDE DEF d, l
    <3> QED BY <2>2, <2>3, <3>1 DEF InLeaf
  <2> HIDE DEF d, l, n, L, M
  <2>7. Len(Upto(d)[l]) + 1 = (Len(Upto(d)[l - 1]) + n) + 1
    BY <1>1, <2>3
  <2>8. Index(t)' = Index(t) + 1
    <3>1. Index(t)' = Len(Upto(d)[l]) + 1
      BY <2>2, <2>3 DEF Index
    <3>2. Index(t) = Len(Upto(d)[l - 1]) + n
      BY DEF Index, d, l, n
    <3> QED BY <2>7, <3>1, <3>2
  <2> QED BY <2>1, <2>2, <2>6, <2>8
<1>4. CASE ~(n < M) /\ ~(l < L)
  <2>1. leaf' = leaf /\ i' = i /\ Went(t, "load")
    BY <1>4, GotoWent DEF NextEntry, PCs
  <2>2. l = L /\ n = M
    <3> HIDE DEF d, l, n, L, M
    <3> QED BY <1>0, <1>1, <1>4
  <2>3. Index(t) = Len(Entries(dp[t]))
    <3>1. Index(t) = Len(Upto(d)[l - 1]) + n
      BY DEF Index
    <3>2. Len(Entries(dp[t])) = Len(Upto(d)[L])
      BY DEF Entries
    <3> HIDE DEF d, l, n, L, M
    <3> QED BY <1>1, <2>2, <3>1, <3>2
  <2> QED BY <2>1, <2>3 DEF IInv, Types
<1> QED BY <1>2, <1>3, <1>4

LEMMA EntryNoMemoryKeeps ==
  ASSUME IInv, NEW t \in Thread, EntryNoMemory(t)
  PROVE  Kept(t)
<1>0. pc[t] = "clear" /\ err[t] = "ok" /\ nomem'[t] = TRUE /\ err' = err
  BY StillOk DEF IInv, Types, EntryNoMemory, MallocFails, lookupVars
<1> DEFINE P == /\ leaf' \in [Thread -> Nat] /\ i' \in [Thread -> Nat]
                /\ \A u \in Thread \ {t} : leaf'[u] = leaf[u] /\ i'[u] = i[u]
<1>1. P /\ \/ Went(t, "clear") /\ InLeaf(t)'
           \/ Went(t, "load")
  BY <1>0, NextEntryGoes DEF EntryNoMemory, Scanning
<1>2. PICK label \in {"clear", "load"} : Went(t, label) /\ (label = "clear" => InLeaf(t)')
  BY <1>1
<1>3. Types'
  BY <1>1, <1>2 DEF IInv, Types, EntryNoMemory, listVars, lookupVars, Went, MallocFails
<1>4. Others(t)
  BY <1>1, <1>2 DEF IInv, Types, EntryNoMemory, listVars, lookupVars, Went, MallocFails, Others, Same
<1>5. Scan(t)' /\ Result(t)'
  BY <1>0, <1>2 DEF Scan, Result, Went
<1>6. Walk(t)'
  BY <1>2 DEF Walk, Went, Buffering, Listing
<1>7. Records(t)'
  BY <1>0, <1>2, LookupRecords DEF EntryNoMemory, Went, ListPCs, Listing, listVars
<1> QED BY <1>3, <1>4, <1>5, <1>6, <1>7 DEF Kept, Local

LEMMA ClearKeeps ==
  ASSUME IInv, NEW t \in Thread, Clear(t)
  PROVE  Kept(t)
<1>0. pc[t] = "clear" /\ err[t] = "ok" /\ Local(t)
  BY StillOk DEF IInv, Clear
<1>1. Went(t, "convert")
  BY GotoWent DEF Clear, PCs
<1>2. Bytes(utf8')
  BY DEF Clear, Blank, Bytes
<1>3. Types'
  BY <1>1, <1>2 DEF IInv, Types, Clear, listVars, lookupVars, Went
<1>4. Others(t)
  BY <1>1 DEF IInv, Types, Clear, listVars, lookupVars, Went, Others, Same
<1>5. Scan(t)'
  BY <1>0, <1>1 DEF Local, Scan, Went, Scanning, Clear, lookupVars, Index
<1>6. Result(t)'
  BY <1>0, <1>1 DEF Result, Went, Scanned, Clear, lookupVars
<1>7. Walk(t)'
  BY <1>0, <1>1 DEF Local, Walk, Went, Buffering, Listing, Clear, InLeaf
<1>8. Records(t)'
  BY <1>0, <1>1, LookupRecords DEF Clear, Went, ListPCs, Listing, listVars
<1> QED BY <1>3, <1>4, <1>5, <1>6, <1>7, <1>8 DEF Kept, Local

LEMMA ConvertKeeps ==
  ASSUME IInv, NEW t \in Thread, Convert(t)
  PROVE  Kept(t)
<1>0. pc[t] = "convert" /\ err[t] = "ok" /\ Local(t) /\ pc[t] \in Buffering
  BY StillOk DEF IInv, Convert, Buffering
<1>1. Went(t, "compare")
  BY GotoWent DEF Convert, PCs
<1>2. Bytes(utf8')
  BY <1>0, RacyBytes DEF Convert
<1>3. Types'
  BY <1>1, <1>2 DEF IInv, Types, Convert, listVars, lookupVars, Went
<1>4. Others(t)
  BY <1>1 DEF IInv, Types, Convert, listVars, lookupVars, Went, Others, Same
<1>5. Scan(t)'
  <2>1. ~shared'[t] => utf8' = Current(t).utf8
    BY <1>0, <1>1, RacyAlone DEF Went, Convert
  <2>2. Current(t)' = Current(t)
    BY DEF Current, Convert
  <2> QED BY <1>0, <1>1, <2>1, <2>2 DEF Local, Scan, Went, Scanning, Convert, lookupVars, Index
<1>6. Result(t)'
  BY <1>0, <1>1 DEF Result, Went, Scanned, Convert, lookupVars
<1>7. Walk(t)'
  BY <1>0, <1>1 DEF Local, Walk, Went, Buffering, Listing, Convert, InLeaf
<1>8. Records(t)'
  BY <1>0, <1>1, LookupRecords DEF Convert, Went, ListPCs, Listing, listVars
<1> QED BY <1>3, <1>4, <1>5, <1>6, <1>7, <1>8 DEF Kept, Local

(* The comparison of a thread that is not marked is with what is written of  *)
(* the name of the entry in hand. When it matches an ASCII name, that is the *)
(* entry of the name: it did not match before, and would before any behind.  *)
LEMMA CompareKeeps ==
  ASSUME IInv, NEW t \in Thread, Compare(t)
  PROVE  Kept(t)
<1> DEFINE d == dp[t]
           n == Index(t)
<1>0. pc[t] = "compare" /\ err[t] = "ok" /\ Local(t) /\ pc[t] \in Buffering
  BY StillOk DEF IInv, Compare, Buffering
<1>1. d \in Dir /\ n \in Positions(d) /\ Current(t) = Entries(d)[n] /\ Current(t).inum \in Nat
  BY <1>0, CurrentEntry
<1>2. dp' = dp /\ name' = name /\ err' = err /\ nomem' = nomem
  BY DEF Compare
<1>3. PICK b \in Racy(t, utf8) :
        IF Matches(t, b)
        THEN /\ gotinum' = [gotinum EXCEPT ![t] = Current(t).inum]
             /\ UNCHANGED <<leaf, i>>
             /\ Goto(t, "load")
        ELSE gotinum' = [gotinum EXCEPT ![t] = Mismatch(t)] /\ NextEntry(t)
  BY DEF Compare
<1>4. ~Sharing(t) /\ ~shared[t] => b = Current(t).utf8
  BY <1>0, <1>3, RacyAlone DEF Local, Scan
<1>5. ~Sharing(t) /\ ~shared[t] /\ ~nomem[t] =>
        \A k \in 1 .. n - 1 : ~Agrees(Entries(d)[k].utf8, name[t])
  BY <1>0 DEF Local, Scan, Scanning
<1>6. n \in Nat \ {0} /\ Len(Entries(d)) \in Nat
  BY <1>1, EntriesType DEF Positions
<1> HIDE DEF n
<1>7. CASE Matches(t, b)
  <2>1. Went(t, "load") /\ gotinum' = [gotinum EXCEPT ![t] = Current(t).inum] /\ leaf' = leaf /\ i' = i
    BY <1>3, <1>7, GotoWent DEF PCs
  <2>2. Types'
    BY <1>1, <2>1 DEF IInv, Types, Compare, listVars, Went
  <2>3. Others(t)
    BY <2>1 DEF IInv, Types, Compare, listVars, Went, Others, Same
  <2>4. Scan(t)' /\ Walk(t)'
    BY <2>1, NotWalking DEF Went, Buffering, Scan, Scanning
  <2>5. Records(t)'
    BY <1>0, <2>1, LookupRecords DEF Compare, Went, ListPCs, Listing, listVars
  <2>6. gotinum'[t] = Entries(d)[n].inum
    BY <1>1, <2>1 DEF IInv, Types
  <2>7. ASSUME ~shared'[t], ~nomem[t], Ascii(name[t]),
               NEW k \in Positions(d), Entries(d)[k].name = name[t]
        PROVE  gotinum'[t] = Entries(d)[k].inum
    <3>1. ~Sharing(t) /\ ~shared[t]
      BY <2>1, <2>7 DEF Went
    <3>2. Agrees(Entries(d)[n].utf8, name[t])
      BY <1>1, <1>4, <1>7, <3>1 DEF Matches
    <3>3. \A j \in 1 .. n - 1 : ~Agrees(Entries(d)[j].utf8, name[t])
      BY <1>5, <2>7, <3>1
    <3> HIDE DEF d
    <3>4. k = n
      BY <1>1, <2>7, <3>2, <3>3, FirstMatch
    <3> QED BY <2>6, <3>4
  <2>8. Result(t)'
    BY <1>0, <1>1, <1>2, <2>1, <2>6, <2>7 DEF Result, Went
  <2> QED BY <2>2, <2>3, <2>4, <2>5, <2>8 DEF Kept, Local
<1>8. CASE ~Matches(t, b)
  <2>0. gotinum' = [gotinum EXCEPT ![t] = -1] /\ NextEntry(t)
    BY <1>3, <1>8 DEF Mismatch
  <2> DEFINE P == /\ leaf' \in [Thread -> Nat] /\ i' \in [Thread -> Nat]
                  /\ \A u \in Thread \ {t} : leaf'[u] = leaf[u] /\ i'[u] = i[u]
  <2>1. P /\ \/ Went(t, "clear") /\ InLeaf(t)' /\ Index(t)' = n + 1
             \/ Went(t, "load") /\ n = Len(Entries(d))
    BY <1>0, <1>2, <2>0, NextEntryGoes DEF Scanning, n
  <2>2. PICK label \in {"clear", "load"} :
          /\ Went(t, label)
          /\ label = "clear" => InLeaf(t)' /\ Index(t)' = n + 1
          /\ label = "load" => n = Len(Entries(d))
    BY <2>1
  <2>3. Types'
    <3>1. -1 \in Nat \cup {-1, Garbage}
      OBVIOUS
    <3>2. gotinum' \in [Thread -> Nat \cup {-1, Garbage}]
      BY <2>0, <3>1 DEF IInv, Types
    <3> QED BY <2>1, <2>2, <3>2 DEF IInv, Types, Compare, listVars, Went
  <2>4. Others(t)
    BY <2>0, <2>1, <2>2 DEF IInv, Types, Compare, listVars, Went, Others, Same
  <2>5. Walk(t)'
    BY <2>2 DEF Walk, Went, Buffering, Listing
  <2>6. Records(t)'
    BY <1>0, <2>2, LookupRecords DEF Compare, Went, ListPCs, Listing, listVars
  <2>7. ASSUME ~shared'[t], ~nomem[t]
        PROVE  \A k \in 1 .. n : ~Agrees(Entries(d)[k].utf8, name[t])
    <3>1. ~Sharing(t) /\ ~shared[t]
      BY <2>2, <2>7 DEF Went
    <3>2. ~Agrees(Entries(d)[n].utf8, name[t])
      BY <1>1, <1>4, <1>8, <3>1 DEF Matches
    <3>3. \A j \in 1 .. n - 1 : ~Agrees(Entries(d)[j].utf8, name[t])
      BY <1>5, <2>7, <3>1
    <3> QED BY <1>6, <3>2, <3>3
  <2>8. Scan(t)'
    <3>1. CASE label = "clear"
      <4>1. Index(t)' - 1 = n
        BY <1>6, <2>2, <3>1
      <4> QED BY <1>2, <2>2, <2>7, <3>1, <4>1 DEF Scan, Went
    <3>2. CASE label = "load"
      BY <2>2, <3>2 DEF Scan, Went, Scanning
    <3> QED BY <3>1, <3>2
  <2>9. Result(t)'
    <3>1. gotinum'[t] = -1
      BY <2>0 DEF IInv, Types
    <3>2. CASE label = "clear"
      BY <1>0, <1>2, <2>2, <3>1, <3>2 DEF Result, Went, Scanned
    <3>3. CASE label = "load"
      <4>1. ASSUME ~shared'[t], ~nomem[t], Ascii(name[t]), NEW k \in Positions(d)
            PROVE  Entries(d)[k].name # name[t]
        <5>1. k \in 1 .. n
          BY <2>2, <3>3 DEF Positions
        <5> QED BY <1>1, <2>7, <4>1, <5>1, AgreesSelf
      <4> QED BY <1>0, <1>2, <2>2, <3>1, <3>3, <4>1 DEF Result, Went
    <3> QED BY <3>2, <3>3
  <2> QED BY <2>3, <2>4, <2>5, <2>6, <2>8, <2>9 DEF Kept, Local
<1> QED BY <1>7, <1>8

LEMMA LoadInodeKeeps ==
  ASSUME IInv, NEW t \in Thread, LoadInode(t)
  PROVE  Kept(t)
<1>0. pc[t] = "load" /\ Local(t)
  BY DEF IInv, LoadInode
<1>1. Went(t, "found")
  BY GotoWent DEF LoadInode, PCs
<1>2. PICK lookup \in {"ok", "EIO"} :
        err' = [err EXCEPT ![t] =
                  CASE ~Dotted(name[t]) /\ gotinum[t] = -1 -> "ENOENT"
                    [] name[t] = DotDot                    -> "EAGAIN"
                    [] name[t] = Dot                       -> "ok"
                    [] OTHER                               -> lookup]
  BY DEF LoadInode
<1>3. DotDot # Dot
  BY DEF Dot, DotDot
<1>4. Dotted(DotDot) /\ Dotted(Dot)
  BY DEF Dotted, Dot, DotDot
<1>5. /\ err' \in [Thread -> {"ok", "ENOENT", "EAGAIN", "EIO"}]
      /\ \A u \in Thread \ {t} : err'[u] = err[u]
      /\ err'[t] = "ENOENT" <=> ~Dotted(name[t]) /\ gotinum[t] = -1
  <2> DEFINE e == CASE ~Dotted(name[t]) /\ gotinum[t] = -1 -> "ENOENT"
                    [] name[t] = DotDot                    -> "EAGAIN"
                    [] name[t] = Dot                       -> "ok"
                    [] OTHER                               -> lookup
  <2>1. e \in {"ok", "ENOENT", "EAGAIN", "EIO"} /\ (e = "ENOENT" <=> ~Dotted(name[t]) /\ gotinum[t] = -1)
    <3>1. CASE ~Dotted(name[t]) /\ gotinum[t] = -1
      BY <1>4, <3>1
    <3>2. CASE ~(~Dotted(name[t]) /\ gotinum[t] = -1)
      BY <1>2, <1>3, <3>2
    <3> QED BY <3>1, <3>2
  <2>2. err' = [err EXCEPT ![t] = e] /\ err \in [Thread -> {"ok", "ENOENT", "EAGAIN", "EIO"}]
    BY <1>2 DEF IInv, Types
  <2> HIDE DEF e
  <2> QED BY <2>1, <2>2
<1>6. Types'
  BY <1>1, <1>5 DEF IInv, Types, LoadInode, listVars, Went
<1>7. Others(t)
  BY <1>1, <1>5 DEF IInv, Types, LoadInode, listVars, Went, Others, Same
<1>8. Scan(t)' /\ Walk(t)'
  BY <1>1, NotWalking DEF Went, Buffering, Scan, Scanning
<1>9. Records(t)'
  BY <1>0, <1>1, LookupRecords DEF LoadInode, Went, ListPCs, Listing, listVars
<1>10. Result(t)'
  <2>1. dp' = dp /\ name' = name /\ gotinum' = gotinum /\ nomem' = nomem
    BY DEF LoadInode
  <2>2. ~shared'[t] => ~shared[t]
    BY <1>1 DEF Went
  <2>3. err'[t] = "ENOENT" <=> ~Dotted(name[t]) /\ gotinum[t] = -1
    BY <1>5
  <2>4. pc[t] \in Scanned /\ pc'[t] = "found"
    BY <1>0, <1>1 DEF Scanned, Went
  <2> QED BY <1>0, <2>1, <2>2, <2>3, <2>4 DEF Local, Result, Scanned
<1> QED BY <1>6, <1>7, <1>8, <1>9, <1>10 DEF Kept, Local

LEMMA LoadDotDotKeeps ==
  ASSUME IInv, NEW t \in Thread, LoadDotDot(t)
  PROVE  Kept(t)
<1>0. pc[t] = "load" /\ Local(t) /\ name[t] = DotDot
  BY DEF IInv, LoadDotDot
<1>1. PICK label \in {"nput", "relock"} : Went(t, label)
  BY GotoWent DEF LoadDotDot, PCs
<1>2. Types'
  BY <1>1 DEF IInv, Types, LoadDotDot, listVars, lookupVars, Went
<1>3. Others(t)
  BY <1>1 DEF IInv, Types, LoadDotDot, listVars, lookupVars, Went, Others, Same
<1>4. Scan(t)' /\ Walk(t)'
  BY <1>1, NotWalking DEF Went, Buffering, Scan, Scanning
<1>5. Records(t)'
  BY <1>0, <1>1, LookupRecords DEF LoadDotDot, Went, ListPCs, Listing, listVars
<1>6. Result(t)'
  BY <1>0, <1>1 DEF Local, Result, Scanned, Went, LoadDotDot, lookupVars
<1> QED BY <1>2, <1>3, <1>4, <1>5, <1>6 DEF Kept, Local

LEMMA RelockKeeps ==
  ASSUME IInv, NEW t \in Thread, Relock(t)
  PROVE  Kept(t)
<1>0. pc[t] = "relock" /\ Local(t) /\ err[t] = "ok"
  BY StillOk DEF IInv, Relock
<1>1. Went(t, "found")
  BY GotoWent DEF Relock, PCs
<1>2. Types'
  BY <1>1 DEF IInv, Types, Relock, listVars, lookupVars, Went
<1>3. Others(t)
  BY <1>1 DEF IInv, Types, Relock, listVars, lookupVars, Went, Others, Same
<1>4. Scan(t)' /\ Walk(t)'
  BY <1>1, NotWalking DEF Went, Buffering, Scan, Scanning
<1>5. Records(t)'
  BY <1>0, <1>1, LookupRecords DEF Relock, Went, ListPCs, Listing, listVars
<1>6. Dotted(name[t])
  BY <1>0 DEF Local, Result, Dotted, DotDot
<1>7. Result(t)'
  BY <1>0, <1>1, <1>6 DEF Local, Result, Scanned, Went, Relock, lookupVars
<1> QED BY <1>2, <1>3, <1>4, <1>5, <1>7 DEF Kept, Local

-----------------------------------------------------------------------------
(* Listings.                                                                *)

LEMMA GetDirectsKeeps ==
  ASSUME IInv, NEW t \in Thread, NEW d \in Dir, NEW entry \in 0 .. Len(Entries(d)),
         GetDirects(t, d, entry)
  PROVE  Kept(t)
<1>0. pc[t] = "idle" /\ err[t] = "ok" /\ entry \in Nat
  BY StillOk, EntriesType DEF GetDirects
<1>1. Went(t, "walk")
  BY GotoWent DEF GetDirects, PCs
<1>2. Types'
  <2>1. <<>> \in Seq(Rec)
    BY EmptySeq
  <2>2. recs' \in [Thread -> Seq(Rec)]
    BY <2>1 DEF IInv, Types, GetDirects
  <2> QED BY <1>0, <1>1, <2>2 DEF IInv, Types, GetDirects, lookupVars, Went
<1>3. Others(t)
  BY <1>1 DEF IInv, Types, GetDirects, lookupVars, Went, Others, Same
<1>4. /\ dp'[t] = d /\ leaf'[t] = 1 /\ cpos'[t] = 0 /\ pos'[t] = entry
      /\ recs'[t] = <<>> /\ amt'[t] = 0 /\ cnt'[t] = 0 /\ err'[t] = "ok"
  BY <1>0 DEF IInv, Types, GetDirects, lookupVars
<1>5. Scan(t)' /\ Result(t)'
  BY <1>1, <1>4, NotLookup DEF Went, ListPCs
<1>6. Walk(t)'
  <2>1. 1 \in 1 .. Len(Leaves[d])
    BY LeavesType
  <2>2. Upto(d)[0] = <<>>
    BY UptoIs
  <2>3. Len(Upto(d)[1 - 1]) = 0
    BY <2>2
  <2> QED BY <1>0, <1>1, <1>4, <2>1, <2>3 DEF Walk, Went, Buffering, Listing
<1>7. Records(t)'
  BY <1>1, <1>4, NoRecords DEF Went
<1> QED BY <1>2, <1>3, <1>5, <1>6, <1>7 DEF Kept, Local

(* At the walk, the leaf in hand. *)
LEMMA WalkingLeaf ==
  ASSUME IInv, NEW t \in Thread, pc[t] = "walk"
  PROVE  /\ dp[t] \in Dir /\ leaf[t] \in 1 .. Len(Leaves[dp[t]]) /\ Len(Leaves[dp[t]]) \in Nat
         /\ cpos[t] = Len(Upto(dp[t])[leaf[t] - 1]) /\ cpos[t] <= pos[t]
         /\ cpos[t] \in Nat /\ pos[t] \in Nat
         /\ Len(Leaves[dp[t]][leaf[t]]) \in Nat
         /\ Len(Upto(dp[t])[leaf[t]]) = cpos[t] + Len(Leaves[dp[t]][leaf[t]])
<1>1. dp[t] \in Dir /\ cpos[t] \in Nat /\ pos[t] \in Nat
  BY DEF IInv, Types
<1>2. /\ leaf[t] \in 1 .. Len(Leaves[dp[t]])
      /\ cpos[t] = Len(Upto(dp[t])[leaf[t] - 1]) /\ cpos[t] <= pos[t]
  BY DEF IInv, Local, Walk
<1>3. Len(Leaves[dp[t]]) \in Nat
  BY <1>1, LeavesType
<1>4. /\ Len(Leaves[dp[t]][leaf[t]]) \in Nat
      /\ Len(Upto(dp[t])[leaf[t]]) = Len(Upto(dp[t])[leaf[t] - 1]) + Len(Leaves[dp[t]][leaf[t]])
  BY <1>1, <1>2, UptoStep
<1> QED BY <1>1, <1>2, <1>3, <1>4

(* The end of a listing: *datacnt covers all records. *)
LEMMA ListedRecords ==
  ASSUME IInv, NEW t \in Thread, pc[t] = "walk", pc'[t] = "listed",
         cnt'[t] = Len(recs[t]), recs'[t] = recs[t], amt'[t] = amt[t], pos'[t] = pos[t],
         dp'[t] = dp[t], ~nomem'[t] => ~nomem[t] /\ pos[t] >= Len(Entries(dp[t]))
  PROVE  Records(t)'
<1>1. Records(t) /\ recs[t] \in Seq(Rec) /\ pos[t] \in Nat
  BY DEF IInv, Types, Local
<1>2. amt[t] = Len(recs[t]) /\ Len(recs[t]) \in Nat /\ amt[t] < MaxEntries /\ MaxEntries \in Nat
  BY <1>1, DirAssumption DEF Records
<1>3. amt'[t] = Len(recs'[t]) /\ amt'[t] <= MaxEntries /\ cnt'[t] <= amt'[t]
  BY <1>2
<1>4. ~nomem'[t] => \A k \in 1 .. Len(recs'[t]) :
        LET n == pos'[t] - Len(recs'[t]) + k
        IN  n \in Positions(dp'[t]) /\ recs'[t][k].inum = Entries(dp'[t])[n].inum
  BY <1>1 DEF Records
<1>5. cnt'[t] = 0 /\ ~nomem'[t] => pos'[t] - Len(recs'[t]) >= Len(Entries(dp'[t]))
  BY <1>1, <1>2
<1> QED BY <1>3, <1>4, <1>5 DEF Records

LEMMA ListEndKeeps ==
  ASSUME IInv, NEW t \in Thread, ListEnd(t)
  PROVE  Kept(t)
<1>0. /\ pc[t] = "walk" /\ err[t] = "ok" /\ Len(recs[t]) \in Nat
      /\ leaf[t] = Len(Leaves[dp[t]]) /\ Behind(t)
  BY StillOk DEF ListEnd, IInv, Types
<1>1. Went(t, "listed")
  BY GotoWent DEF ListEnd, PCs
<1>2. Types'
  BY <1>0, <1>1 DEF IInv, Types, ListEnd, lookupVars, Went
<1>3. Others(t)
  BY <1>1 DEF IInv, Types, ListEnd, lookupVars, Went, Others, Same
<1>4. Scan(t)' /\ Result(t)' /\ Walk(t)'
  BY <1>0, <1>1, NotLookup, NotWalking DEF Went, ListPCs, Buffering, ListEnd, lookupVars
<1>5. pos[t] >= Len(Entries(dp[t]))
  <2> DEFINE m == Len(Leaves[dp[t]][leaf[t]])
  <2>1. m \in Nat /\ cpos[t] \in Nat /\ pos[t] \in Nat /\ Len(Upto(dp[t])[leaf[t]]) = cpos[t] + m
    BY <1>0, WalkingLeaf
  <2>2. pos[t] - cpos[t] >= m
    BY <1>0 DEF Behind
  <2>3. Len(Entries(dp[t])) = cpos[t] + m
    BY <1>0, <2>1 DEF Entries
  <2> HIDE DEF m
  <2> QED BY <2>1, <2>2, <2>3
<1>6. Records(t)'
  <2>1. cnt'[t] = Len(recs[t]) /\ recs' = recs /\ amt' = amt /\ pos' = pos /\ dp' = dp /\ nomem' = nomem
    BY DEF ListEnd, IInv, Types
  <2> QED BY <1>0, <1>1, <1>5, <2>1, ListedRecords DEF Went
<1> QED BY <1>2, <1>3, <1>4, <1>6 DEF Kept, Local

LEMMA ListNoMemoryKeeps ==
  ASSUME IInv, NEW t \in Thread, ListNoMemory(t)
  PROVE  Kept(t)
<1>0. pc[t] = "walk" /\ err[t] = "ok" /\ Len(recs[t]) \in Nat
  BY StillOk DEF ListNoMemory, IInv, Types
<1>1. Went(t, "listed")
  BY GotoWent DEF ListNoMemory, PCs
<1>2. Types'
  BY <1>0, <1>1 DEF IInv, Types, ListNoMemory, lookupVars, Went, MallocFails
<1>3. Others(t)
  BY <1>1 DEF IInv, Types, ListNoMemory, lookupVars, Went, Others, Same, MallocFails
<1>4. Scan(t)' /\ Result(t)' /\ Walk(t)'
  BY <1>0, <1>1, NotLookup, NotWalking DEF Went, ListPCs, Buffering, ListNoMemory, lookupVars
<1>5. Records(t)'
  <2>1. /\ cnt'[t] = Len(recs[t]) /\ recs' = recs /\ amt' = amt /\ pos' = pos /\ dp' = dp
        /\ nomem'[t] = TRUE
    BY DEF ListNoMemory, IInv, Types, MallocFails
  <2> QED BY <1>0, <1>1, <2>1, ListedRecords DEF Went
<1> QED BY <1>2, <1>3, <1>4, <1>5 DEF Kept, Local

LEMMA WalkLeafKeeps ==
  ASSUME IInv, NEW t \in Thread, WalkLeaf(t)
  PROVE  Kept(t)
<1> DEFINE d == dp[t]
           l == leaf[t]
           m == Len(Leaves[d][l])
           L == Len(Leaves[d])
<1>0. pc[t] = "walk" /\ err[t] = "ok" /\ l < L /\ pos[t] - cpos[t] >= m
  BY StillOk DEF WalkLeaf, Behind
<1>1. /\ d \in Dir /\ l \in 1 .. L /\ L \in Nat /\ cpos[t] \in Nat /\ pos[t] \in Nat /\ m \in Nat
      /\ Len(Upto(d)[l]) = cpos[t] + m
  BY <1>0, WalkingLeaf
<1>2. Went(t, "walk")
  BY GotoWent DEF WalkLeaf, PCs
<1>3. /\ cpos' = [cpos EXCEPT ![t] = cpos[t] + m]
      /\ leaf' = [leaf EXCEPT ![t] = l + 1]
  BY DEF WalkLeaf
<1>4. cpos[t] + m \in Nat /\ l + 1 \in Nat /\ l + 1 \in 1 .. L /\ (l + 1) - 1 = l /\ cpos[t] + m <= pos[t]
  <2> HIDE DEF d, l, m, L
  <2> QED BY <1>0, <1>1
<1>5. /\ cpos' \in [Thread -> Nat] /\ leaf' \in [Thread -> Nat]
      /\ cpos'[t] = cpos[t] + m /\ leaf'[t] = l + 1
      /\ \A u \in Thread \ {t} : cpos'[u] = cpos[u] /\ leaf'[u] = leaf[u]
  <2> HIDE DEF m, l
  <2> QED BY <1>3, <1>4 DEF IInv, Types
<1>6. Types'
  BY <1>2, <1>5 DEF IInv, Types, WalkLeaf, lookupVars, Went
<1>7. Others(t)
  BY <1>2, <1>5 DEF IInv, Types, WalkLeaf, lookupVars, Went, Others, Same
<1>8. Scan(t)' /\ Result(t)'
  BY <1>0, <1>2, NotLookup DEF Went, ListPCs, WalkLeaf, lookupVars
<1>9. Walk(t)'
  <2>1. dp'[t] = d /\ pos'[t] = pos[t]
    BY DEF WalkLeaf
  <2>2. /\ leaf'[t] \in 1 .. Len(Leaves[dp'[t]])
        /\ cpos'[t] = Len(Upto(dp'[t])[leaf'[t] - 1])
        /\ cpos'[t] <= pos'[t]
    <3> HIDE DEF d, l, m
    <3> QED BY <1>1, <1>4, <1>5, <2>1
  <2> QED BY <1>2, <2>2 DEF Walk, Went, Buffering, Listing
<1>10. Records(t)'
  BY <1>0, <1>2, ListRecords DEF WalkLeaf, Went, ListPCs
<1> QED BY <1>6, <1>7, <1>8, <1>9, <1>10 DEF Kept, Local

LEMMA WalkFoundKeeps ==
  ASSUME IInv, NEW t \in Thread, WalkFound(t)
  PROVE  Kept(t)
<1> DEFINE d == dp[t]
           l == leaf[t]
           m == Len(Leaves[d][l])
           n == pos[t] - cpos[t] + 1
<1>0. pc[t] = "walk" /\ err[t] = "ok" /\ ~(pos[t] - cpos[t] >= m)
  BY StillOk DEF WalkFound, Behind
<1>1. /\ d \in Dir /\ l \in 1 .. Len(Leaves[d]) /\ cpos[t] \in Nat /\ pos[t] \in Nat /\ m \in Nat
      /\ cpos[t] = Len(Upto(d)[l - 1]) /\ cpos[t] <= pos[t]
  BY <1>0, WalkingLeaf
<1>2. Went(t, "listclear")
  BY GotoWent DEF WalkFound, PCs
<1>3. n \in Nat /\ n \in 1 .. m /\ cpos[t] + n = pos[t] + 1
  <2>1. pos[t] \in Nat /\ cpos[t] \in Nat /\ m \in Nat /\ cpos[t] <= pos[t]
    BY <1>1
  <2>2. ~(pos[t] - cpos[t] >= m)
    BY <1>0
  <2> HIDE DEF m
  <2> QED BY <2>1, <2>2
<1>4. i' \in [Thread -> Nat] /\ i'[t] = n /\ \A u \in Thread \ {t} : i'[u] = i[u]
  <2>1. i' = [i EXCEPT ![t] = n]
    BY DEF WalkFound
  <2> HIDE DEF n
  <2> QED BY <1>3, <2>1 DEF IInv, Types
<1> HIDE DEF n
<1>6. Types'
  BY <1>2, <1>4 DEF IInv, Types, WalkFound, listVars, lookupVars, Went
<1>7. Others(t)
  BY <1>2, <1>4 DEF IInv, Types, WalkFound, listVars, lookupVars, Went, Others, Same
<1>8. Scan(t)' /\ Result(t)'
  BY <1>0, <1>2, NotLookup DEF Went, ListPCs, Listing, WalkFound, lookupVars
<1>9. Walk(t)'
  <2>1. dp'[t] = d /\ leaf'[t] = l /\ pos'[t] = pos[t]
    BY DEF WalkFound, listVars
  <2>2. InLeaf(t)'
    <3> HIDE DEF d, l
    <3> QED BY <1>1, <1>3, <1>4, <2>1 DEF InLeaf
  <2>3. Index(t)' = pos'[t] + 1
    <3>1. Index(t)' = Len(Upto(d)[l - 1]) + n
      BY <1>4, <2>1 DEF Index
    <3> QED BY <1>1, <1>3, <2>1, <3>1
  <2> QED BY <1>2, <2>2, <2>3 DEF Walk, Went
<1>10. Records(t)'
  BY <1>0, <1>2, ListRecords DEF WalkFound, Went, ListPCs, Listing, listVars
<1> QED BY <1>6, <1>7, <1>8, <1>9, <1>10 DEF Kept, Local

LEMMA ListClearKeeps ==
  ASSUME IInv, NEW t \in Thread, ListClear(t)
  PROVE  Kept(t)
<1>0. pc[t] = "listclear" /\ err[t] = "ok" /\ Local(t)
  BY StillOk DEF IInv, ListClear
<1>1. Went(t, "listconvert")
  BY GotoWent DEF ListClear, PCs
<1>2. Bytes(utf8')
  BY DEF ListClear, Blank, Bytes
<1>3. Types'
  BY <1>1, <1>2 DEF IInv, Types, ListClear, listVars, lookupVars, Went
<1>4. Others(t)
  BY <1>1 DEF IInv, Types, ListClear, listVars, lookupVars, Went, Others, Same
<1>5. Scan(t)' /\ Result(t)'
  BY <1>0, <1>1, NotLookup DEF Went, ListPCs, Listing, ListClear, lookupVars
<1>6. Walk(t)'
  BY <1>0, <1>1 DEF Local, Walk, Went, Buffering, Listing, ListClear, InLeaf, Index, listVars
<1>7. Records(t)'
  BY <1>0, <1>1, ListRecords DEF ListClear, Went, ListPCs, Listing, listVars
<1> QED BY <1>3, <1>4, <1>5, <1>6, <1>7 DEF Kept, Local

LEMMA ListConvertKeeps ==
  ASSUME IInv, NEW t \in Thread, ListConvert(t)
  PROVE  Kept(t)
<1>0. pc[t] = "listconvert" /\ err[t] = "ok" /\ Local(t) /\ pc[t] \in Buffering
  BY StillOk DEF IInv, ListConvert, Buffering
<1>1. Went(t, "copy")
  BY GotoWent DEF ListConvert, PCs
<1>2. Bytes(utf8')
  BY <1>0, RacyBytes DEF ListConvert
<1>3. Types'
  BY <1>1, <1>2 DEF IInv, Types, ListConvert, listVars, lookupVars, Went
<1>4. Others(t)
  BY <1>1 DEF IInv, Types, ListConvert, listVars, lookupVars, Went, Others, Same
<1>5. Scan(t)' /\ Result(t)'
  BY <1>0, <1>1, NotLookup DEF Went, ListPCs, Listing, ListConvert, lookupVars
<1>6. Walk(t)'
  BY <1>0, <1>1 DEF Local, Walk, Went, Buffering, Listing, ListConvert, InLeaf, Index, listVars
<1>7. Records(t)'
  BY <1>0, <1>1, ListRecords DEF ListConvert, Went, ListPCs, Listing, listVars
<1> QED BY <1>3, <1>4, <1>5, <1>6, <1>7 DEF Kept, Local

(* One record more; unless it is for lack of memory it is that of the entry  *)
(* at pos.                                                                   *)
LEMMA AddRecordKeeps ==
  ASSUME IInv, NEW t \in Thread, pc[t] \in Listing, NEW r \in Rec, AddRecord(t, r),
         UNCHANGED <<utf8, dp, i, lookupVars>>,
         nomem' \in [Thread -> BOOLEAN], \A u \in Thread \ {t} : nomem'[u] = nomem[u],
         ~nomem'[t] => ~nomem[t] /\ r.inum = Current(t).inum
  PROVE  Kept(t)
<1> DEFINE d == dp[t]
           q == recs[t]
           p == pos[t]
<1>0. /\ err[t] = "ok" /\ Records(t) /\ pc[t] \in Buffering /\ Walk(t)
      /\ d \in Dir /\ q \in Seq(Rec) /\ p \in Nat /\ pc[t] \notin {"found", "listed"}
  BY StillOk DEF IInv, Local, Types, Listing, Buffering
<1>1. /\ amt[t] = Len(q) /\ Len(q) \in Nat /\ Len(q) < MaxEntries /\ MaxEntries \in Nat /\ MaxEntries > 1
      /\ cnt[t] = 0
  BY <1>0, DirAssumption DEF Records
<1>2. p + 1 \in Positions(d) /\ Current(t) = Entries(d)[p + 1]
  <2>1. Index(t) = p + 1
    BY <1>0 DEF Walk
  <2> QED BY <1>0, <2>1, CurrentEntry
<1>3. PICK label \in {"walk", "listed"} :
        /\ Went(t, label)
        /\ label = "listed" => cnt' = [cnt EXCEPT ![t] = Len(q)] /\ Len(q) + 1 >= MaxEntries
        /\ label = "walk" => cnt' = cnt /\ Len(q) + 1 < MaxEntries
  <2>1. CASE Full(t)
    BY <1>1, <2>1, GotoWent DEF AddRecord, Full, PCs
  <2>2. CASE ~Full(t)
    <3>1. cnt' = cnt /\ Went(t, "walk")
      BY <2>2, GotoWent DEF AddRecord, PCs
    <3>2. ~(Len(q) + 1 >= MaxEntries)
      BY <1>1, <2>2 DEF Full
    <3>3. Len(q) + 1 < MaxEntries
      <4> HIDE DEF q
      <4> QED BY <1>1, <3>2
    <3> QED BY <3>1, <3>3
  <2> QED BY <2>1, <2>2
<1>4. Append(q, r) \in Seq(Rec) /\ Len(Append(q, r)) = Len(q) + 1
      /\ (\A k \in 1 .. Len(q) : Append(q, r)[k] = q[k]) /\ Append(q, r)[Len(q) + 1] = r
  <2> HIDE DEF q
  <2> QED BY <1>0, <1>1
<1>5. /\ recs' = [recs EXCEPT ![t] = Append(q, r)]
      /\ amt' = [amt EXCEPT ![t] = amt[t] + 1]
      /\ pos' = [pos EXCEPT ![t] = p + 1]
      /\ leaf' = [leaf EXCEPT ![t] = 1]
      /\ cpos' = [cpos EXCEPT ![t] = 0]
  BY DEF AddRecord, NextPos
<1>6. /\ recs' \in [Thread -> Seq(Rec)] /\ amt' \in [Thread -> Nat] /\ pos' \in [Thread -> Nat]
      /\ leaf' \in [Thread -> Nat] /\ cpos' \in [Thread -> Nat]
      /\ cnt' \in [Thread -> Nat]
      /\ recs'[t] = Append(q, r) /\ amt'[t] = Len(q) + 1 /\ pos'[t] = p + 1
      /\ leaf'[t] = 1 /\ cpos'[t] = 0
      /\ cnt'[t] = IF label = "listed" THEN Len(q) ELSE 0
      /\ \A u \in Thread \ {t} : /\ recs'[u] = recs[u] /\ amt'[u] = amt[u] /\ pos'[u] = pos[u]
                                 /\ leaf'[u] = leaf[u] /\ cpos'[u] = cpos[u] /\ cnt'[u] = cnt[u]
  <2>1. /\ recs \in [Thread -> Seq(Rec)] /\ amt \in [Thread -> Nat] /\ pos \in [Thread -> Nat]
        /\ leaf \in [Thread -> Nat] /\ cpos \in [Thread -> Nat] /\ cnt \in [Thread -> Nat]
    BY DEF IInv, Types
  <2> DEFINE n == Len(q)
             a == Append(q, r)
  <2>2. n \in Nat /\ a \in Seq(Rec) /\ p \in Nat /\ p + 1 \in Nat /\ n + 1 \in Nat /\ amt[t] = n
    BY <1>0, <1>1, <1>4
  <2>3. /\ recs' = [recs EXCEPT ![t] = a] /\ pos' = [pos EXCEPT ![t] = p + 1]
    BY <1>5
  <2>4. IF label = "listed" THEN cnt' = [cnt EXCEPT ![t] = n] ELSE cnt' = cnt
    BY <1>3
  <2> HIDE DEF n, a, p
  <2>5. recs' \in [Thread -> Seq(Rec)] /\ recs'[t] = a /\ \A u \in Thread \ {t} : recs'[u] = recs[u]
    BY <2>1, <2>2, <2>3
  <2>6. /\ amt' \in [Thread -> Nat] /\ pos' \in [Thread -> Nat]
        /\ leaf' \in [Thread -> Nat] /\ cpos' \in [Thread -> Nat]
        /\ amt'[t] = n + 1 /\ pos'[t] = p + 1 /\ leaf'[t] = 1 /\ cpos'[t] = 0
        /\ \A u \in Thread \ {t} : /\ amt'[u] = amt[u] /\ pos'[u] = pos[u]
                                   /\ leaf'[u] = leaf[u] /\ cpos'[u] = cpos[u]
    BY <1>5, <2>1, <2>2, <2>3
  <2>7. /\ cnt' \in [Thread -> Nat] /\ cnt'[t] = IF label = "listed" THEN n ELSE 0
        /\ \A u \in Thread \ {t} : cnt'[u] = cnt[u]
    BY <1>1, <2>1, <2>2, <2>4
  <2> QED BY <2>5, <2>6, <2>7 DEF n, a
<1>7. Types'
  BY <1>3, <1>6 DEF IInv, Types, lookupVars, Went
<1>8. Others(t)
  BY <1>3, <1>6 DEF IInv, Types, lookupVars, Went, Others, Same
<1>9. Scan(t)' /\ Result(t)'
  BY <1>0, <1>3, NotLookup DEF Went, ListPCs, lookupVars
<1>10. Walk(t)'
  <2>1. 1 \in 1 .. Len(Leaves[d])
    BY <1>0, LeavesType
  <2>2. Upto(d)[0] = <<>>
    BY <1>0, UptoIs
  <2>3. Len(Upto(d)[1 - 1]) = 0
    BY <2>2
  <2>4. dp'[t] = d
    OBVIOUS
  <2>5. 0 <= p + 1
    BY <1>0
  <2> HIDE DEF d, p
  <2>6. leaf'[t] \in 1 .. Len(Leaves[dp'[t]]) /\ cpos'[t] = Len(Upto(dp'[t])[leaf'[t] - 1]) /\ cpos'[t] <= pos'[t]
    BY <1>6, <2>1, <2>3, <2>4, <2>5
  <2> QED BY <1>3, <2>6 DEF Walk, Went, Buffering, Listing
<1>11. Records(t)'
  <2> DEFINE n == Len(q)
             a == Append(q, r)
  <2>1. ASSUME ~nomem'[t], NEW k \in 1 .. n + 1
        PROVE  (p + 1) - (n + 1) + k \in Positions(d) /\ a[k].inum = Entries(d)[(p + 1) - (n + 1) + k].inum
    <3>1. CASE k = n + 1
      <4>1. (p + 1) - (n + 1) + k = p + 1
        BY <1>0, <1>1, <3>1
      <4>2. a[k] = r
        BY <1>4, <3>1
      <4> HIDE DEF p, n, d, a
      <4> QED BY <1>2, <2>1, <4>1, <4>2
    <3>2. CASE k # n + 1
      <4>1. (p + 1) - (n + 1) + k = p - n + k /\ k \in 1 .. n
        <5>1. p \in Nat /\ n \in Nat
          BY <1>0, <1>1
        <5> HIDE DEF p, n
        <5> QED BY <3>2, <5>1
      <4>2. p - n + k \in Positions(d) /\ q[k].inum = Entries(d)[p - n + k].inum
        BY <1>0, <2>1, <4>1 DEF Records
      <4>3. a[k] = q[k]
        BY <1>4, <4>1
      <4> HIDE DEF p, n, d, a, q
      <4> QED BY <4>1, <4>2, <4>3
    <3> QED BY <3>1, <3>2
  <2>2. recs'[t] = a /\ Len(a) = n + 1 /\ amt'[t] = n + 1 /\ pos'[t] = p + 1 /\ dp'[t] = d
    BY <1>4, <1>6
  <2>3. /\ n \in Nat /\ n < MaxEntries /\ MaxEntries \in Nat /\ MaxEntries > 1
        /\ pc'[t] = "listed" => cnt'[t] = n /\ n + 1 >= MaxEntries
        /\ pc'[t] # "listed" => pc'[t] = "walk" /\ cnt'[t] = 0 /\ n + 1 < MaxEntries
    BY <1>1, <1>3, <1>6 DEF Went
  <2> HIDE DEF n, a, p, d, q
  <2>4. amt'[t] = Len(recs'[t]) /\ amt'[t] <= MaxEntries /\ cnt'[t] <= amt'[t]
    BY <2>2, <2>3
  <2>5. pc'[t] # "listed" => amt'[t] < MaxEntries /\ cnt'[t] = 0
    BY <2>2, <2>3
  <2>6. pc'[t] = "listed" => cnt'[t] # 0
    BY <2>3
  <2>7. pc'[t] \in {"walk", "listed"} \cup Listing
    BY <2>3
  <2>8. ~nomem'[t] => \A k \in 1 .. Len(recs'[t]) :
          LET m == pos'[t] - Len(recs'[t]) + k
          IN  m \in Positions(dp'[t]) /\ recs'[t][k].inum = Entries(dp'[t])[m].inum
    BY <2>1, <2>2
  <2> QED BY <2>4, <2>5, <2>6, <2>7, <2>8 DEF Records
<1> QED BY <1>7, <1>8, <1>9, <1>10, <1>11 DEF Kept, Local

LEMMA CopyKeeps ==
  ASSUME IInv, NEW t \in Thread, Copy(t)
  PROVE  Kept(t)
<1>1. pc[t] \in Listing /\ Current(t).inum \in Nat
  BY CurrentEntry DEF Copy, Listing, Buffering
<1>2. PICK b \in Racy(t, utf8) : AddRecord(t, Record(t, b))
  BY DEF Copy
<1>3. Record(t, b) \in Rec /\ Record(t, b).inum = Current(t).inum
  <2>1. StartsWith(b, Current(t).name) \in BOOLEAN
    BY DEF StartsWith
  <2> QED BY <1>1, <2>1 DEF Record, Rec
<1>4. UNCHANGED <<utf8, dp, i, lookupVars>> /\ nomem' = nomem /\ nomem \in [Thread -> BOOLEAN]
  BY DEF Copy, IInv, Types
<1> QED BY <1>1, <1>2, <1>3, <1>4, AddRecordKeeps

LEMMA NameNoMemoryKeeps ==
  ASSUME IInv, NEW t \in Thread, NameNoMemory(t)
  PROVE  Kept(t)
<1> DEFINE x == IF recs[t] = <<>> THEN Garbage ELSE recs[t][Len(recs[t])].inum
           r == [named |-> FALSE, inum |-> x]
<1>1. pc[t] \in Listing /\ AddRecord(t, r)
  BY DEF NameNoMemory, Listing
<1>2. x \in Nat \cup {Garbage}
  <2>1. CASE recs[t] = <<>>
    BY <2>1
  <2>2. CASE recs[t] # <<>>
    <3>1. recs[t] \in Seq(Rec)
      BY DEF IInv, Types
    <3>2. Len(recs[t]) \in 1 .. Len(recs[t])
      BY <2>2, <3>1
    <3>3. recs[t][Len(recs[t])] \in Rec
      BY <3>1, <3>2
    <3> QED BY <2>2, <3>3 DEF Rec
  <2> QED BY <2>1, <2>2
<1>3. r \in Rec
  <2> HIDE DEF x
  <2> QED BY <1>2 DEF Rec
<1>4. /\ UNCHANGED <<utf8, dp, i, lookupVars>>
      /\ nomem' \in [Thread -> BOOLEAN] /\ nomem'[t] = TRUE
      /\ \A u \in Thread \ {t} : nomem'[u] = nomem[u]
  BY DEF NameNoMemory, MallocFails, IInv, Types
<1> HIDE DEF r
<1> QED BY <1>1, <1>3, <1>4, AddRecordKeeps

LEMMA ReturnKeeps ==
  ASSUME IInv, NEW t \in Thread, Return(t)
  PROVE  Kept(t)
<1>1. Went(t, "idle")
  BY GotoWent DEF Return, PCs
<1>2. Types'
  <2>1. <<>> \in Seq(Rec)
    BY EmptySeq
  <2>2. recs' \in [Thread -> Seq(Rec)]
    BY <2>1 DEF IInv, Types, Return
  <2>3. RootDir \in Dir
    BY DirAssumption
  <2> QED BY <1>1, <2>2, <2>3 DEF IInv, Types, Return, Went
<1>3. Others(t)
  BY <1>1 DEF IInv, Types, Return, Went, Others, Same
<1>4. recs'[t] = <<>> /\ amt'[t] = 0 /\ cnt'[t] = 0 /\ err'[t] = "ok"
  BY DEF IInv, Types, Return
<1>5. Scan(t)' /\ Result(t)' /\ Walk(t)'
  BY <1>1, <1>4, NotLookup, NotWalking DEF Went, Buffering
<1>6. Records(t)'
  BY <1>1, <1>4, NoRecords DEF Went
<1> QED BY <1>2, <1>3, <1>5, <1>6 DEF Kept, Local

-----------------------------------------------------------------------------
(* Putting it together.                                                     *)

LEMMA StepKeeps ==
  ASSUME IInv, NEW t \in Thread, Call(t) \/ Step(t)
  PROVE  Kept(t)
<1>1. CASE Call(t)
  BY <1>1, LookupHardKeeps, GetDirectsKeeps DEF Call
<1>2. CASE Step(t)
  BY <1>2, ScanStartKeeps, ScanNoMemoryKeeps, EntryNoMemoryKeeps, ClearKeeps, ConvertKeeps,
     CompareKeeps, LoadInodeKeeps, LoadDotDotKeeps, RelockKeeps, ListEndKeeps, ListNoMemoryKeeps,
     WalkLeafKeeps, WalkFoundKeeps, ListClearKeeps, ListConvertKeeps, CopyKeeps,
     NameNoMemoryKeeps, ReturnKeeps DEF Step
<1> QED BY <1>1, <1>2

(* Only a thread in the buffer changes it. *)
LEMMA BufferKept ==
  ASSUME NEW t \in Thread, Call(t) \/ Step(t)
  PROVE  utf8' = utf8 \/ pc[t] \in Buffering
<1>1. CASE Call(t)
  BY <1>1 DEF Call, LookupHard, GetDirects
<1>2. CASE Step(t)
  BY <1>2 DEF Step, Buffering, ScanStart, ScanNoMemory, EntryNoMemory, Clear, Convert, Compare,
     LoadInode, LoadDotDot, Relock, ListEnd, ListNoMemory, WalkLeaf, WalkFound, ListClear,
     ListConvert, Copy, NameNoMemory, Return
<1> QED BY <1>1, <1>2

LEMMA Stuttering == IInv /\ UNCHANGED vars => IInv'
<1> SUFFICES ASSUME IInv, UNCHANGED vars PROVE IInv'
  OBVIOUS
<1>1. Types'
  BY DEF IInv, Types, vars
<1>2. ASSUME NEW t \in Thread PROVE Local(t)'
  <2>1. Local(t)
    BY DEF IInv
  <2>2. Scan(t)'
    BY <2>1 DEF vars, Local, Scan, Index, Current
  <2>3. Result(t)'
    BY <2>1 DEF vars, Local, Result
  <2>4. Walk(t)'
    BY <2>1 DEF vars, Local, Walk, Index, InLeaf
  <2>5. Records(t)'
    BY <2>1 DEF vars, Local, Records
  <2> QED BY <2>2, <2>3, <2>4, <2>5 DEF Local
<1> QED BY <1>1, <1>2 DEF IInv

LEMMA Preserved == IInv /\ [Next]_vars => IInv'
<1>1. ASSUME IInv, Next PROVE IInv'
  <2>1. PICK t \in Thread : Call(t) \/ Step(t)
    BY <1>1 DEF Next
  <2>2. Types' /\ Local(t)' /\ Others(t)
    BY <1>1, <2>1, StepKeeps DEF Kept
  <2>3. ASSUME NEW u \in Thread PROVE Local(u)'
    <3>1. CASE u = t
      BY <2>2, <3>1
    <3>2. CASE u # t
      BY <1>1, <2>1, <2>2, <3>2, BufferKept, OtherThread DEF Others
    <3> QED BY <3>1, <3>2
  <2> QED BY <2>2, <2>3 DEF IInv
<1> QED BY <1>1, Stuttering

LEMMA Invariant == Spec => []IInv
BY Initially, Preserved, PTL DEF Spec

(***************************************************************************)
(* Whatever threads do, the buffer holds bytes of names and zeroes, and    *)
(* diskfs_get_directs never writes more than its MaxEntries records.       *)
(***************************************************************************)
THEOREM TypeCorrect == Spec => []TypeOK
BY Invariant, TypesOK, PTL

(***************************************************************************)
(* Directories of any shape: a lookup that has UTF8_Buffer for itself, and *)
(* memory, finds every ASCII name of the directory with its own inode,     *)
(* whatever the conversion makes of the other names. The order of names in *)
(* the tree is what makes up for the comparison of only namelen bytes, and *)
(* for names that lost characters.                                         *)
(***************************************************************************)
THEOREM NamesFound == Spec => []ExistingNameFound
<1>1. IInv => ExistingNameFound
  <2> SUFFICES ASSUME IInv, NEW t \in Thread, pc[t] = "found", ~nomem[t], ~shared[t], Ascii(name[t]),
                      NEW k \in Positions(dp[t]), Entries(dp[t])[k].name = name[t]
               PROVE  err[t] # "ENOENT" /\ gotinum[t] = Entries(dp[t])[k].inum
    BY DEF ExistingNameFound
  <2>1. Result(t) /\ dp[t] \in Dir
    BY DEF IInv, Types, Local
  <2>2. gotinum[t] = Entries(dp[t])[k].inum
    BY <2>1 DEF Result, Scanned
  <2>3. Entries(dp[t])[k].inum \in Nat
    BY <2>1, EntriesType
  <2>4. gotinum[t] # -1
    BY <2>2, <2>3
  <2>5. err[t] = "ENOENT" => gotinum[t] = -1
    BY <2>1 DEF Result
  <2> QED BY <2>2, <2>4, <2>5
<1> QED BY <1>1, Invariant, PTL

(***************************************************************************)
(* However threads mix their bytes in UTF8_Buffer, an ordinary name that   *)
(* is found gets the inode of an entry of the directory searched.          *)
(***************************************************************************)
THEOREM InodeIsOfDirectory == Spec => []InodeOfThisDirectory
<1>1. IInv => InodeOfThisDirectory
  BY DEF IInv, Local, Result, Scanned, InodeOfThisDirectory
<1> QED BY <1>1, Invariant, PTL

(***************************************************************************)
(* The records of a listing are the consecutive entries from where it was  *)
(* started, across leaves of any number and size.                          *)
(***************************************************************************)
THEOREM ConsecutiveLists == Spec => []ListsConsecutive
<1>1. IInv => ListsConsecutive
  BY DEF IInv, Local, Records, ListsConsecutive
<1> QED BY <1>1, Invariant, PTL

(***************************************************************************)
(* A listing that covers no record is at the end of the directory, so that *)
(* a caller who goes on behind the covered records gets there, for every   *)
(* limit of more than one record.                                          *)
(***************************************************************************)
THEOREM ListingAdvances == Spec => []ListingProgress
<1>1. IInv => ListingProgress
  BY DEF IInv, Local, Records, ListingProgress
<1> QED BY <1>1, Invariant, PTL

=============================================================================
