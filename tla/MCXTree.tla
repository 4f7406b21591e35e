------------------------------ MODULE MCXTree ------------------------------
(***************************************************************************)
(* All well-formed trees of up to three levels over a few keys: a root     *)
(* leaf with up to MaxRoot extents, a root with two or three leaves of up  *)
(* to two extents, and a root with two internal pages of two leaves each.  *)
(***************************************************************************)
EXTENDS XTree, FiniteSets, FiniteSetsExt

CONSTANT MaxRoot

(* The sets of up to n disjoint extents inside lo .. hi-1. *)
ExtentSets(lo, hi, n) ==
  LET All == {x \in (lo .. hi - 1) \X (1 .. hi - lo) : x[1] + x[2] <= hi}
      Apart(x, y) == x[1] + x[2] <= y[1] \/ y[1] + y[2] <= x[1]
  IN  {E \in UNION {kSubset(k, All) : k \in 0 .. n} :
         \A x, y \in E : x = y \/ Apart(x, y)}

(* A page with the entries E, <<offset, length>> pairs, in ascending order. *)
MakePage(leaf, E, Addr(_)) ==
  LET n == Cardinality(E)
      Nth(i) == CHOOSE x \in E : Cardinality({y \in E : y[1] < x[1]}) = i - XTENTRYSTART
  IN  [leaf |-> leaf, nextindex |-> XTENTRYSTART + n,
       xad |-> [i \in XTENTRYSTART .. XTENTRYSTART + n - 1 |->
                  [off |-> Nth(i)[1], len |-> Nth(i)[2], addr |-> Addr(Nth(i))]]]

(* Data blocks are stored in descending order of their extents. *)
DataAddr(x) == 100 - 10 * x[1]

Leaf(E) == MakePage(TRUE, E, DataAddr)
Leaves(lo, hi, n) == {Leaf(E) : E \in ExtentSets(lo, hi, n) \ {{}}}

(* An internal page whose i-th child, at address a[i], starts at key b[i]. *)
Internal(b, a) ==
  MakePage(FALSE, {<<b[i], 1>> : i \in DOMAIN b},
           LAMBDA x : a[CHOOSE i \in DOMAIN b : b[i] = x[1]])

OneLevel ==
  {[page |-> [q \in {Root} |-> Leaf(E)],
    lo   |-> [q \in {Root} |-> 0],
    hi   |-> [q \in {Root} |-> MaxKey]] : E \in ExtentSets(0, MaxKey, MaxRoot)}

(* A root with the leaves l, the i-th one from key b[i] on. *)
Flat(b, l) ==
  LET Q == {Root} \cup DOMAIN b
  IN  [page |-> [q \in Q |-> IF q = Root THEN Internal(b, [i \in DOMAIN b |-> i]) ELSE l[q]],
       lo   |-> [q \in Q |-> IF q = Root THEN 0 ELSE b[q]],
       hi   |-> [q \in Q |-> IF q = Root \/ q + 1 \notin Q THEN MaxKey ELSE b[q + 1]]]

TwoLevels ==
  UNION {{Flat(<<0, s>>, l) : l \in Leaves(0, s, 2) \X Leaves(s, MaxKey, 2)} : s \in 1 .. MaxKey - 1}
  \cup
  UNION {UNION {{Flat(<<0, s, t>>, l) :
                   l \in Leaves(0, s, 1) \X Leaves(s, t, 1) \X Leaves(t, MaxKey, 1)} :
                t \in s + 1 .. MaxKey - 1} : s \in 1 .. MaxKey - 2}

(* Pages 1 and 2 below the root, the leaves 3 to 6 below them. *)
Deep(b, l) ==
  LET Q == {Root} \cup 1 .. 6
  IN  [page |-> [q \in Q |-> IF q = Root THEN Internal(<<b[1], b[3]>>, <<1, 2>>)
                             ELSE IF q = 1 THEN Internal(<<b[1], b[2]>>, <<3, 4>>)
                             ELSE IF q = 2 THEN Internal(<<b[3], b[4]>>, <<5, 6>>)
                             ELSE l[q - 2]],
       lo   |-> [q \in Q |-> IF q = Root \/ q = 1 THEN 0 ELSE IF q = 2 THEN b[3] ELSE b[q - 2]],
       hi   |-> [q \in Q |-> IF q = Root \/ q = 2 \/ q = 6 THEN MaxKey
                             ELSE IF q = 1 THEN b[3] ELSE b[q - 1]]]

ThreeLevels ==
  UNION {{Deep(<<0, s, t, v>>, l) :
            l \in Leaves(0, s, 1) \X Leaves(s, t, 1) \X Leaves(t, v, 1) \X Leaves(v, MaxKey, 1)} :
         <<s, t, v>> \in {w \in (1 .. MaxKey - 1) \X (1 .. MaxKey - 1) \X (1 .. MaxKey - 1) :
                            w[1] < w[2] /\ w[2] < w[3]}}

MCTrees == OneLevel \cup TwoLevels \cup ThreeLevels
=============================================================================
