---------------------------- MODULE XTreeProofs ----------------------------
(***************************************************************************)
(* Proofs about XTree: the search is right for every well-formed tree, of  *)
(* any height, with pages of any size.                                     *)
(***************************************************************************)
EXTENDS XTree, TLAPS

USE DEF call, result

(* The search stays in the page responsible for the key. *)
RangeInv ==
  /\ pc = "call" => p = Root
  /\ pc \notin {"call", "failed"} => want # 0
  /\ pc \in {"page", "loop", "compare", "descend"} =>
       tree.lo[p] <= key /\ key < tree.hi[p]

(* The entries before base end at or below the key, those from base + lim   *)
(* on start above it.                                                       *)
LoopInv ==
  pc \in {"loop", "compare"} =>
    /\ base >= XTENTRYSTART
    /\ base + lim <= Page.nextindex
    /\ \A j \in Entries(Page) :
         /\ j < base => Page.xad[j].off + Page.xad[j].len <= key
         /\ j >= base + lim => key < Page.xad[j].off

ProbeInv ==
  pc = "compare" => lim # 0 /\ index = base + lim \div 2

(* A leaf is never left with a comparison that says "equal": only the root  *)
(* can be empty, and there cmp still has its first value.                   *)
CmpInv ==
  /\ pc \in {"call", "page"} /\ p = Root => cmp # 0
  /\ pc = "loop" => cmp # 0 \/ lim # 0

(* The child to be read is responsible for the key. *)
DescendInv ==
  pc = "descend" =>
    /\ ~Page.leaf
    /\ index \in Entries(Page)
    /\ Page.xad[index].off <= key
    /\ key < tree.hi[Page.xad[index].addr]

IInv ==
  /\ TypeOK
  /\ RangeInv
  /\ LoopInv
  /\ ProbeInv
  /\ CmpInv
  /\ DescendInv
  /\ LookupCorrect

-----------------------------------------------------------------------------
(* What the proofs use of the current page. *)
LEMMA PageFacts ==
  ASSUME TypeOK
  PROVE  /\ Page.leaf \in BOOLEAN
         /\ Page.nextindex \in Nat /\ Page.nextindex >= XTENTRYSTART
         /\ Page.xad \in [Entries(Page) -> Xad]
         /\ tree.lo[p] \in Nat /\ tree.hi[p] \in Nat
         /\ Page.leaf => LeafOK(Page, tree.lo[p], tree.hi[p])
         /\ ~Page.leaf => InternalOK(tree, p)
         /\ p # Root \/ ~Page.leaf => Page.nextindex > XTENTRYSTART
BY TreeAssumption DEF TypeOK, WellFormed, IsPage, Page

(* Any two entries of a page are in order. *)
LEMMA EntryFacts ==
  ASSUME TypeOK, NEW i \in Entries(Page)
  PROVE  /\ i \in Nat /\ i >= XTENTRYSTART /\ i < Page.nextindex
         /\ Page.xad[i] \in Xad
         /\ Page.xad[i].off \in Nat /\ Page.xad[i].len \in Nat \ {0}
         /\ Page.xad[i].addr \in Nat
         /\ \A j \in Entries(Page) : i < j =>
              Page.xad[i].off + Page.xad[i].len <= Page.xad[j].off
<1>1. /\ i \in Nat /\ i >= XTENTRYSTART /\ i < Page.nextindex
      /\ Page.xad[i] \in Xad
  BY PageFacts DEF Entries, XTENTRYSTART
<1>2. \A j \in Entries(Page) : i < j =>
        Page.xad[i].off + Page.xad[i].len <= Page.xad[j].off
  BY PageFacts DEF LeafOK, InternalOK, Page
<1> QED  BY <1>1, <1>2 DEF Xad

LEMMA CallStep ==
  ASSUME IInv, Call
  PROVE  IInv'
<1> USE TreeAssumption DEF XTENTRYSTART
<1>0. /\ pc = "call" /\ pc' = "page"
      /\ key' \in 0 .. MaxKey - 1 /\ want' \in Nat \ {0}
      /\ UNCHANGED <<tree, fn, p, base, lim, index, cmp, rc, xaddr, xlen>>
  BY DEF IInv, TypeOK, Call, CallLookup, CallFindIag
<1>1. TypeOK'
  BY <1>0 DEF IInv, TypeOK
<1>2. RangeInv'
  BY <1>0 DEF IInv, TypeOK, RangeInv, WellFormed
<1>3. (LoopInv /\ ProbeInv /\ CmpInv /\ DescendInv /\ LookupCorrect)'
  BY <1>0 DEF IInv, LoopInv, ProbeInv, CmpInv, DescendInv, LookupCorrect
<1> QED  BY <1>1, <1>2, <1>3 DEF IInv

LEMMA FindIagFailsStep ==
  ASSUME IInv, FindIagFails
  PROVE  IInv'
<1>0. /\ pc = "call" /\ pc' = "failed" /\ rc' = 1
      /\ UNCHANGED <<tree, fn, key, want, p, base, lim, index, cmp, xaddr, xlen>>
  BY DEF FindIagFails
<1>1. TypeOK'
  BY <1>0 DEF IInv, TypeOK
<1>2. (RangeInv /\ LoopInv /\ ProbeInv)'
  BY <1>0 DEF IInv, RangeInv, LoopInv, ProbeInv
<1>3. (CmpInv /\ DescendInv /\ LookupCorrect)'
  BY <1>0 DEF IInv, CmpInv, DescendInv, LookupCorrect
<1> QED  BY <1>1, <1>2, <1>3 DEF IInv

LEMMA SearchPageStep ==
  ASSUME IInv, SearchPage
  PROVE  IInv'
<1> USE DEF SearchPage, Count, XTENTRYSTART
<1>1. TypeOK'
  BY PageFacts DEF IInv, TypeOK
<1>2. RangeInv' /\ ProbeInv' /\ DescendInv' /\ LookupCorrect'
  BY DEF IInv, RangeInv, ProbeInv, DescendInv, LookupCorrect
<1>3. Page' = Page
  BY DEF Page
<1>4. LoopInv'
  BY <1>3, PageFacts, EntryFacts DEF IInv, LoopInv
<1>5. CmpInv'
  BY PageFacts DEF IInv, TypeOK, CmpInv
<1> QED  BY <1>1, <1>2, <1>4, <1>5 DEF IInv

(* The probe falls between base and base + lim. *)
LEMMA ProbeStep ==
  ASSUME IInv, Probe
  PROVE  IInv'
<1> USE DEF Probe
<1>1. TypeOK'
  BY DEF IInv, TypeOK
<1>2. RangeInv' /\ ProbeInv' /\ CmpInv' /\ DescendInv' /\ LookupCorrect'
  BY DEF IInv, RangeInv, ProbeInv, CmpInv, DescendInv, LookupCorrect
<1>3. Page' = Page
  BY DEF Page
<1>4. LoopInv'
  BY <1>3 DEF IInv, LoopInv
<1> QED  BY <1>1, <1>2, <1>4 DEF IInv

LEMMA ProbedInBounds ==
  ASSUME IInv, pc = "compare"
  PROVE  /\ index \in Entries(Page)
         /\ base <= index /\ index < base + lim
BY PageFacts DEF IInv, TypeOK, LoopInv, ProbeInv, Entries, XTENTRYSTART

LEMMA FoundStep ==
  ASSUME IInv, Found
  PROVE  IInv'
<1> DEFINE x == Page.xad[index]
<1>1. pc = "compare" /\ Page.leaf /\ index \in Entries(Page)
  BY ProbedInBounds DEF Found, Clip
<1>2. x \in Xad /\ x.off \in Nat /\ x.len \in Nat \ {0} /\ x.addr \in Nat
  BY <1>1, EntryFacts DEF IInv
<1>3. x.off <= key /\ key < x.off + x.len /\ key \in Nat /\ want \in Nat
  BY <1>2, TreeAssumption DEF Found, Clip, XT_CMP, IInv, TypeOK
<1>4. /\ xaddr' = x.addr + (key - x.off) /\ xaddr' \in Nat
      /\ xlen' \in Nat /\ xlen' <= want
      /\ key + xlen' <= x.off + x.len
      /\ want # 0 => 0 < xlen'
  BY <1>2, <1>3 DEF Found, Clip
<1>5. TypeOK'
  BY <1>4 DEF Found, Clip, IInv, TypeOK
<1>6. want # 0
  BY <1>1 DEF IInv, RangeInv
<1>7. LookupCorrect'
  <2>1. x \in Covering'
    BY <1>1, <1>3 DEF Found, Clip, Covering, Extents, Page, IInv, TypeOK
  <2> QED  BY <2>1, <1>4, <1>6 DEF Found, Clip, LookupCorrect
<1>8. (RangeInv /\ LoopInv /\ ProbeInv /\ CmpInv /\ DescendInv)'
  BY <1>6 DEF Found, Clip, RangeInv, LoopInv, ProbeInv, CmpInv, DescendInv
<1> QED  BY <1>5, <1>7, <1>8 DEF IInv

LEMMA HitInternalStep ==
  ASSUME IInv, HitInternal
  PROVE  IInv'
<1> DEFINE x == Page.xad[index]
<1>1. pc = "compare" /\ ~Page.leaf /\ index \in Entries(Page)
  BY ProbedInBounds DEF HitInternal
<1>2. x.off \in Nat /\ x.len \in Nat
  BY <1>1, EntryFacts DEF IInv
<1>3. x.off <= key /\ key < x.off + x.len /\ key \in Nat
  BY <1>2, TreeAssumption DEF HitInternal, XT_CMP, IInv, TypeOK
<1>4. x.addr \in DOMAIN tree.page /\ x.off + x.len <= tree.hi[x.addr]
  BY <1>1, PageFacts DEF IInv, InternalOK, Page
<1>5. tree.hi[x.addr] \in Nat
  BY <1>4, TreeAssumption DEF IInv, TypeOK, WellFormed
<1>6. Page' = Page /\ tree' = tree
  BY DEF HitInternal, Page
<1>7. DescendInv'
  BY <1>1, <1>2, <1>3, <1>4, <1>5, <1>6 DEF HitInternal, DescendInv
<1>8. (TypeOK /\ RangeInv /\ LoopInv /\ ProbeInv /\ CmpInv /\ LookupCorrect)'
  BY <1>1 DEF HitInternal, IInv, TypeOK, RangeInv, LoopInv, ProbeInv, CmpInv, LookupCorrect
<1> QED  BY <1>7, <1>8 DEF IInv

(* The entries up to the one compared end at or below the key. *)
LEMMA GoRightStep ==
  ASSUME IInv, GoRight
  PROVE  IInv'
<1> DEFINE x == Page.xad[index]
<1>1. pc = "compare" /\ index \in Entries(Page) /\ index < base + lim
  BY ProbedInBounds DEF GoRight
<1>2. x.off \in Nat /\ x.len \in Nat /\ index \in Nat
  BY <1>1, EntryFacts DEF IInv
<1>3. x.off + x.len <= key /\ key \in Nat
  BY <1>2, TreeAssumption DEF GoRight, XT_CMP, IInv, TypeOK
<1>4. /\ lim \in Nat /\ lim # 0 /\ base \in Nat
      /\ index = base + lim \div 2
  BY <1>1 DEF IInv, TypeOK, ProbeInv
<1>5. /\ base' = index + 1 /\ lim' \in Nat
      /\ base' + lim' = base + lim
  BY <1>2, <1>4 DEF GoRight, RightOf
<1>6. Page' = Page /\ tree' = tree /\ key' = key
  BY DEF GoRight, Page
<1>7. LoopInv'
  <2>1. ASSUME NEW j \in Entries(Page), j < index + 1
        PROVE  Page.xad[j].off + Page.xad[j].len <= key
    <3>1. /\ j \in Nat /\ Page.xad[j].off \in Nat /\ Page.xad[j].len \in Nat
          /\ j < index => Page.xad[j].off + Page.xad[j].len <= x.off
      BY <1>1, <2>1, EntryFacts DEF IInv
    <3>2. CASE j = index
      BY <1>3, <3>2
    <3>3. CASE j < index
      BY <1>2, <1>3, <3>1, <3>3
    <3> QED  BY <1>2, <2>1, <3>1, <3>2, <3>3
  <2>2. /\ base >= XTENTRYSTART /\ base + lim <= Page.nextindex
        /\ \A j \in Entries(Page) : j >= base + lim => key < Page.xad[j].off
    BY <1>1 DEF IInv, LoopInv
  <2>3. base' >= XTENTRYSTART
    BY <1>4, <1>5, <2>2 DEF XTENTRYSTART
  <2> QED  BY <1>5, <1>6, <2>1, <2>2, <2>3 DEF LoopInv
<1>8. TypeOK'
  BY <1>2, <1>5 DEF GoRight, IInv, TypeOK
<1>9. (RangeInv /\ ProbeInv /\ CmpInv /\ DescendInv /\ LookupCorrect)'
  BY <1>1 DEF GoRight, IInv, RangeInv, ProbeInv, CmpInv, DescendInv, LookupCorrect
<1> QED  BY <1>7, <1>8, <1>9 DEF IInv

(* The entries from the one compared on start above the key. *)
LEMMA GoLeftStep ==
  ASSUME IInv, GoLeft
  PROVE  IInv'
<1> DEFINE x == Page.xad[index]
<1>1. pc = "compare" /\ index \in Entries(Page) /\ index < base + lim
  BY ProbedInBounds DEF GoLeft
<1>2. x.off \in Nat /\ x.len \in Nat /\ index \in Nat
  BY <1>1, EntryFacts DEF IInv
<1>3. key < x.off /\ key \in Nat
  BY <1>2, TreeAssumption DEF GoLeft, XT_CMP, IInv, TypeOK
<1>4. /\ lim \in Nat /\ base \in Nat /\ index = base + lim \div 2
  BY <1>1 DEF IInv, TypeOK, ProbeInv
<1>5. lim' \in Nat /\ base' = base /\ base' + lim' = index
  BY <1>4 DEF GoLeft, LeftOf
<1>6. Page' = Page /\ tree' = tree /\ key' = key
  BY DEF GoLeft, Page
<1>7. LoopInv'
  <2>1. ASSUME NEW j \in Entries(Page), j >= index
        PROVE  key < Page.xad[j].off
    <3>1. /\ j \in Nat /\ Page.xad[j].off \in Nat
          /\ index < j => x.off + x.len <= Page.xad[j].off
      BY <1>1, <2>1, EntryFacts DEF IInv
    <3>2. CASE j = index
      BY <1>3, <3>2
    <3>3. CASE index < j
      BY <1>2, <1>3, <3>1, <3>3
    <3> QED  BY <1>2, <2>1, <3>1, <3>2, <3>3
  <2>2. /\ base >= XTENTRYSTART
        /\ \A j \in Entries(Page) : j < base => Page.xad[j].off + Page.xad[j].len <= key
    BY <1>1 DEF IInv, LoopInv
  <2>3. index <= Page.nextindex
    BY <1>1, EntryFacts, PageFacts DEF IInv
  <2> QED  BY <1>5, <1>6, <2>1, <2>2, <2>3 DEF LoopInv
<1>8. TypeOK'
  BY <1>5 DEF GoLeft, IInv, TypeOK
<1>9. (RangeInv /\ ProbeInv /\ CmpInv /\ DescendInv /\ LookupCorrect)'
  BY <1>1 DEF GoLeft, IInv, RangeInv, ProbeInv, CmpInv, DescendInv, LookupCorrect
<1> QED  BY <1>7, <1>8, <1>9 DEF IInv

(* A miss in the leaf responsible for the key is a miss everywhere. *)
LEMMA MissLeafStep ==
  ASSUME IInv, MissLeaf
  PROVE  IInv'
<1>1. pc = "loop" /\ lim = 0 /\ Page.leaf /\ cmp # 0
  BY DEF MissLeaf, IInv, CmpInv
<1>2. rc' # 0 /\ rc' \in {-1, 0, 1}
  BY <1>1 DEF MissLeaf, IInv, TypeOK
<1>3. Covering = {}
  <2> SUFFICES ASSUME NEW x \in Covering
               PROVE  FALSE
    OBVIOUS
  <2>1. PICK q \in DOMAIN tree.page :
          /\ tree.page[q].leaf
          /\ \E i \in Entries(tree.page[q]) : tree.page[q].xad[i] = x
    BY DEF Covering, Extents
  <2>2. PICK i \in Entries(tree.page[q]) : tree.page[q].xad[i] = x
    BY <2>1
  <2>3. x.off <= key /\ key < x.off + x.len /\ key \in Nat
    BY TreeAssumption DEF Covering, IInv, TypeOK
  <2>4. CASE q = p
    <3>1. i \in Entries(Page) /\ Page.xad[i] = x
      BY <2>2, <2>4 DEF Page
    <3>2. x.off \in Nat /\ x.len \in Nat /\ i \in Nat
      BY <3>1, EntryFacts DEF IInv
    <3>3. x.off + x.len <= key \/ key < x.off
      BY <1>1, <3>1, <3>2 DEF IInv, TypeOK, LoopInv
    <3> QED  BY <2>3, <3>2, <3>3
  <2>5. CASE q # p
    <3>1. /\ IsPage(tree.page[q])
          /\ tree.lo[q] <= x.off /\ x.off + x.len <= tree.hi[q]
          /\ tree.lo[q] \in Nat /\ tree.hi[q] \in Nat
          /\ tree.lo[p] \in Nat /\ tree.hi[p] \in Nat
          /\ tree.hi[q] <= tree.lo[p] \/ tree.hi[p] <= tree.lo[q]
      BY <1>1, <2>1, <2>2, <2>5, TreeAssumption DEF IInv, TypeOK, WellFormed, LeafOK, Page
    <3>2. x.off \in Nat /\ x.len \in Nat
      BY <2>2, <3>1 DEF IsPage, Xad
    <3>3. tree.lo[p] <= key /\ key < tree.hi[p]
      BY <1>1 DEF IInv, RangeInv
    <3> QED  BY <2>3, <3>1, <3>2, <3>3
  <2> QED  BY <2>4, <2>5
<1>4. Covering' = Covering
  BY DEF MissLeaf, Covering, Extents
<1>5. LookupCorrect'
  BY <1>2, <1>3, <1>4 DEF LookupCorrect
<1>6. (TypeOK /\ RangeInv /\ LoopInv /\ ProbeInv /\ CmpInv /\ DescendInv)'
  BY <1>1, <1>2 DEF MissLeaf, IInv, TypeOK, RangeInv, LoopInv, ProbeInv, CmpInv, DescendInv
<1> QED  BY <1>5, <1>6 DEF IInv

(* The first key of an internal page is not above the key, so that base     *)
(* has moved past it.                                                       *)
LEMMA MissInternalStep ==
  ASSUME IInv, MissInternal
  PROVE  IInv'
<1> USE DEF XTENTRYSTART
<1>1. pc = "loop" /\ lim = 0 /\ ~Page.leaf
  BY DEF MissInternal
<1>2. /\ base \in Nat /\ key \in Nat /\ Page.nextindex \in Nat
      /\ base >= 2 /\ base <= Page.nextindex /\ 2 < Page.nextindex
      /\ tree.lo[p] <= key /\ key < tree.hi[p]
      /\ \A j \in Entries(Page) :
           /\ j < base => Page.xad[j].off + Page.xad[j].len <= key
           /\ j >= base => key < Page.xad[j].off
  BY <1>1, PageFacts, TreeAssumption DEF IInv, TypeOK, LoopInv, RangeInv
<1>3. base # 2
  <2>1. 2 \in Entries(Page) /\ Page.xad[2].off = tree.lo[p]
    BY <1>1, <1>2, PageFacts DEF IInv, InternalOK, Entries, Page
  <2>2. tree.lo[p] \in Nat
    BY PageFacts DEF IInv
  <2> QED  BY <1>2, <2>1, <2>2
<1>4. index' = base - 1 /\ base - 1 \in Entries(Page)
  BY <1>2, <1>3 DEF MissInternal, BeforeBase, Entries
<1> DEFINE x == Page.xad[base - 1]
<1>5. x.off \in Nat /\ x.len \in Nat /\ x.off + x.len <= key
  BY <1>2, <1>4, EntryFacts DEF IInv
<1>6. key < tree.hi[x.addr]
  <2>1. CASE base \in Entries(Page)
    <3>1. tree.hi[x.addr] = Page.xad[base].off
      BY <1>1, <1>2, <1>4, <2>1, PageFacts DEF IInv, InternalOK, Page
    <3> QED  BY <1>2, <2>1, <3>1
  <2>2. CASE base \notin Entries(Page)
    <3>1. base = Page.nextindex
      BY <1>2, <2>2 DEF Entries
    <3>2. tree.hi[x.addr] = tree.hi[p]
      BY <1>1, <1>4, <3>1, PageFacts DEF IInv, InternalOK, Page
    <3> QED  BY <1>2, <3>2
  <2> QED  BY <2>1, <2>2
<1>7. Page' = Page /\ tree' = tree /\ key' = key /\ pc' = "descend"
  BY DEF MissInternal, Page
<1>8. DescendInv'
  BY <1>1, <1>2, <1>4, <1>5, <1>6, <1>7 DEF DescendInv
<1>9. (TypeOK /\ RangeInv /\ LoopInv /\ ProbeInv /\ CmpInv /\ LookupCorrect)'
  BY <1>1, <1>2, <1>4 DEF MissInternal, IInv, TypeOK, RangeInv, LoopInv, ProbeInv, CmpInv, LookupCorrect
<1> QED  BY <1>8, <1>9 DEF IInv

LEMMA DescendStep ==
  ASSUME IInv, Descend
  PROVE  IInv'
<1> DEFINE c == Page.xad[index].addr
<1>1. /\ pc = "descend" /\ index \in Entries(Page) /\ ~Page.leaf
      /\ Page.xad[index].off <= key /\ key < tree.hi[c]
  BY DEF Descend, IInv, DescendInv
<1>2. /\ c \in DOMAIN tree.page /\ c # Root
      /\ tree.lo[c] = Page.xad[index].off
  BY <1>1, PageFacts DEF IInv, InternalOK, Page
<1>3. TypeOK'
  BY <1>2 DEF Descend, IInv, TypeOK
<1>4. (RangeInv /\ LoopInv /\ ProbeInv /\ CmpInv /\ DescendInv /\ LookupCorrect)'
  BY <1>1, <1>2 DEF Descend, IInv, RangeInv, LoopInv, ProbeInv, CmpInv, DescendInv, LookupCorrect
<1> QED  BY <1>3, <1>4 DEF IInv

LEMMA Invariance == Spec => []IInv
<1>1. Init => IInv
  BY TreeAssumption DEF Init, IInv, TypeOK, WellFormed, RangeInv, LoopInv,
                        ProbeInv, CmpInv, DescendInv, LookupCorrect
<1>2. IInv /\ Next => IInv'
  BY CallStep, FindIagFailsStep, SearchPageStep, ProbeStep, FoundStep, HitInternalStep,
     GoRightStep, GoLeftStep, MissLeafStep, MissInternalStep, DescendStep
     DEF Next, Step
<1>3. IInv /\ UNCHANGED vars => IInv'
  BY DEF vars, IInv, TypeOK, RangeInv, LoopInv, ProbeInv, CmpInv, DescendInv,
         LookupCorrect, Covering, Extents, Page
<1> QED  BY <1>1, <1>2, <1>3, PTL DEF Spec

-----------------------------------------------------------------------------
(* The variables of the search keep their types; lim and index, in          *)
(* particular, are never negative.                                          *)
THEOREM TypeCorrect == Spec => []TypeOK
<1>1. IInv => TypeOK
  BY DEF IInv
<1> QED  BY <1>1, Invariance, PTL

(* No header slot and no unused slot of a page is ever read as an entry. *)
THEOREM IndexSafe == Spec => []IndexInBounds
<1>1. IInv => IndexInBounds
  BY ProbedInBounds DEF IInv, DescendInv, IndexInBounds
<1> QED  BY <1>1, Invariance, PTL

(* In a well-formed tree xt_Lookup and find_iag return 0 exactly for the    *)
(* blocks that some extent of the tree covers, and the right address.       *)
THEOREM SearchCorrect == Spec => []LookupCorrect
<1>1. IInv => LookupCorrect
  BY DEF IInv
<1> QED  BY <1>1, Invariance, PTL

-----------------------------------------------------------------------------
(* The refinement: the steps of a search below its last one are not seen by *)
(* the caller, the last one is the answer of ExtentMap.                     *)

LEMMA CallRefines ==
  ASSUME IInv, Call
  PROVE  \E k \in 0 .. MaxKey - 1, w \in Lengths \cup {1} : Map!Call(k, w)
<1>1. Extents' = Extents /\ Status = "call" /\ Status' = "busy"
  BY DEF Call, CallLookup, CallFindIag, Extents, Status
<1>2. CASE \E k \in 0 .. MaxKey - 1, w \in Lengths : CallLookup(k, w)
  BY <1>1, <1>2 DEF CallLookup, Map!Call
<1>3. CASE \E iagnum \in 0 .. MaxKey - 1 :
             (iagnum + 1) * PageBlocks < MaxKey /\ CallFindIag(iagnum)
  <2>1. PICK iagnum \in 0 .. MaxKey - 1 :
          (iagnum + 1) * PageBlocks < MaxKey /\ CallFindIag(iagnum)
    BY <1>3
  <2>2. (iagnum + 1) * PageBlocks \in 0 .. MaxKey - 1
    BY <2>1, TreeAssumption
  <2>3. Map!Call((iagnum + 1) * PageBlocks, 1)
    BY <1>1, <2>1 DEF CallFindIag, Map!Call
  <2> QED  BY <2>2, <2>3
<1> QED  BY <1>2, <1>3 DEF Call

LEMMA FoundRefines ==
  ASSUME IInv, Found
  PROVE  Map!Mapped
<1> DEFINE x == Page.xad[index]
<1>1. pc = "compare" /\ Page.leaf /\ index \in Entries(Page)
  BY ProbedInBounds DEF Found, Clip
<1>2. x.off \in Nat /\ x.len \in Nat \ {0} /\ x.addr \in Nat
  BY <1>1, EntryFacts DEF IInv
<1>3. x.off <= key /\ key < x.off + x.len /\ key \in Nat /\ want \in Nat
  BY <1>2, TreeAssumption DEF Found, Clip, XT_CMP, IInv, TypeOK
<1>4. x \in Extents
  BY <1>1 DEF Extents, Page, IInv, TypeOK
<1>5. x.len - (key - x.off) = x.off + x.len - key
  BY <1>2, <1>3
<1>6. Extents' = Extents /\ Status = "busy" /\ Status' = "done"
  BY DEF Found, Clip, Extents, Status
<1> QED  BY <1>3, <1>4, <1>5, <1>6 DEF Found, Clip, Map!Mapped, Map!Covers

LEMMA MissLeafRefines ==
  ASSUME IInv, MissLeaf
  PROVE  Map!Hole
<1>1. pc = "loop" /\ cmp # 0
  BY DEF MissLeaf, IInv, CmpInv
<1>2. rc' \in {-1, 1}
  BY <1>1 DEF MissLeaf, IInv, TypeOK
<1>3. LookupCorrect' /\ Covering' = Covering /\ pc' = "done"
  BY MissLeafStep DEF IInv, MissLeaf, Covering, Extents
<1>4. Covering = {}
  BY <1>2, <1>3 DEF LookupCorrect
<1>5. Extents' = Extents /\ Status = "busy" /\ Status' = "done"
  BY DEF MissLeaf, Extents, Status
<1> QED  BY <1>2, <1>4, <1>5 DEF MissLeaf, Covering, Map!Hole, Map!Covers

LEMMA InnerStutters ==
  ASSUME SearchPage \/ Probe \/ HitInternal \/ GoRight \/ GoLeft \/ MissInternal \/ Descend
  PROVE  UNCHANGED Map!vars
BY DEF SearchPage, Probe, HitInternal, GoRight, GoLeft, MissInternal, Descend,
       Map!vars, Extents, Status

(* xt_Lookup and find_iag implement the lookup in a set of extents, for     *)
(* well-formed trees of any shape.                                          *)
THEOREM RefinesMap == Spec => ImplementsMap
<1>1. Init => Map!Init
  BY DEF Init, Map!Init, Status
<1>2. IInv /\ Next => Map!Next \/ UNCHANGED Map!vars
  <2> SUFFICES ASSUME IInv, Next
               PROVE  Map!Next \/ UNCHANGED Map!vars
    OBVIOUS
  <2>1. CASE Call
    BY <2>1, CallRefines DEF Map!Next
  <2>2. CASE FindIagFails
    BY <2>2 DEF FindIagFails, Map!Next, Map!Fail, Extents, Status
  <2>3. CASE Found
    BY <2>3, FoundRefines DEF Map!Next
  <2>4. CASE MissLeaf
    BY <2>4, MissLeafRefines DEF Map!Next
  <2> QED  BY <2>1, <2>2, <2>3, <2>4, InnerStutters DEF Next, Step
<1>3. UNCHANGED vars => UNCHANGED Map!vars
  BY DEF vars, Map!vars, Extents, Status
<1> QED  BY <1>1, <1>2, <1>3, Invariance, PTL DEF Spec, ImplementsMap, Map!Spec
=============================================================================
