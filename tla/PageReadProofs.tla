--------------------------- MODULE PageReadProofs ---------------------------
(***************************************************************************)
(* find_inode leads to the inode asked for, and a page of a file system    *)
(* whose blocks are as large as a page is read right, for every layout of  *)
(* the inode map, of the file and of the store.                            *)
(***************************************************************************)
EXTENDS PageRead, TLAPS

(* Quotient and remainder, as the provers know them. *)
LEMMA Division ==
  ASSUME NEW a \in Int, NEW b \in Nat \ {0}
  PROVE  /\ a \div b \in Int /\ a % b \in 0 .. b - 1
         /\ a = b * (a \div b) + (a % b)
OBVIOUS

LEMMA NextMultiple ==
  ASSUME NEW b \in Nat \ {0}, NEW x \in Int, NEW y \in Int, x < y
  PROVE  b * x + b <= b * y
<1>1. x + 1 <= y
  OBVIOUS
<1>2. b * (x + 1) <= b * y
  BY <1>1
<1>3. b * (x + 1) = b * x + b
  OBVIOUS
<1> QED BY <1>2, <1>3

(* They are unique. *)
LEMMA DivisionUnique ==
  ASSUME NEW b \in Nat \ {0}, NEW q \in Int, NEW r \in 0 .. b - 1
  PROVE  (q * b + r) \div b = q /\ (q * b + r) % b = r
<1> DEFINE a == q * b + r
           p == a \div b
           s == a % b
<1>1. a \in Int /\ q * b \in Int /\ q * b = b * q
  OBVIOUS
<1>2. p \in Int /\ s \in 0 .. b - 1 /\ a = b * p + s
  BY <1>1, Division
<1>3. a = b * q + r
  BY <1>1
<1> HIDE DEF a, p, s
<1>0. b * p \in Int /\ b * q \in Int
  BY <1>2
<1>4. ~(p < q)
  <2> SUFFICES ASSUME p < q PROVE FALSE
    OBVIOUS
  <2>1. b * p + b <= b * q
    BY <1>2, NextMultiple
  <2> QED BY <1>0, <1>2, <1>3, <2>1
<1>5. ~(q < p)
  <2> SUFFICES ASSUME q < p PROVE FALSE
    OBVIOUS
  <2>1. b * q + b <= b * p
    BY <1>2, NextMultiple
  <2> QED BY <1>0, <1>2, <1>3, <2>1
<1>6. p = q
  BY <1>2, <1>4, <1>5
<1>7. s = r
  BY <1>0, <1>2, <1>3, <1>6
<1> QED BY <1>6, <1>7 DEF a, p, s

LEMMA DivisionNat ==
  ASSUME NEW a \in Nat, NEW b \in Nat \ {0}
  PROVE  /\ a \div b \in Nat /\ a % b \in 0 .. b - 1
         /\ a = b * (a \div b) + (a % b)
<1>1. a \div b \in Nat
  OBVIOUS
<1> QED BY <1>1, Division

-----------------------------------------------------------------------------
(* The inode map.                                                           *)

LEMMA BlocksPerPage == PAGE \div BSIZE \in Nat \ {0}
<1> DEFINE p == PAGE \div BSIZE
<1>1. PAGE \in Nat \ {0} /\ BSIZE \in Nat \ {0} /\ PAGE % BSIZE = 0
  BY MapAssumption
<1>2. p \in Nat /\ PAGE = BSIZE * p + (PAGE % BSIZE)
  BY <1>1, DivisionNat
<1> HIDE DEF p
<1>3. p # 0
  BY <1>1, <1>2
<1> QED BY <1>2, <1>3 DEF p

(* The group and the extent that the shifts and masks give are those of the *)
(* extent that holds the inode.                                             *)
LEMMA ExtentSplit ==
  ASSUME NEW n \in Nat
  PROVE  /\ n \div INOSPEREXT \in Nat
         /\ INOTOIAG(n) = (n \div INOSPEREXT) \div EXTSPERIAG
         /\ extnum(n) = (n \div INOSPEREXT) % EXTSPERIAG
<1> DEFINE I == INOSPEREXT
           E == EXTSPERIAG
           e == n \div I
           r == n % I
           q == e \div E
           x == e % E
<1>1. I \in Nat \ {0} /\ E \in Nat \ {0}
  BY MapAssumption
<1>2. e \in Nat /\ r \in 0 .. I - 1 /\ n = I * e + r
  BY <1>1, DivisionNat
<1> HIDE DEF e, r
<1>3. q \in Nat /\ x \in 0 .. E - 1 /\ e = E * q + x
  BY <1>1, <1>2, DivisionNat
<1> HIDE DEF q, x
<1> HIDE DEF I, E
<1>4. I * E \in Nat \ {0}
  BY <1>1
<1>5. x * I + r \in 0 .. I * E - 1
  <2>1. I * x + I <= I * E
    BY <1>1, <1>3, NextMultiple
  <2>2. I * x \in Nat /\ I * x = x * I
    BY <1>1, <1>3
  <2> QED BY <1>1, <1>2, <1>4, <2>1, <2>2
<1>6. n = q * (I * E) + (x * I + r)
  <2>1. I * (E * q + x) = q * (I * E) + x * I
    BY <1>1, <1>3
  <2>2. q * (I * E) \in Int /\ x * I \in Int
    BY <1>1, <1>3
  <2> QED BY <1>2, <1>3, <2>1, <2>2
<1>7. n \div (I * E) = q /\ n % (I * E) = x * I + r
  <2> DEFINE d == I * E
             m == x * I + r
  <2>1. d \in Nat \ {0} /\ m \in 0 .. d - 1 /\ n = q * d + m
    BY <1>4, <1>5, <1>6
  <2> HIDE DEF d, m
  <2>2. n \div d = q /\ n % d = m
    BY <1>3, <2>1, DivisionUnique
  <2> QED BY <2>2 DEF d, m
<1>8. (x * I + r) \div I = x
  BY <1>1, <1>2, <1>3, DivisionUnique
<1>9. INOTOIAG(n) = n \div (I * E) /\ extnum(n) = (n % (I * E)) \div I
  BY DEF INOTOIAG, extnum, INOSPERIAG, I, E
<1> QED BY <1>2, <1>7, <1>8, <1>9 DEF e, q, x, I, E

(* find_inode finds the inodes that exist, where they are, and no others. *)
LEMMA FindInode ==
  ASSUME NEW n \in Nat
  PROVE  /\ Backed(n) => find_inode(n) = PlaceOf(n) /\ find_inode(n) \in Nat
         /\ ~Backed(n) => find_inode(n) = NoAddress
<1> DEFINE e == n \div INOSPEREXT
           P == PAGE \div BSIZE
           q == e \div EXTSPERIAG
           x == e % EXTSPERIAG
           l == IAGTOLBLK(INOTOIAG(n))
<1>1. e \in Nat /\ INOTOIAG(n) = q /\ extnum(n) = x
  BY ExtentSplit
<1>2. EXTSPERIAG \in Nat \ {0} /\ P \in Nat \ {0}
  BY MapAssumption, BlocksPerPage
<1> HIDE DEF P, e
<1>3. q \in Nat /\ x \in 0 .. EXTSPERIAG - 1 /\ e = EXTSPERIAG * q + x
  BY <1>1, <1>2, DivisionNat
<1> HIDE DEF q, x
<1>4. l = (q + 1) * P
  BY <1>1 DEF IAGTOLBLK, P
<1>5. l \div P = q + 1
  <2>1. l = (q + 1) * P + 0
    BY <1>2, <1>3, <1>4
  <2>2. q + 1 \in Int /\ 0 \in 0 .. P - 1
    BY <1>2, <1>3
  <2>3. ((q + 1) * P + 0) \div P = q + 1
    BY <1>2, <2>2, DivisionUnique
  <2> QED BY <2>1, <2>3
<1>6. (l \div P - 1) * EXTSPERIAG + x = e
  <2>1. l \div P - 1 = q
    BY <1>3, <1>5
  <2> QED BY <1>2, <1>3, <2>1
<1> HIDE DEF l
<1>7. ASSUME l \in DOMAIN IagMap
      PROVE  IF e \in DOMAIN InodeExtent /\ InodeExtent[e] # NoBlock
             THEN IagMap[l][x].len # 0 /\ IagMap[l][x].addr = InodeExtent[e]
             ELSE IagMap[l][x].len = 0
  <2>1. LET y == (l \div P - 1) * EXTSPERIAG + x
        IN  IF y \in DOMAIN InodeExtent /\ InodeExtent[y] # NoBlock
            THEN IagMap[l][x].len # 0 /\ IagMap[l][x].addr = InodeExtent[y]
            ELSE IagMap[l][x].len = 0
    BY <1>3, <1>7, MapAssumption DEF P
  <2> QED BY <1>6, <2>1
<1>8. find_inode(n) = IF l \notin DOMAIN IagMap THEN NoAddress
                      ELSE IF IagMap[l][x].len = 0 THEN NoAddress
                           ELSE IagMap[l][x].addr * BSIZE + (n % INOSPEREXT)
  BY <1>1 DEF find_inode, l
<1>9. Backed(n) <=> e \in DOMAIN InodeExtent /\ InodeExtent[e] # NoBlock
  BY DEF Backed, e
<1>10. CASE Backed(n)
  <2>1. l \in DOMAIN IagMap
    <3>1. IAGTOLBLK(e \div EXTSPERIAG) \in DOMAIN IagMap
      BY <1>9, <1>10, MapAssumption
    <3> QED BY <1>1, <3>1 DEF l, q
  <2>2. find_inode(n) = InodeExtent[e] * BSIZE + (n % INOSPEREXT)
    BY <1>7, <1>8, <1>9, <1>10, <2>1
  <2>3. InodeExtent[e] \in Nat
    BY <1>9, <1>10, MapAssumption
  <2>4. n % INOSPEREXT \in Nat
    BY MapAssumption
  <2>5. InodeExtent[e] * BSIZE \in Nat
    BY <2>3, MapAssumption
  <2>6. InodeExtent[e] * BSIZE + (n % INOSPEREXT) \in Nat
    BY <2>4, <2>5
  <2> QED BY <1>10, <2>2, <2>6 DEF PlaceOf, e
<1>11. CASE ~Backed(n)
  BY <1>7, <1>8, <1>9, <1>11
<1> QED BY <1>10, <1>11

(* xRead of one unit copies the unit at the address. *)
LEMMA xReadUnit ==
  ASSUME NEW a \in Nat
  PROVE  xRead(a, 1)[1] = a
<1> DEFINE o == a % BSIZE
           length == ((o + 1 + BSIZE - 1) \div BSIZE) * BSIZE
           d == ujfs_read_diskblocks(a - o, length)
<1>1. BSIZE \in Nat \ {0}
  BY MapAssumption
<1>2. o \in 0 .. BSIZE - 1
  BY <1>1
<1>3. CASE Aligned(a, 1)
  <2>1. xRead(a, 1) = [k \in 1 .. 1 |-> a + k - 1]
    BY <1>3 DEF xRead, ujfs_read_diskblocks
  <2> QED BY <2>1
<1>4. CASE ~Aligned(a, 1)
  <2> HIDE DEF o
  <2>1. length \in Nat /\ o + 1 <= length
    <3> DEFINE w == o + 1 + BSIZE - 1
               m == w \div BSIZE
    <3>1. w \in Nat /\ w = o + BSIZE
      BY <1>1, <1>2
    <3> HIDE DEF w
    <3>2. m \in Nat /\ w % BSIZE \in 0 .. BSIZE - 1 /\ w = BSIZE * m + (w % BSIZE)
      BY <1>1, <3>1, DivisionNat
    <3> HIDE DEF m
    <3>3. m * BSIZE \in Nat /\ m * BSIZE = BSIZE * m
      BY <1>1, <3>2
    <3>4. o + 1 <= m * BSIZE
      BY <1>1, <1>2, <3>1, <3>2, <3>3
    <3> QED BY <3>3, <3>4 DEF m, w
  <2> HIDE DEF length
  <2>2. xRead(a, 1) = SubSeq(d, o + 1, o + 1)
    BY <1>4 DEF xRead, offset, o, length
  <2>3. d = [k \in 1 .. length |-> (a - o) + k - 1]
    BY DEF ujfs_read_diskblocks
  <2>4. a - o \in Int
    BY <1>2
  <2>5. d \in Seq(Int) /\ Len(d) = length
    BY <2>1, <2>3, <2>4
  <2> HIDE DEF d
  <2>6. SubSeq(d, o + 1, o + 1)[1] = d[o + 1]
    BY <1>1, <1>2, <2>1, <2>5
  <2>7. d[o + 1] = a
    BY <1>1, <1>2, <2>1, <2>3
  <2> QED BY <2>2, <2>6, <2>7
<1> QED BY <1>3, <1>4
-----------------------------------------------------------------------------
(* What a page read has established by where it is. *)
Progress ==
  /\ \E n \in Nat : page = n * PAGE
  /\ pc = "inode" => type = "FILE_DATA"
  /\ pc \in {"idle", "inode", "lookup"} => overrun = 0
  /\ pc \in {"lookup", "read"} /\ type = "FILE_DATA" => inode = Inode(inum, file)
  /\ pc = "read" /\ type = "DISK" => addr = page /\ overrun = 0
  /\ pc = "read" /\ type = "FILE_DATA" =>
       /\ page < st_size /\ overrun = Overrun
       /\ xt_Lookup(file, page \div PAGE) # NoBlock
       /\ addr = xt_Lookup(file, page \div PAGE) * PAGE

(* The kernel's page is never unlocked. *)
ReadOnly == mem \in {"none", "locked"}

IInv == TypeOK /\ Progress /\ ReadOnly /\ RightInode

LEMMA Sizes ==
  ASSUME TypeOK
  PROVE  /\ inum \in Nat /\ st_size \in Nat /\ PAGE \in Nat \ {0}
         /\ page \in Nat /\ addr \in Nat /\ overrun \in 0 .. PAGE - 1
         /\ \A x : xt_Lookup(file, x) \in Nat \cup {NoBlock}
BY PageAssumption, MapAssumption DEF TypeOK, st_size, xt_Lookup

LEMMA InodeFields ==
  /\ inode = Inode(inum, file) => /\ inode.number = inum
                                  /\ \A x : xt_Lookup(inode, x) = xt_Lookup(file, x)
  /\ inode = Inode(-1, Empty) => inode.number = -1
BY DEF Inode, xt_Lookup

LEMMA InitIInv == Init => IInv
<1> SUFFICES ASSUME Init PROVE IInv
  OBVIOUS
<1>1. PAGE \in Nat \ {0}
  BY MapAssumption
<1>2. 0 = 0 * PAGE
  BY <1>1
<1>3. TypeOK
  <2>1. 0 \in 0 .. PAGE - 1 /\ 0 \in Nat
    BY <1>1
  <2>2. failed \in BOOLEAN
    BY DEF Init
  <2> QED BY <2>1, <2>2 DEF Init, TypeOK
<1>4. Progress
  BY <1>2 DEF Init, Progress
<1> QED BY <1>3, <1>4 DEF Init, IInv, ReadOnly, RightInode

(* A page of zeros and a page of the store are buffers. *)
LEMMA ZeroPageOK == ZeroPage \in [1 .. PAGE -> (0 .. StoreSize - 1) \cup {Zero}]
BY DEF ZeroPage

LEMMA ClearedPageOK ==
  ASSUME TypeOK, ~Short
  PROVE  ClearedPage \in [1 .. PAGE -> (0 .. StoreSize - 1) \cup {Zero}]
<1>1. \A k \in 1 .. PAGE : addr + k - 1 \in 0 .. StoreSize - 1
  BY Sizes, PageAssumption DEF Short
<1> QED BY <1>1 DEF ClearedPage

(* Only the pages that end behind the end of the file have an overrun. *)
LEMMA OverrunOK ==
  ASSUME TypeOK, page < st_size
  PROVE  Overrun \in 0 .. PAGE - 1
BY Sizes DEF Overrun

LEMMA StepIInv == IInv /\ [Next]_vars => IInv'
<1> SUFFICES ASSUME IInv, [Next]_vars PROVE IInv'
  OBVIOUS
<1>0. TypeOK /\ Progress /\ ReadOnly /\ RightInode
  BY DEF IInv
<1>1. ASSUME NEW ty \in {"FILE_DATA", "DISK"}, NEW n \in 0 .. MaxPage, PageIn(ty, n)
      PROVE  IInv'
  <2>1. n \in Nat /\ n * PAGE \in Nat
    BY MapAssumption, PageAssumption
  <2>2. TypeOK'
    BY <1>0, <1>1, <2>1 DEF PageIn, disk, TypeOK
  <2>3. Progress'
    <3>1. page' = n * PAGE /\ overrun' = 0
      BY <1>0, <1>1 DEF PageIn, Progress
    <3>2. type' = "FILE_DATA" => pc' = "inode"
      BY <1>1 DEF PageIn
    <3>3. pc' # "read" /\ (pc' = "inode" => type' = "FILE_DATA")
      BY <1>1 DEF PageIn
    <3> QED BY <2>1, <3>1, <3>2, <3>3 DEF Progress
  <2>4. RightInode'
    BY <1>1 DEF PageIn, RightInode
  <2> QED BY <1>0, <1>1, <2>2, <2>3, <2>4 DEF IInv, ReadOnly, PageIn
<1>2. CASE InodeFails
  <2>1. ~Backed(inum)
    BY <1>0, <1>2, Sizes, FindInode DEF InodeFails, NoAddress
  <2>2. TypeOK'
    BY <1>0, <1>2 DEF InodeFails, Return, disk, TypeOK
  <2>3. Progress'
    BY <1>0, <1>2 DEF InodeFails, Return, disk, Progress
  <2>4. RightInode'
    BY <1>0, <1>2, <2>1 DEF InodeFails, Return, disk, RightInode, Backed
  <2> QED BY <1>0, <1>2, <2>2, <2>3, <2>4 DEF IInv, ReadOnly, InodeFails
<1>3. CASE InodeNoMemory
  <2>2. TypeOK'
    BY <1>0, <1>3 DEF InodeNoMemory, Return, disk, TypeOK
  <2>3. Progress'
    BY <1>0, <1>3 DEF InodeNoMemory, Return, disk, Progress
  <2>4. RightInode'
    BY <1>0, <1>3 DEF InodeNoMemory, Return, disk, RightInode
  <2> QED BY <1>0, <1>3, <2>2, <2>3, <2>4 DEF IInv, ReadOnly, InodeNoMemory
<1>4. CASE ReadInode
  <2>1. Backed(inum) /\ find_inode(inum) = PlaceOf(inum) /\ find_inode(inum) \in Nat
    BY <1>0, <1>4, Sizes, FindInode DEF ReadInode
  <2>2. inode' = Inode(inum, file)
    BY <1>4, <2>1, xReadUnit DEF ReadInode, InodeAt
  <2>3. TypeOK'
    BY <1>0, <1>4 DEF ReadInode, disk, TypeOK
  <2>4. Progress'
    BY <1>0, <1>4, <2>2 DEF ReadInode, disk, Progress, Inode
  <2>5. RightInode'
    BY <1>4, <2>2 DEF ReadInode, disk, RightInode, Inode
  <2> QED BY <1>0, <1>4, <2>3, <2>4, <2>5 DEF IInv, ReadOnly, ReadInode
<1>5. CASE LookupMiss
  <2>1. TypeOK'
    BY <1>0, <1>5, ZeroPageOK DEF LookupMiss, Return, disk, TypeOK
  <2>2. Progress'
    BY <1>0, <1>5 DEF LookupMiss, Return, disk, Progress
  <2>3. RightInode'
    BY <1>0, <1>5 DEF LookupMiss, Return, disk, RightInode
  <2> QED BY <1>0, <1>5, <2>1, <2>2, <2>3 DEF IInv, ReadOnly, LookupMiss
<1>6. CASE LookupHit
  <2>1. inode = Inode(inum, file)
    BY <1>0, <1>6 DEF LookupHit, Progress
  <2> DEFINE block == xt_Lookup(file, page \div PAGE)
  <2>2. block \in Nat /\ block # NoBlock /\ addr' = block * PAGE
    BY <1>0, <1>6, <2>1, Sizes, InodeFields DEF LookupHit
  <2>3. addr' \in Nat
    <3> HIDE DEF block
    <3> QED BY <2>2, MapAssumption
  <2>4. UNCHANGED <<inum, file, type, page, inode, failed, mem>>
    BY <1>6 DEF LookupHit, disk
  <2>5. CASE page >= st_size
    <3>1. pc' = "done" /\ buf' = ZeroPage /\ ret' = "0" /\ overrun' = overrun
      BY <1>6, <2>5 DEF LookupHit, Return
    <3>2. TypeOK'
      BY <1>0, <2>3, <2>4, <3>1, ZeroPageOK DEF TypeOK
    <3>3. Progress'
      BY <1>0, <2>4, <3>1 DEF Progress
    <3>4. RightInode'
      BY <1>0, <1>6, <2>4, <3>1 DEF RightInode, LookupHit
    <3> QED BY <1>0, <2>4, <3>2, <3>3, <3>4 DEF IInv, ReadOnly
  <2>6. CASE ~(page >= st_size)
    <3>1. pc' = "read" /\ overrun' = Overrun /\ UNCHANGED <<buf, ret>>
      BY <1>6, <2>6 DEF LookupHit
    <3>2. page < st_size
      BY <1>0, <2>6, Sizes
    <3>3. TypeOK'
      BY <1>0, <2>3, <2>4, <3>1, <3>2, OverrunOK DEF TypeOK
    <3>4. st_size' = st_size /\ Overrun' = Overrun
      BY <2>4 DEF st_size, Overrun
    <3>5. xt_Lookup(file, page \div PAGE)' = block
      BY <2>4 DEF xt_Lookup
    <3>6. Progress'
      <4>1. \E n \in Nat : page' = n * PAGE
        BY <1>0, <2>4 DEF Progress
      <4>2. (inode = Inode(inum, file))'
        BY <2>1, <2>4 DEF Inode
      <4>3. type' = "FILE_DATA"
        BY <1>6, <2>4 DEF LookupHit
      <4> HIDE DEF block
      <4> QED BY <2>2, <2>4, <3>1, <3>2, <3>4, <3>5, <4>1, <4>2, <4>3 DEF Progress
    <3>7. RightInode'
      BY <3>1 DEF RightInode
    <3> QED BY <1>0, <2>4, <3>3, <3>6, <3>7 DEF IInv, ReadOnly
  <2> QED BY <2>5, <2>6
<1>7. CASE DiskAddress
  <2>1. TypeOK'
    BY <1>0, <1>7 DEF DiskAddress, disk, TypeOK
  <2>2. Progress'
    BY <1>0, <1>7 DEF DiskAddress, disk, Progress
  <2>3. RightInode'
    BY <1>7 DEF DiskAddress, RightInode
  <2> QED BY <1>0, <1>7, <2>1, <2>2, <2>3 DEF IInv, ReadOnly, DiskAddress
<1>8. CASE StoreRead
  <2>1. TypeOK'
    BY <1>0, <1>8, ClearedPageOK DEF StoreRead, Return, disk, TypeOK
  <2>2. Progress'
    BY <1>0, <1>8 DEF StoreRead, Return, disk, Progress
  <2>3. RightInode'
    BY <1>0, <1>8, InodeFields DEF StoreRead, Return, disk, RightInode, Progress
  <2> QED BY <1>0, <1>8, <2>1, <2>2, <2>3 DEF IInv, ReadOnly, StoreRead
<1>9. CASE Supply
  <2>1. 0 = 0 * PAGE /\ PAGE \in Nat \ {0}
    BY MapAssumption
  <2>2. TypeOK'
    <3>1. 0 \in 0 .. PAGE - 1 /\ 0 \in Nat
      BY <2>1
    <3>2. failed' \in BOOLEAN
      BY <1>9 DEF Supply
    <3> QED BY <1>0, <1>9, <3>1, <3>2 DEF Supply, Supplied, disk, TypeOK
  <2>3. Progress'
    BY <1>9, <2>1 DEF Supply, Progress
  <2>4. RightInode'
    BY <1>9 DEF Supply, RightInode
  <2> QED BY <1>0, <1>9, <2>2, <2>3, <2>4 DEF IInv, ReadOnly, Supply, Supplied
<1>10. CASE Kernel
  <2>1. mem' \in {"none", "locked"}
    BY <1>0, <1>10 DEF Kernel, Transition, Unlocked, ReadOnly
  <2>2. TypeOK'
    BY <1>0, <1>10, <2>1 DEF Kernel, disk, TypeOK
  <2>3. Progress'
    BY <1>0, <1>10 DEF Kernel, disk, Progress
  <2>4. RightInode'
    BY <1>0, <1>10 DEF Kernel, disk, RightInode
  <2> QED BY <2>1, <2>2, <2>3, <2>4 DEF IInv, ReadOnly
<1>11. CASE UNCHANGED vars
  <2>1. TypeOK'
    BY <1>0, <1>11 DEF vars, TypeOK
  <2>2. Progress'
    BY <1>0, <1>11 DEF vars, Progress, st_size, Overrun, Inode, xt_Lookup
  <2>3. RightInode'
    BY <1>0, <1>11 DEF vars, RightInode, Backed
  <2> QED BY <1>0, <1>11, <2>1, <2>2, <2>3 DEF vars, IInv, ReadOnly
<1>12. CASE StoreFails
  <2>1. TypeOK'
    BY <1>0, <1>12 DEF StoreFails, Return, disk, TypeOK
  <2>2. Progress'
    BY <1>0, <1>12 DEF StoreFails, Return, disk, Progress
  <2>3. RightInode'
    BY <1>0, <1>12, InodeFields DEF StoreFails, Return, disk, RightInode, Progress
  <2> QED BY <1>0, <1>12, <2>1, <2>2, <2>3 DEF IInv, ReadOnly, StoreFails
<1> QED BY <1>1, <1>2, <1>3, <1>4, <1>5, <1>6, <1>7, <1>8, <1>9, <1>10, <1>11, <1>12 DEF Next
-----------------------------------------------------------------------------
(* With blocks as large as pages, the units of a page are those of a block. *)
LEMMA OneBlock ==
  ASSUME BSIZE = PAGE, TypeOK, Progress, NEW k \in 1 .. PAGE
  PROVE  /\ Offset(k) \in Nat /\ Offset(k) \div BSIZE = page \div PAGE
         /\ Offset(k) % BSIZE = k - 1
<1>1. PICK n \in Nat : page = n * PAGE
  BY DEF Progress
<1>2. PAGE \in Nat \ {0} /\ page \in Nat /\ k - 1 \in 0 .. PAGE - 1 /\ 0 \in 0 .. PAGE - 1
  BY Sizes
<1>3. (n * PAGE + (k - 1)) \div PAGE = n /\ (n * PAGE + (k - 1)) % PAGE = k - 1
  BY <1>2, DivisionUnique
<1>4. (n * PAGE + 0) \div PAGE = n
  BY <1>2, DivisionUnique
<1>5. Offset(k) = n * PAGE + (k - 1) /\ page = n * PAGE + 0
  BY <1>1, <1>2 DEF Offset
<1>6. Offset(k) \in Nat
  BY <1>2 DEF Offset
<1> QED BY <1>3, <1>4, <1>5, <1>6

(* What store_read and bzero leave in the buffer of a file's page. *)
LEMMA FilePage ==
  ASSUME BSIZE = PAGE, IInv, pc = "read", type = "FILE_DATA", NEW k \in 1 .. PAGE
  PROVE  ClearedPage[k] = IF Offset(k) < st_size THEN UnitOf(file, Offset(k)) ELSE Zero
<1> DEFINE block == xt_Lookup(file, page \div PAGE)
<1>0. TypeOK /\ Progress
  BY DEF IInv
<1>1. /\ page < st_size /\ overrun = Overrun /\ block # NoBlock /\ addr = block * PAGE
      /\ block \in Nat
  BY <1>0, Sizes DEF Progress
<1>2. Offset(k) \div BSIZE = page \div PAGE /\ Offset(k) % BSIZE = k - 1
  BY <1>0, OneBlock
<1>3. UnitOf(file, Offset(k)) = block * BSIZE + (k - 1)
  BY <1>1, <1>2 DEF UnitOf
<1>4. ClearedPage[k] = IF k > PAGE - overrun THEN Zero ELSE addr + k - 1
  BY DEF ClearedPage
<1>5. k > PAGE - overrun <=> ~(Offset(k) < st_size)
  BY <1>0, <1>1, Sizes DEF Overrun, Offset
<1>6. block * BSIZE + (k - 1) = addr + k - 1
  BY <1>0, <1>1, Sizes
<1> QED BY <1>3, <1>4, <1>5, <1>6

LEMMA StepContents ==
  ASSUME BSIZE = PAGE, IInv, IInv', PageContents, [Next]_vars
  PROVE  PageContents'
<1>0. TypeOK /\ Progress
  BY DEF IInv
<1> SUFFICES ASSUME pc' = "done", ret' = "0", NEW k \in 1 .. PAGE
             PROVE  /\ type' = "DISK" => buf'[k] = Offset(k)'
                    /\ type' = "FILE_DATA" /\ Offset(k)' < st_size' =>
                         buf'[k] = UnitOf(file, Offset(k))'
                    /\ type' = "FILE_DATA" /\ ~(Offset(k)' < st_size') => buf'[k] = Zero
  <2>1. ASSUME pc' = "done", ret' = "0", NEW k \in 1 .. PAGE
        PROVE  Offset(k)' >= st_size' <=> ~(Offset(k)' < st_size')
    <3>1. TypeOK' => page' \in Nat /\ st_size' \in Nat
      BY PageAssumption DEF TypeOK, st_size
    <3> QED BY <3>1 DEF IInv, Offset
  <2>2. type' = "DISK" \/ type' = "FILE_DATA"
    BY DEF IInv, TypeOK
  <2> QED BY <2>1, <2>2 DEF PageContents
<1>1. page' = page /\ type' = type /\ file' = file => Offset(k)' = Offset(k) /\ st_size' = st_size
  BY DEF Offset, st_size
<1>2. CASE LookupMiss \/ (LookupHit /\ page >= st_size)
  <2>1. page >= st_size /\ buf' = ZeroPage /\ type' = "FILE_DATA" /\ page' = page /\ file' = file
    BY <1>2 DEF LookupMiss, LookupHit, Return, disk
  <2>2. ~(Offset(k) < st_size)
    BY <1>0, <2>1, Sizes DEF Offset
  <2> QED BY <1>1, <1>2, <2>1, <2>2 DEF ZeroPage, LookupMiss, LookupHit
<1>3. CASE StoreRead
  <2>1. /\ buf' = ClearedPage /\ pc = "read"
        /\ page' = page /\ type' = type /\ file' = file
    BY <1>3 DEF StoreRead, Return, disk
  <2>2. CASE type = "DISK"
    <3>1. addr = page /\ overrun = 0
      BY <1>0, <2>1, <2>2 DEF Progress
    <3>2. ClearedPage[k] = addr + k - 1
      BY <1>0, <3>1, Sizes DEF ClearedPage
    <3> QED BY <1>1, <2>1, <2>2, <3>1, <3>2 DEF Offset
  <2>3. CASE type = "FILE_DATA"
    <3>1. UnitOf(file, Offset(k))' = UnitOf(file, Offset(k))
      BY <2>1 DEF UnitOf, Offset, xt_Lookup
    <3> QED BY <1>1, <2>1, <2>3, <3>1, FilePage
  <2> QED BY <1>0, <2>2, <2>3 DEF TypeOK
<1>4. CASE UNCHANGED vars
  <2>1. buf[k] = CASE type = "DISK"        -> Offset(k)
                 [] type = "FILE_DATA" /\ Offset(k) < st_size  -> UnitOf(file, Offset(k))
                 [] type = "FILE_DATA" /\ Offset(k) >= st_size -> Zero
    BY <1>4 DEF vars, PageContents
  <2>2. Offset(k) >= st_size <=> ~(Offset(k) < st_size)
    BY <1>0, Sizes DEF Offset
  <2>3. UnitOf(file, Offset(k))' = UnitOf(file, Offset(k))
    BY <1>4 DEF vars, UnitOf, Offset, xt_Lookup
  <2> QED BY <1>1, <1>4, <2>1, <2>2, <2>3 DEF vars
<1>5. CASE ~(LookupMiss \/ (LookupHit /\ page >= st_size)) /\ ~StoreRead /\ ~UNCHANGED vars
  <2>1. \/ \E ty \in {"FILE_DATA", "DISK"}, n \in 0 .. MaxPage : PageIn(ty, n)
        \/ InodeFails \/ InodeNoMemory \/ ReadInode \/ (LookupHit /\ ~(page >= st_size))
        \/ DiskAddress \/ StoreFails \/ Supply \/ Kernel
    BY <1>5 DEF Next
  <2> QED BY <2>1 DEF PageIn, InodeFails, InodeNoMemory, ReadInode, LookupHit, DiskAddress,
                      StoreFails, Supply, Kernel, Return
<1> QED BY <1>2, <1>3, <1>4, <1>5

LEMMA StepMapped ==
  ASSUME BSIZE = PAGE, IInv, MappedPageRead, [Next]_vars
  PROVE  MappedPageRead'
<1>0. TypeOK /\ Progress
  BY DEF IInv
<1> SUFFICES ASSUME pc' = "done", type' = "FILE_DATA", Backed(inum)', ~failed',
                    \A k \in 1 .. PAGE : Offset(k)' < st_size' => InStore(file, Offset(k))'
             PROVE  ret' = "0"
  BY DEF MappedPageRead
<1>1. CASE UNCHANGED vars
  BY <1>1 DEF vars, MappedPageRead, Backed, Offset, st_size, InStore, xt_Lookup
<1>2. CASE InodeFails
  <2>1. Backed(inum)
    BY <1>2 DEF InodeFails, disk, Backed
  <2> QED BY <1>0, <1>2, <2>1, Sizes, FindInode DEF InodeFails, NoAddress
<1>3. ASSUME pc \in {"lookup", "read"}, type = "FILE_DATA", page < st_size,
             UNCHANGED <<page, file>>
      PROVE  /\ xt_Lookup(file, page \div PAGE) # NoBlock
             /\ (xt_Lookup(file, page \div PAGE) + 1) * PAGE <= StoreSize
  <2>1. 1 \in 1 .. PAGE /\ Offset(1) = page /\ Offset(1) \div BSIZE = page \div PAGE
    <3>1. 1 \in 1 .. PAGE /\ Offset(1) = page
      BY <1>0, Sizes DEF Offset
    <3> QED BY <1>0, <3>1, OneBlock
  <2>2. InStore(file, Offset(1))
    <3>1. Offset(1)' < st_size' => InStore(file, Offset(1))'
      BY <2>1
    <3> QED BY <1>3, <2>1, <3>1 DEF Offset, st_size, InStore, xt_Lookup
  <2> QED BY <2>1, <2>2 DEF InStore
<1>4. CASE LookupMiss
  <2>1. CASE page >= st_size
    BY <1>4, <2>1 DEF LookupMiss, Return
  <2>2. CASE ~(page >= st_size)
    <3>1. page < st_size
      BY <1>0, <2>2, Sizes
    <3>2. xt_Lookup(file, page \div PAGE) = NoBlock
      BY <1>0, <1>4, InodeFields DEF LookupMiss, Progress
    <3> QED BY <1>3, <1>4, <3>1, <3>2 DEF LookupMiss, disk
  <2> QED BY <2>1, <2>2
<1>5. CASE StoreRead
  <2> DEFINE block == xt_Lookup(file, page \div PAGE)
  <2>1. UNCHANGED <<page, file, type>> /\ type = "FILE_DATA" /\ pc = "read"
    BY <1>5 DEF StoreRead, disk
  <2>2. page < st_size /\ block \in Nat /\ addr = block * PAGE
    BY <1>0, <2>1, Sizes DEF Progress
  <2>3. (block + 1) * PAGE <= StoreSize
    BY <1>3, <2>1, <2>2
  <2>4. (block + 1) * PAGE = addr + PAGE
    <3> HIDE DEF block
    <3> QED BY <2>2, MapAssumption
  <2>5. ~Short
    BY <1>0, <2>3, <2>4, Sizes, PageAssumption DEF Short
  <2> QED BY <1>5, <2>5 DEF StoreRead, Return
<1>6. CASE ~InodeFails /\ ~LookupMiss /\ ~StoreRead /\ ~UNCHANGED vars
  <2>1. \/ \E ty \in {"FILE_DATA", "DISK"}, n \in 0 .. MaxPage : PageIn(ty, n)
        \/ InodeNoMemory \/ ReadInode \/ LookupHit \/ DiskAddress \/ StoreFails
        \/ Supply \/ Kernel
    BY <1>6 DEF Next
  <2> QED BY <2>1 DEF PageIn, InodeNoMemory, ReadInode, LookupHit, DiskAddress,
                      StoreFails, Supply, Kernel, Return
<1> QED BY <1>1, <1>2, <1>4, <1>5, <1>6

-----------------------------------------------------------------------------
(***************************************************************************)
(* The variables of pager_read_page stay in their types: the bytes to      *)
(* clear (overrun) are fewer than a page has, and a buffer returned holds  *)
(* only what is in the store, or zeros.                                    *)
(***************************************************************************)
THEOREM TypeCorrect == Spec => []TypeOK
BY InitIInv, StepIInv, PTL DEF Spec, IInv

(***************************************************************************)
(* For every inode map, find_inode and xRead lead to the inode with the    *)
(* number looked for, and fail only for an inode that does not exist.      *)
(***************************************************************************)
THEOREM InodeIsRight == Spec => []RightInode
BY InitIInv, StepIInv, PTL DEF Spec, IInv

(***************************************************************************)
(* pager_write_page is never called: no page becomes writable.             *)
(***************************************************************************)
THEOREM NeverWrittenBack == Spec => []NoWriteBack
<1>1. IInv => NoWriteBack
  BY DEF IInv, ReadOnly, NoWriteBack
<1> QED BY <1>1, InitIInv, StepIInv, PTL DEF Spec

(***************************************************************************)
(* With blocks as large as pages, as 4096 in pager.c has it, a page read   *)
(* without an error is that page of the file or of the store, for files of *)
(* every size and layout. It has an extent, or it is behind the end of the *)
(* file: for a hole inside the file an error is returned. (With smaller    *)
(* blocks the page is not that of the file: see the run page_read_blocks.) *)
(***************************************************************************)
THEOREM ContentsRight == ASSUME BSIZE = PAGE PROVE Spec => []PageContents
<1>1. Init => PageContents
  BY DEF Init, PageContents
<1>2. IInv /\ IInv' /\ PageContents /\ [Next]_vars => PageContents'
  BY StepContents
<1> QED BY <1>1, <1>2, InitIInv, StepIInv, PTL DEF Spec

(***************************************************************************)
(* With such blocks, unless malloc or store_read fails, every page of an   *)
(* existing file whose blocks are in the store is read.                    *)
(***************************************************************************)
THEOREM MappedIsRead == ASSUME BSIZE = PAGE PROVE Spec => []MappedPageRead
<1>1. Init => MappedPageRead
  BY DEF Init, MappedPageRead
<1>2. IInv /\ MappedPageRead /\ [Next]_vars => MappedPageRead'
  BY StepMapped
<1> QED BY <1>1, <1>2, InitIInv, StepIInv, PTL DEF Spec
=============================================================================
