--------------------------- MODULE UnicodeProofs ---------------------------
(***************************************************************************)
(* Proofs about Unicode, for names of any length and entries of any size:  *)
(* the slots are gathered into the name on disk, the conversion never      *)
(* writes more bytes than the name has characters, ASCII names come out    *)
(* unchanged, and what is written is made of whole characters.             *)
(***************************************************************************)
EXTENDS Unicode, TLAPS

(* Reading a row of the table. *)
LEMMA RowOK ==
  ASSUME NEW t \in 1 .. 6
  PROVE  /\ utf8_table[t].cval \in Nat
         /\ utf8_table[t].unit \in Nat \ {0}
<1>1. t = 1 \/ t = 2 \/ t = 3 \/ t = 4 \/ t = 5 \/ t = 6
  OBVIOUS
<1> QED BY <1>1 DEF utf8_table

(* The row found is one the loop can reach with the room there is. *)
LEMMA FirstRowOK ==
  ASSUME NEW wc \in UniChar, NEW room \in Nat, Rows(wc, room) # {}
  PROVE  FirstRow(wc, room) \in Rows(wc, room)
<1> DEFINE R == Rows(wc, room)
<1>1. R \subseteq 1 .. 6
  BY DEF Rows
<1>2. \E t \in R : \A u \in R : t <= u
  <2>1. PICK r \in R : TRUE
    OBVIOUS
  <2>2. \/ 1 \in R
        \/ 1 \notin R /\ 2 \in R
        \/ 1 \notin R /\ 2 \notin R /\ 3 \in R
        \/ 1 \notin R /\ 2 \notin R /\ 3 \notin R /\ 4 \in R
        \/ 1 \notin R /\ 2 \notin R /\ 3 \notin R /\ 4 \notin R /\ 5 \in R
        \/ 1 \notin R /\ 2 \notin R /\ 3 \notin R /\ 4 \notin R /\ 5 \notin R /\ 6 \in R
    <3> HIDE DEF R
    <3>1. r = 1 \/ r = 2 \/ r = 3 \/ r = 4 \/ r = 5 \/ r = 6
      BY <1>1, <2>1
    <3> QED BY <2>1, <3>1
  <2> HIDE DEF R
  <2> QED BY <1>1, <2>2
<1> QED BY <1>2 DEF FirstRow

(* A byte that holds a part of a character is a byte. *)
LEMMA ByteOK ==
  ASSUME NEW wc \in UniChar, NEW unit \in Nat \ {0}, NEW cval \in Nat
  PROVE  /\ (cval + (wc \div unit)) % 256 \in Byte
         /\ 128 + ((wc \div unit) % 64) \in Byte
<1>1. wc \div unit \in Int
  BY DEF UniChar
<1> DEFINE q == wc \div unit
<1> HIDE DEF q
<1>2. q \in Int => (cval + q) % 256 \in Byte /\ 128 + (q % 64) \in Byte
  BY DEF Byte
<1> QED BY <1>1, <1>2 DEF q

LEMMA AsciiByte == ASSUME NEW c \in UniChar, c <= 127 PROVE c \in Byte
<1>1. c \in Int /\ c >= 1
  BY DEF UniChar
<1> QED BY <1>1 DEF Byte

(* The bytes of a character fit into the room there is. *)
LEMMA CharacterFits ==
  ASSUME NEW wc \in UniChar, NEW room \in Nat
  PROVE  /\ Unicode_Character_to_UTF8_Character(wc, room) \in Seq(Byte)
         /\ Len(Unicode_Character_to_UTF8_Character(wc, room)) <= room
<1>1. CASE Rows(wc, room) = {}
  BY <1>1 DEF Unicode_Character_to_UTF8_Character
<1>2. CASE Rows(wc, room) # {}
  <2> DEFINE t == FirstRow(wc, room)
             f == [k \in 1 .. t |->
                     IF k = 1 THEN (utf8_table[t].cval + (wc \div utf8_table[t - k + 1].unit)) % 256
                     ELSE 128 + ((wc \div utf8_table[t - k + 1].unit) % 64)]
  <2>1. t \in 1 .. 6 /\ t <= room
    BY <1>2, FirstRowOK DEF Rows
  <2>2. Unicode_Character_to_UTF8_Character(wc, room) = f
    BY <1>2 DEF Unicode_Character_to_UTF8_Character
  <2>3. \A k \in 1 .. t : f[k] \in Byte
    <3> HIDE DEF t
    <3> TAKE k \in 1 .. t
    <3>1. t - k + 1 \in 1 .. 6
      BY <2>1
    <3>2. utf8_table[t].cval \in Nat /\ utf8_table[t - k + 1].unit \in Nat \ {0}
      BY <2>1, <3>1, RowOK
    <3> DEFINE c == utf8_table[t].cval
               u == utf8_table[t - k + 1].unit
    <3>3. (c + (wc \div u)) % 256 \in Byte /\ 128 + ((wc \div u) % 64) \in Byte
      BY <3>2, ByteOK
    <3>4. f[k] = IF k = 1 THEN (c + (wc \div u)) % 256 ELSE 128 + ((wc \div u) % 64)
      OBVIOUS
    <3> HIDE DEF f, c, u
    <3> QED BY <3>3, <3>4
  <2>4. f \in [1 .. t -> Byte]
    <3>1. f = [k \in 1 .. t |-> f[k]]
      OBVIOUS
    <3> HIDE DEF f, t
    <3> QED BY <2>3, <3>1
  <2> HIDE DEF f, t
  <2>5. f \in Seq(Byte) /\ Len(f) = t
    BY <2>1, <2>4
  <2> QED BY <2>1, <2>2, <2>5
<1> QED BY <1>1, <1>2

-----------------------------------------------------------------------------
(* While the slots are walked, the entry itself has been read; until the     *)
(* conversion begins there is no output.                                     *)
Walking ==
  /\ pc = "gather" => entry \in DirEntry /\ next >= 2
  /\ pc \in {"idle", "gather"} => ip = 1 /\ out = <<>> /\ maxlen = 0

IInv == TypeOK /\ OutputFits /\ Walking

LEMMA InitIInv == Init => IInv
BY DEF Init, IInv, TypeOK, OutputFits, Walking, NoEntry

LEMMA EntryOK ==
  ASSUME TypeOK
  PROVE  /\ entry.namlen \in Nat /\ Len(entry.chain) \in Nat
         /\ \A l \in 1 .. Len(entry.chain) : entry.chain[l] \in Seq(UniChar)
<1>1. entry \in DirEntry \/ entry = NoEntry
  BY DEF TypeOK
<1>2. CASE entry \in DirEntry
  BY <1>2, EntryAssumption
<1>3. CASE entry = NoEntry
  BY <1>3 DEF NoEntry
<1> QED BY <1>1, <1>2, <1>3

LEMMA QuotientNat ==
  ASSUME NEW k \in Nat, NEW d \in Nat \ {0}
  PROVE  k \div d \in Nat
OBVIOUS

LEMMA LinkLength ==
  ASSUME NEW e \in DirEntry, NEW l \in 1 .. Len(e.chain)
  PROVE  /\ e.chain[l] \in Seq(UniChar)
         /\ l = 1 => Len(e.chain[l]) = DTLHDRDATALEN
         /\ l # 1 => Len(e.chain[l]) = DTSLOTDATALEN
<1>1. e.chain \in Seq(Seq(UniChar))
  BY EntryAssumption
<1>2. Len(e.chain[l]) = IF l = 1 THEN DTLHDRDATALEN ELSE DTSLOTDATALEN
  BY EntryAssumption
<1> QED BY <1>1, <1>2

(* The first link is there and has the room that Start copies from. *)
LEMMA FirstLink ==
  ASSUME NEW e \in DirEntry
  PROVE  /\ e.namlen \in Nat \ {0} /\ Len(e.chain) \in Nat \ {0}
         /\ e.chain[1] \in Seq(UniChar) /\ Len(e.chain[1]) = DTLHDRDATALEN
<1>1. Len(e.chain) \in Nat /\ Len(e.chain) = LinkOf(e.namlen) /\ e.namlen \in Nat \ {0}
  BY EntryAssumption
<1>2. Len(e.chain) >= 1
  <2>1. CASE e.namlen <= DTLHDRDATALEN
    BY <1>1, <2>1 DEF LinkOf
  <2>2. CASE ~(e.namlen <= DTLHDRDATALEN)
    <3> DEFINE k == e.namlen - DTLHDRDATALEN - 1
    <3>1. k \in Nat /\ k \div DTSLOTDATALEN \in Nat
      BY <1>1, <2>2, EntryAssumption, QuotientNat
    <3>2. Len(e.chain) = 2 + k \div DTSLOTDATALEN
      BY <1>1, <2>2 DEF LinkOf
    <3> HIDE DEF k
    <3> QED BY <3>1, <3>2
  <2> QED BY <2>1, <2>2
<1> QED BY <1>1, <1>2, LinkLength

LEMMA LeastOK ==
  ASSUME NEW a \in Nat, NEW b \in Nat
  PROVE  Least(a, b) \in 0 .. a /\ Least(a, b) <= b
BY DEF Least

LEMMA SubSeqOK ==
  ASSUME NEW s \in Seq(UniChar), NEW n \in 0 .. Len(s)
  PROVE  SubSeq(s, 1, n) \in Seq(UniChar)
OBVIOUS

(* A character of the name, while there is one. *)
LEMMA MoreChar ==
  ASSUME TypeOK, More
  PROVE  /\ name \in Seq(UniChar) /\ name[ip] \in UniChar
         /\ ip \in Nat /\ ip <= Len(name) /\ maxlen \in Nat \ {0}
BY EntryOK DEF TypeOK, More

LEMMA StepIInv == IInv /\ [Next]_vars => IInv'
<1> SUFFICES ASSUME IInv, [Next]_vars PROVE IInv'
  OBVIOUS
<1> USE DEF IInv
<1>0. /\ name \in Seq(UniChar) /\ Len(name) \in Nat
      /\ entry.namlen \in Nat /\ Len(entry.chain) \in Nat
  BY EntryOK DEF TypeOK
<1>1. ASSUME NEW e \in DirEntry, Start(e) PROVE IInv'
  <2>1. /\ e.namlen \in Nat /\ Len(e.chain) \in Nat \ {0}
        /\ e.chain[1] \in Seq(UniChar) /\ Len(e.chain[1]) = DTLHDRDATALEN
    BY FirstLink
  <2>2. len' \in 0 .. e.namlen /\ len' <= DTLHDRDATALEN
    BY <1>1, <2>1, LeastOK, EntryAssumption DEF Start
  <2>3. name' \in Seq(UniChar)
    BY <1>1, <2>1, <2>2, SubSeqOK DEF Start
  <2> QED BY <1>0, <1>1, <2>1, <2>2, <2>3 DEF Start, TypeOK, OutputFits, Walking
<1>8. CASE Slot
  <2>1. entry \in DirEntry /\ next \in 2 .. Len(entry.chain)
    BY <1>0, <1>8 DEF Slot, Walking, TypeOK
  <2>2. entry.chain[next] \in Seq(UniChar) /\ Len(entry.chain[next]) = DTSLOTDATALEN
    BY <2>1, LinkLength
  <2>3. namlen' \in 0 .. entry.namlen
    BY <1>0, <1>8 DEF Slot, WhatIsLeft, TypeOK
  <2>4. len' \in 0 .. namlen' /\ len' <= DTSLOTDATALEN
    BY <1>8, <2>3, LeastOK, EntryAssumption DEF Slot
  <2>5. name' \in Seq(UniChar) /\ Len(name') >= Len(name)
    <3>1. SubSeq(entry.chain[next], 1, len') \in Seq(UniChar)
      BY <2>2, <2>3, <2>4, SubSeqOK
    <3> DEFINE piece == SubSeq(entry.chain[next], 1, len')
    <3>2. name' = name \o piece
      BY <1>8 DEF Slot
    <3> HIDE DEF piece
    <3> QED BY <1>0, <3>1, <3>2 DEF piece
  <2> QED BY <1>0, <1>8, <2>1, <2>3, <2>4, <2>5 DEF Slot, TypeOK, OutputFits, Walking
<1>9. CASE Convert
  BY <1>0, <1>9 DEF Convert, slotVars, Room, TypeOK, OutputFits, Walking
<1>2. CASE Ascii
  <2>1. name[ip] \in Byte
    <3>1. name[ip] \in UniChar /\ name[ip] <= 127
      BY <1>2, MoreChar DEF Ascii
    <3> QED BY <3>1, AsciiByte
  <2> QED BY <1>0, <1>2, <2>1, MoreChar DEF Ascii, slotVars, TypeOK, OutputFits, Walking
<1>3. CASE Wide
  <2> DEFINE bytes == Unicode_Character_to_UTF8_Character(name[ip], maxlen)
  <2>1. bytes \in Seq(Byte) /\ Len(bytes) <= maxlen
    BY <1>3, MoreChar, CharacterFits DEF Wide
  <2>2. /\ out' = out \o bytes /\ maxlen' = maxlen - Len(bytes)
        /\ ip' = ip + 1 /\ UNCHANGED <<pc, entry, namlen, len, next, name>>
    BY <1>3 DEF Wide, Size, slotVars
  <2> HIDE DEF bytes
  <2>3. More
    BY <1>3 DEF Wide
  <2>4. out' \in Seq(Byte) /\ Len(out') = Len(out) + Len(bytes)
    BY <2>1, <2>2 DEF TypeOK
  <2>5. Len(bytes) \in Nat /\ Len(out) \in Nat
    BY <2>1 DEF TypeOK
  <2> QED BY <1>0, <2>1, <2>2, <2>3, <2>4, <2>5, MoreChar DEF TypeOK, OutputFits, Walking
<1>4. CASE Ignore
  BY <1>0, <1>4, MoreChar DEF Ignore, slotVars, TypeOK, OutputFits, Walking
<1>5. CASE Finish
  BY <1>5 DEF Finish, slotVars, TypeOK, OutputFits, Walking
<1>6. CASE Return
  BY <1>6 DEF Return, NoEntry, TypeOK, OutputFits, Walking
<1>7. CASE UNCHANGED vars
  BY <1>7 DEF vars, slotVars, TypeOK, OutputFits, Walking
<1> QED BY <1>1, <1>2, <1>3, <1>4, <1>5, <1>6, <1>7, <1>8, <1>9 DEF Next, Step

(***************************************************************************)
(* Unicode_String_to_UTF8_String keeps its variables in range.             *)
(***************************************************************************)
THEOREM TypeCorrect == Spec => []TypeOK
BY InitIInv, StepIInv, PTL DEF Spec, IInv

(***************************************************************************)
(* For names of any length and any characters the bytes written fit into   *)
(* the namlen bytes that the callers of the conversion read.               *)
(***************************************************************************)
THEOREM ConversionFits == Spec => []OutputFits
BY InitIInv, StepIInv, PTL DEF Spec, IInv

-----------------------------------------------------------------------------
(* Gathering the name: the piece in hand begins at a slot boundary unless    *)
(* nothing is left.                                                          *)

(* Quotient and remainder, as the provers know them. *)
LEMMA Division ==
  ASSUME NEW a \in Int, NEW b \in Nat \ {0}
  PROVE  /\ a \div b \in Int /\ a % b \in 0 .. b - 1
         /\ a = b * (a \div b) + (a % b)
OBVIOUS

LEMMA NextMultiple ==
  ASSUME NEW b \in Nat \ {0}, NEW x \in Int, NEW y \in Int, x < y
  PROVE  b * x + b <= b * y
<1>1. x + 1 <= y
  OBVIOUS
<1>2. b * (x + 1) <= b * y
  BY <1>1
<1>3. b * (x + 1) = b * x + b
  OBVIOUS
<1> QED BY <1>2, <1>3

(* They are unique. *)
LEMMA DivisionUnique ==
  ASSUME NEW b \in Nat \ {0}, NEW q \in Int, NEW r \in 0 .. b - 1
  PROVE  (q * b + r) \div b = q /\ (q * b + r) % b = r
<1> DEFINE a == q * b + r
           p == a \div b
           s == a % b
<1>1. a \in Int /\ q * b \in Int /\ q * b = b * q
  OBVIOUS
<1>2. p \in Int /\ s \in 0 .. b - 1 /\ a = b * p + s
  BY <1>1, Division
<1>3. a = b * q + r
  BY <1>1
<1> HIDE DEF a, p, s
<1>0. b * p \in Int /\ b * q \in Int
  BY <1>2
<1>4. ~(p < q)
  <2> SUFFICES ASSUME p < q PROVE FALSE
    OBVIOUS
  <2>1. b * p + b <= b * q
    BY <1>2, NextMultiple
  <2> QED BY <1>0, <1>2, <1>3, <2>1
<1>5. ~(q < p)
  <2> SUFFICES ASSUME q < p PROVE FALSE
    OBVIOUS
  <2>1. b * q + b <= b * p
    BY <1>2, NextMultiple
  <2> QED BY <1>0, <1>2, <1>3, <2>1
<1>6. p = q
  BY <1>2, <1>4, <1>5
<1>7. s = r
  BY <1>0, <1>2, <1>3, <1>6
<1> QED BY <1>6, <1>7 DEF a, p, s

(* The characters gathered so far. *)
Done == entry.namlen - (namlen - len)

Gathered ==
  /\ pc # "idle" => entry \in DirEntry
  /\ pc = "gather" =>
       /\ Len(name) = Done
       /\ \A k \in 1 .. Done : name[k] = OnDisk(entry)[k]
       /\ namlen - len > 0 => Done = DTLHDRDATALEN + (next - 2) * DTSLOTDATALEN
  /\ NameGathered

LEMMA OnDiskAt ==
  ASSUME NEW e \in DirEntry, NEW k \in 1 .. e.namlen
  PROVE  OnDisk(e)[k] = e.chain[LinkOf(k)][PlaceOf(k)]
BY DEF OnDisk

LEMMA OnDiskFirst ==
  ASSUME NEW e \in DirEntry, NEW k \in 1 .. e.namlen, k <= DTLHDRDATALEN
  PROVE  OnDisk(e)[k] = e.chain[1][k]
BY OnDiskAt DEF LinkOf, PlaceOf

(* Character j of slot l, counted from 2, and its place in the name. *)
LEMMA OnDiskSlot ==
  ASSUME NEW e \in DirEntry, NEW k \in 1 .. e.namlen, NEW l \in Nat, l >= 2,
         NEW j \in 1 .. DTSLOTDATALEN, k = (DTLHDRDATALEN + (l - 2) * DTSLOTDATALEN) + j
  PROVE  OnDisk(e)[k] = e.chain[l][j]
<1> DEFINE H == DTLHDRDATALEN
           S == DTSLOTDATALEN
           q == l - 2
           r == j - 1
<1>1. H \in Nat \ {0} /\ S \in Nat \ {0} /\ q \in Nat /\ r \in 0 .. S - 1 /\ j = r + 1 /\ l = 2 + q
  BY EntryAssumption
<1>2. k = (H + q * S) + j
  OBVIOUS
<1> HIDE DEF H, S, q, r
<1>3. q * S \in Nat
  BY <1>1
<1>4. k > H /\ k - H - 1 = q * S + r
  BY <1>1, <1>2, <1>3
<1>5. (q * S + r) \div S = q /\ (q * S + r) % S = r
  <2>1. q \in Int
    BY <1>1
  <2> QED BY <1>1, <2>1, DivisionUnique
<1>6. ~(k <= H)
  BY <1>1, <1>2, <1>3, <1>4
<1>7. LinkOf(k) = 2 + q /\ PlaceOf(k) = 1 + r
  BY <1>4, <1>5, <1>6 DEF LinkOf, PlaceOf, H, S
<1>8. 1 + r = j
  BY <1>1
<1> QED BY <1>1, <1>7, <1>8, OnDiskAt

(* A chain that is behind its end held the whole name. *)
LEMMA ChainEnds ==
  ASSUME NEW e \in DirEntry, NEW l \in Nat, l > Len(e.chain)
  PROVE  DTLHDRDATALEN + (l - 2) * DTSLOTDATALEN >= e.namlen
<1> DEFINE H == DTLHDRDATALEN
           S == DTSLOTDATALEN
           n == e.namlen
           q == l - 2
<1>1. H \in Nat \ {0} /\ S \in Nat \ {0} /\ n \in Nat \ {0} /\ Len(e.chain) = LinkOf(n)
  BY EntryAssumption
<1>2. Len(e.chain) \in Nat \ {0}
  BY FirstLink
<1>3. q \in Nat
  BY <1>2
<1>4. CASE n <= H
  <2> HIDE DEF H, S, n, q
  <2>1. q * S \in Nat
    BY <1>1, <1>3
  <2>2. H + q * S >= n
    BY <1>1, <1>4, <2>1
  <2> QED BY <2>2 DEF H, S, n, q
<1>5. CASE ~(n <= H)
  <2> DEFINE m == n - H - 1
             d == m \div S
             r == m % S
  <2>1. Len(e.chain) = 2 + d
    BY <1>1, <1>5 DEF LinkOf
  <2>2. m \in Nat
    BY <1>1, <1>5
  <2>3. d \in Int /\ r \in 0 .. S - 1 /\ m = S * d + r
    <3>1. m \in Int /\ S \in Nat \ {0}
      BY <1>1, <2>2
    <3> HIDE DEF m, S
    <3> QED BY <3>1, Division DEF d, r
  <2>4. d < q
    <3> HIDE DEF d
    <3> QED BY <2>1, <2>3
  <2>5. m = n - H - 1
    OBVIOUS
  <2> HIDE DEF H, S, n, q, m, d, r
  <2>6. S * d + S <= S * q
    BY <1>1, <1>3, <2>3, <2>4, NextMultiple
  <2>7. S * d \in Int /\ S * q \in Int /\ S * q = q * S
    BY <1>1, <1>3, <2>3
  <2>8. H + S * q >= n
    BY <1>1, <2>2, <2>3, <2>5, <2>6, <2>7
  <2>9. H + q * S >= n
    BY <2>7, <2>8
  <2> QED BY <2>9 DEF H, S, n, q
<1> QED BY <1>4, <1>5

LEMMA OnDiskName ==
  ASSUME NEW e \in DirEntry, NEW s \in Seq(UniChar), Len(s) = e.namlen,
         \A k \in 1 .. e.namlen : s[k] = OnDisk(e)[k]
  PROVE  s = OnDisk(e)
<1>1. s = [k \in 1 .. Len(s) |-> s[k]]
  OBVIOUS
<1>2. OnDisk(e) = [k \in 1 .. e.namlen |-> OnDisk(e)[k]]
  BY DEF OnDisk
<1> QED BY <1>1, <1>2

(* Two strings, one behind the other. *)
LEMMA Joined ==
  ASSUME NEW S, NEW b \in Seq(S), NEW e \in Seq(S)
  PROVE  /\ b \o e \in Seq(S) /\ Len(b \o e) = Len(b) + Len(e)
         /\ Len(b) \in Nat /\ Len(e) \in Nat
         /\ \A k \in 1 .. Len(b) : (b \o e)[k] = b[k]
         /\ \A k \in 1 .. Len(e) : (b \o e)[Len(b) + k] = e[k]
<1>1. /\ b \o e \in Seq(S) /\ Len(b \o e) = Len(b) + Len(e)
      /\ Len(b) \in Nat /\ Len(e) \in Nat
      /\ \A k \in 1 .. Len(b) : (b \o e)[k] = b[k]
  OBVIOUS
<1>2. ASSUME NEW k \in 1 .. Len(e) PROVE (b \o e)[Len(b) + k] = e[k]
  <2>1. Len(b) + k \in 1 .. Len(b) + Len(e) /\ ~(Len(b) + k <= Len(b)) /\ (Len(b) + k) - Len(b) = k
    BY <1>1
  <2> QED BY <1>1, <2>1
<1> QED BY <1>1, <1>2

LEMMA GatherStep == IInv /\ Gathered /\ [Next]_vars => Gathered'
<1> SUFFICES ASSUME IInv, Gathered, [Next]_vars PROVE Gathered'
  OBVIOUS
<1>0. /\ name \in Seq(UniChar) /\ Len(name) \in Nat /\ entry.namlen \in Nat /\ Len(entry.chain) \in Nat
      /\ namlen \in Nat /\ len \in Nat /\ len <= namlen /\ next \in Nat /\ namlen <= entry.namlen
      /\ DTLHDRDATALEN \in Nat \ {0} /\ DTSLOTDATALEN \in Nat \ {0}
  BY EntryOK, EntryAssumption DEF IInv, TypeOK
<1>1. ASSUME NEW e \in DirEntry, Start(e) PROVE Gathered'
  <2> DEFINE n == e.namlen
             m == Least(n, DTLHDRDATALEN)
             s == e.chain[1]
  <2>1. n \in Nat /\ s \in Seq(UniChar) /\ Len(s) = DTLHDRDATALEN
    BY FirstLink
  <2>2. /\ pc' = "gather" /\ entry' = e /\ next' = 2 /\ namlen' = n /\ len' = m
        /\ name' = SubSeq(s, 1, m)
    BY <1>1 DEF Start
  <2>3. m \in Nat /\ m <= n /\ m <= DTLHDRDATALEN /\ (n - m > 0 => m = DTLHDRDATALEN)
    <3> HIDE DEF n
    <3> QED BY <1>0, <2>1 DEF Least
  <2>4. ASSUME NEW k \in 1 .. m PROVE OnDisk(e)[k] = s[k]
    <3>1. k \in 1 .. e.namlen /\ k <= DTLHDRDATALEN
      <4> HIDE DEF m
      <4> QED BY <1>0, <2>1, <2>3
    <3> QED BY <3>1, OnDiskFirst
  <2> HIDE DEF m, s
  <2>5. Len(name') = m /\ \A k \in 1 .. m : name'[k] = s[k]
    BY <1>0, <2>1, <2>2, <2>3
  <2>6. Done' = m
    <3>1. Done' = n - (n - m)
      BY <2>2 DEF Done
    <3> HIDE DEF n
    <3> QED BY <2>1, <2>3, <3>1
  <2>7. namlen' - len' > 0 => Done' = DTLHDRDATALEN + (next' - 2) * DTSLOTDATALEN
    <3>1. (2 - 2) * DTSLOTDATALEN = 0
      BY <1>0
    <3>2. DTLHDRDATALEN + (2 - 2) * DTSLOTDATALEN = DTLHDRDATALEN
      BY <1>0, <3>1
    <3> HIDE DEF n
    <3> QED BY <2>2, <2>3, <2>6, <3>2
  <2> QED BY <2>2, <2>4, <2>5, <2>6, <2>7 DEF Gathered, NameGathered
<1>2. CASE Slot
  <2> DEFINE n == namlen - len
             m == Least(n, DTSLOTDATALEN)
             s == entry.chain[next]
             piece == SubSeq(s, 1, m)
             D == Done
             base == DTLHDRDATALEN + (next - 2) * DTSLOTDATALEN
  <2>1. /\ entry \in DirEntry /\ next \in 2 .. Len(entry.chain) /\ pc = "gather"
        /\ Len(name) = D /\ (\A k \in 1 .. D : name[k] = OnDisk(entry)[k])
        /\ (n > 0 => D = base)
    BY <1>0, <1>2 DEF Slot, Gathered, IInv, Walking
  <2>2. s \in Seq(UniChar) /\ Len(s) = DTSLOTDATALEN
    BY <1>0, <2>1, LinkLength
  <2>3. n \in Nat /\ D \in Nat /\ D = entry.namlen - n
    BY <1>0 DEF Done
  <2>4. /\ pc' = pc /\ entry' = entry /\ next' = next + 1 /\ namlen' = n /\ len' = m
        /\ name' = name \o piece
    BY <1>2 DEF Slot, WhatIsLeft
  <2>5. m \in Nat /\ m <= n /\ m <= DTSLOTDATALEN /\ (n - m > 0 => m = DTSLOTDATALEN) /\ (m > 0 => n > 0)
    <3> HIDE DEF n
    <3> QED BY <1>0, <2>3 DEF Least
  <2>6. Done' = D + m
    <3>1. Done' = entry.namlen - (n - m)
      BY <2>4 DEF Done
    <3> HIDE DEF n, m, D
    <3> QED BY <1>0, <2>3, <2>5, <3>1
  <2>7. ASSUME NEW j \in 1 .. m PROVE OnDisk(entry)[D + j] = s[j]
    <3> HIDE DEF n, m, D, s, base
    <3>1. D = base
      BY <2>1, <2>5
    <3>2. D + j \in 1 .. entry.namlen /\ j \in 1 .. DTSLOTDATALEN
      BY <1>0, <2>3, <2>5
    <3>3. D + j = base + j
      BY <3>1
    <3> QED BY <1>0, <2>1, <3>2, <3>3, OnDiskSlot DEF base, s
  <2> HIDE DEF n, m, D, s, base
  <2>8. piece \in Seq(UniChar) /\ Len(piece) = m /\ \A j \in 1 .. m : piece[j] = s[j]
    BY <1>0, <2>2, <2>5
  <2> HIDE DEF piece
  <2>9. /\ Len(name') = D + m
        /\ \A k \in 1 .. D : name'[k] = name[k]
        /\ \A j \in 1 .. m : name'[D + j] = piece[j]
    <3>1. Len(name') = D + m
      <4>1. Len(name \o piece) = Len(name) + Len(piece)
        BY <1>0, <2>8, Joined
      <4> QED BY <2>1, <2>4, <2>8, <4>1
    <3>2. \A k \in 1 .. D : name'[k] = name[k]
      BY <1>0, <2>1, <2>4, <2>8, Joined
    <3>3. ASSUME NEW j \in 1 .. m PROVE name'[D + j] = piece[j]
      <4>1. (name \o piece)[Len(name) + j] = piece[j]
        BY <1>0, <2>8, Joined
      <4> QED BY <2>1, <2>4, <4>1
    <3> QED BY <3>1, <3>2, <3>3
  <2>10. ASSUME NEW k \in 1 .. D + m PROVE name'[k] = OnDisk(entry)[k]
    <3>1. CASE k <= D
      <4>1. k \in 1 .. D
        BY <2>3, <2>5, <3>1
      <4> QED BY <2>1, <2>9, <4>1
    <3>2. CASE ~(k <= D)
      <4>1. k - D \in 1 .. m /\ D + (k - D) = k
        BY <2>3, <2>5, <3>2
      <4>2. name'[D + (k - D)] = OnDisk(entry)[D + (k - D)]
        BY <2>7, <2>8, <2>9, <4>1
      <4> QED BY <4>1, <4>2
    <3> QED BY <3>1, <3>2
  <2>11. n - m > 0 => D + m = DTLHDRDATALEN + ((next + 1) - 2) * DTSLOTDATALEN
    <3> SUFFICES ASSUME n - m > 0 PROVE D + m = DTLHDRDATALEN + ((next + 1) - 2) * DTSLOTDATALEN
      OBVIOUS
    <3>1. m = DTSLOTDATALEN /\ D = base
      BY <2>1, <2>3, <2>5
    <3> DEFINE S == DTSLOTDATALEN
               q == next - 2
    <3>2. q \in Int /\ S \in Nat /\ (next + 1) - 2 = q + 1
      BY <1>0
    <3>3. base = DTLHDRDATALEN + q * S
      BY DEF base
    <3> HIDE DEF S, q
    <3>4. (q + 1) * S = q * S + S /\ q * S \in Int
      BY <3>2
    <3>5. D + m = DTLHDRDATALEN + (q + 1) * S
      BY <1>0, <3>1, <3>2, <3>3, <3>4 DEF S
    <3> QED BY <3>2, <3>5 DEF S
  <2> QED BY <2>1, <2>4, <2>6, <2>9, <2>10, <2>11 DEF Gathered, NameGathered
<1>3. CASE Convert
  <2>1. /\ entry \in DirEntry /\ pc = "gather" /\ next > Len(entry.chain)
        /\ Len(name) = Done /\ (\A k \in 1 .. Done : name[k] = OnDisk(entry)[k])
        /\ (namlen - len > 0 => Done = DTLHDRDATALEN + (next - 2) * DTSLOTDATALEN)
    BY <1>3 DEF Convert, Gathered
  <2>2. DTLHDRDATALEN + (next - 2) * DTSLOTDATALEN >= entry.namlen
    BY <1>0, <2>1, ChainEnds
  <2>3. Done = entry.namlen
    <3> DEFINE base == DTLHDRDATALEN + (next - 2) * DTSLOTDATALEN
    <3>1. namlen - len > 0 => Done = base
      BY <2>1
    <3>2. base >= entry.namlen /\ Done = entry.namlen - (namlen - len)
      BY <2>2 DEF Done
    <3> HIDE DEF base
    <3> QED BY <1>0, <3>1, <3>2
  <2>4. name = OnDisk(entry)
    BY <1>0, <2>1, <2>3, OnDiskName
  <2> QED BY <1>3, <2>1, <2>4 DEF Convert, slotVars, Gathered, NameGathered
<1>4. CASE Ascii \/ Wide \/ Ignore \/ Finish
  <2>1. /\ pc = "convert" /\ pc' \in {"convert", "done"} /\ entry' = entry /\ name' = name
    BY <1>4 DEF Ascii, Wide, Ignore, Finish, More, slotVars
  <2> QED BY <2>1 DEF Gathered, NameGathered
<1>5. CASE Return
  BY <1>5 DEF Return, Gathered, NameGathered
<1>6. CASE UNCHANGED vars
  BY <1>6 DEF vars, Gathered, NameGathered, Done
<1> QED BY <1>1, <1>2, <1>3, <1>4, <1>5, <1>6 DEF Next, Step

-----------------------------------------------------------------------------
(* A name of ASCII characters: what is written is the name up to *ip, and    *)
(* what is left of the room is what is left of the name.                     *)
AllAscii == \A k \in 1 .. entry.namlen : OnDisk(entry)[k] <= 127

AsciiSoFar ==
  pc \in {"convert", "done"} /\ AllAscii =>
    /\ Len(out) = ip - 1 /\ maxlen = entry.namlen - (ip - 1)
    /\ \A k \in 1 .. ip - 1 : out[k] = name[k]
    /\ pc = "done" => ip = entry.namlen + 1

LEMMA AsciiStep == IInv /\ Gathered /\ AsciiSoFar /\ [Next]_vars => AsciiSoFar'
<1> SUFFICES ASSUME IInv, Gathered, AsciiSoFar, [Next]_vars PROVE AsciiSoFar'
  OBVIOUS
<1>0. /\ name \in Seq(UniChar) /\ Len(name) \in Nat /\ entry.namlen \in Nat
      /\ out \in Seq(Byte) /\ maxlen \in Nat /\ ip \in Nat \ {0} /\ ip <= Len(name) + 1
  BY EntryOK DEF IInv, TypeOK
<1>1. pc = "convert" => Len(name) = entry.namlen /\ name = OnDisk(entry)
  BY <1>0 DEF Gathered, NameGathered, OnDisk
<1>2. CASE Convert
  <2>1. ip = 1 /\ out = <<>> /\ ip' = ip /\ out' = out /\ maxlen' = entry.namlen /\ entry' = entry /\ pc' = "convert"
    BY <1>2 DEF Convert, slotVars, Room, IInv, Walking
  <2>2. Len(out') = 0
    BY <2>1
  <2> QED BY <1>0, <2>1, <2>2 DEF AsciiSoFar
<1>3. CASE Ascii
  <2>1. /\ pc = "convert" /\ pc' = pc /\ entry' = entry /\ name' = name /\ out' = Append(out, name[ip])
        /\ maxlen' = maxlen - 1 /\ ip' = ip + 1
    BY <1>3 DEF Ascii, More, slotVars
  <2> SUFFICES ASSUME AllAscii PROVE /\ Len(out') = ip' - 1 /\ maxlen' = entry.namlen - (ip' - 1)
                                     /\ \A k \in 1 .. ip' - 1 : out'[k] = name[k]
    BY <2>1 DEF AsciiSoFar, AllAscii
  <2>2. Len(out) = ip - 1 /\ maxlen = entry.namlen - (ip - 1) /\ \A k \in 1 .. ip - 1 : out[k] = name[k]
    BY <2>1 DEF AsciiSoFar
  <2>3. name[ip] \in Byte
    <3>1. name[ip] \in UniChar /\ name[ip] <= 127
      BY <1>3, MoreChar DEF Ascii, IInv
    <3> QED BY <3>1, AsciiByte
  <2> DEFINE c == name[ip]
  <2> HIDE DEF c
  <2>4. Len(Append(out, c)) = Len(out) + 1 /\ Append(out, c)[ip] = c /\ \A k \in 1 .. ip - 1 : Append(out, c)[k] = out[k]
    BY <1>0, <2>2, <2>3
  <2> QED BY <1>0, <2>1, <2>2, <2>4 DEF c
<1>4. CASE Wide \/ Ignore
  <2>1. /\ pc = "convert" /\ pc' = pc /\ entry' = entry /\ name' = name /\ name[ip] > 127 /\ ip <= Len(name)
    BY <1>4 DEF Wide, Ignore, More, slotVars
  <2>2. ip \in 1 .. entry.namlen /\ OnDisk(entry)[ip] > 127 /\ OnDisk(entry)[ip] \in UniChar
    BY <1>0, <1>1, <2>1
  <2>3. ~AllAscii
    <3> SUFFICES ASSUME AllAscii PROVE FALSE
      OBVIOUS
    <3> DEFINE c == OnDisk(entry)[ip]
    <3>1. c > 127 /\ c \in UniChar
      BY <2>2
    <3>2. c <= 127
      BY <2>2, Zenon DEF AllAscii
    <3> HIDE DEF c
    <3>3. c \in Int
      BY <3>1 DEF UniChar
    <3> QED BY <3>1, <3>2, <3>3
  <2> QED BY <2>1, <2>3 DEF AsciiSoFar, AllAscii
<1>5. CASE Finish
  <2>1. /\ pc = "convert" /\ pc' = "done" /\ entry' = entry /\ name' = name /\ out' = out /\ maxlen' = maxlen /\ ip' = ip
        /\ ~(ip <= Len(name) /\ maxlen > 0)
    BY <1>5 DEF Finish, More, slotVars
  <2>2. AllAscii => ip = entry.namlen + 1
    BY <1>0, <1>1, <2>1 DEF AsciiSoFar
  <2> QED BY <2>1, <2>2 DEF AsciiSoFar, AllAscii
<1>6. CASE Return \/ Slot \/ \E e \in DirEntry : Start(e)
  BY <1>6 DEF Return, Slot, Start, AsciiSoFar
<1>7. CASE UNCHANGED vars
  BY <1>7 DEF vars, AsciiSoFar, AllAscii
<1> QED BY <1>2, <1>3, <1>4, <1>5, <1>6, <1>7 DEF Next, Step

LEMMA AsciiDone == IInv /\ Gathered /\ AsciiSoFar => AsciiExact
<1> SUFFICES ASSUME IInv, Gathered, AsciiSoFar, pc = "done", AllAscii PROVE out = OnDisk(entry)
  BY DEF AsciiExact, AllAscii
<1>1. name = OnDisk(entry) /\ entry.namlen \in Nat /\ out \in Seq(Byte)
  BY EntryOK DEF Gathered, NameGathered, IInv, TypeOK
<1>2. Len(out) = entry.namlen /\ \A k \in 1 .. entry.namlen : out[k] = name[k]
  BY <1>1 DEF AsciiSoFar
<1>3. out = [k \in 1 .. entry.namlen |-> out[k]]
  BY <1>1, <1>2
<1>4. OnDisk(entry) = [k \in 1 .. entry.namlen |-> OnDisk(entry)[k]]
  BY DEF OnDisk
<1> QED BY <1>1, <1>2, <1>3, <1>4

LEMMA InitGathered == Init => Gathered /\ AsciiSoFar
BY DEF Init, Gathered, NameGathered, AsciiSoFar

(***************************************************************************)
(* The walk along the slots gathers exactly the characters of the name,    *)
(* for names, entries and slots of any length.                             *)
(***************************************************************************)
THEOREM GathersName == Spec => []NameGathered
<1>1. Gathered => NameGathered
  BY DEF Gathered
<1> QED BY <1>1, InitIInv, StepIInv, InitGathered, GatherStep, PTL DEF Spec

(***************************************************************************)
(* A name of ASCII characters, of any length, comes out as it is on disk.  *)
(***************************************************************************)
THEOREM AsciiNameExact == Spec => []AsciiExact
BY InitIInv, StepIInv, InitGathered, GatherStep, AsciiStep, AsciiDone, PTL DEF Spec

-----------------------------------------------------------------------------
(* The output as UTF-8.                                                     *)

LEMMA WidthIs ==
  ASSUME NEW x \in Byte
  PROVE  /\ x < 128 => Width(x) = 1
         /\ x \in 192 .. 223 => Width(x) = 2
         /\ x \in 224 .. 239 => Width(x) = 3
         /\ ~(x < 128) /\ x \notin 192 .. 223 /\ x \notin 224 .. 239 => Width(x) = 0
         /\ Width(x) \in 0 .. 3
BY DEF Width, Byte

Two(x, y) == AtLeast(128, (x - 192) * 64 + (y - 128))

Three(x, y, z) == AtLeast(2048, (x - 224) * 4096 + (y - 128) * 64 + (z - 128))

(* The character at k, by its width. *)
LEMMA CharAtIs ==
  ASSUME NEW b \in Seq(Byte), NEW k \in 1 .. Len(b)
  PROVE  /\ Width(b[k]) \in 0 .. 3
         /\ Width(b[k]) = 0 => CharAt(b, k) = 0
         /\ Width(b[k]) = 1 => CharAt(b, k) = b[k]
         /\ Width(b[k]) = 2 => CharAt(b, k) = IF k + 1 > Len(b) \/ ~IsTail(b[k + 1]) THEN 0
                                              ELSE Two(b[k], b[k + 1])
         /\ Width(b[k]) = 3 => CharAt(b, k) = IF k + 2 > Len(b) \/ ~IsTail(b[k + 1]) \/ ~IsTail(b[k + 2])
                                              THEN 0 ELSE Three(b[k], b[k + 1], b[k + 2])
<1> DEFINE w == Width(b[k])
           Bad == k + w - 1 > Len(b) \/ \E j \in 1 .. w - 1 : ~IsTail(b[k + j])
<1>1. w \in 0 .. 3
  BY WidthIs
<1>2. CharAt(b, k) = IF Bad THEN 0
        ELSE CASE w = 1 -> b[k]
               [] w = 2 -> Two(b[k], b[k + 1])
               [] w = 3 -> Three(b[k], b[k + 1], b[k + 2])
               [] OTHER -> 0
  BY DEF CharAt, Two, Three
<1> HIDE DEF w
<1>3. CASE w = 0
  BY <1>2, <1>3 DEF w
<1>4. CASE w = 1
  <2>1. ~Bad
    BY <1>4
  <2> QED BY <1>2, <1>4, <2>1 DEF w
<1>5. CASE w = 2
  <2>1. Bad <=> k + 1 > Len(b) \/ ~IsTail(b[k + 1])
    <3>1. k + w - 1 = k + 1 /\ 1 .. w - 1 = {1}
      BY <1>5
    <3> QED BY <3>1
  <2> QED BY <1>2, <1>5, <2>1 DEF w
<1>6. CASE w = 3
  <2>1. Bad <=> k + 2 > Len(b) \/ ~IsTail(b[k + 1]) \/ ~IsTail(b[k + 2])
    <3>1. k + w - 1 = k + 2 /\ 1 .. w - 1 = {1, 2}
      BY <1>6
    <3> QED BY <3>1
  <2> QED BY <1>2, <1>6, <2>1 DEF w
<1> QED BY <1>1, <1>3, <1>4, <1>5, <1>6 DEF w

(* What is appended does not change the characters before it. *)
LEMMA CharAtBefore ==
  ASSUME NEW b \in Seq(Byte), NEW e \in Seq(Byte), NEW k \in 1 .. Len(b),
         k + Width(b[k]) <= Len(b) + 1
  PROVE  CharAt(b \o e, k) = CharAt(b, k) /\ (b \o e)[k] = b[k]
<1> DEFINE c == b \o e
           w == Width(b[k])
<1>1. /\ c \in Seq(Byte) /\ Len(c) = Len(b) + Len(e) /\ Len(b) \in Nat /\ Len(e) \in Nat
      /\ \A j \in 1 .. Len(b) : c[j] = b[j]
  BY Joined
<1> HIDE DEF c
<1>2. k \in 1 .. Len(c) /\ c[k] = b[k]
  BY <1>1
<1>3. w \in 0 .. 3
  BY CharAtIs
<1>4. CASE w = 0 \/ w = 1
  <2>1. /\ w = 0 => CharAt(b, k) = 0
        /\ w = 1 => CharAt(b, k) = b[k]
    BY CharAtIs
  <2>2. /\ w = 0 => CharAt(c, k) = 0
        /\ w = 1 => CharAt(c, k) = c[k]
    BY <1>1, <1>2, CharAtIs
  <2> HIDE DEF w
  <2> QED BY <1>2, <1>4, <2>1, <2>2 DEF c
<1>5. CASE w = 2
  <2>1. k + 1 \in 1 .. Len(b) /\ ~(k + 1 > Len(b)) /\ ~(k + 1 > Len(c))
    BY <1>1, <1>5
  <2>2. c[k + 1] = b[k + 1]
    BY <1>1, <2>1
  <2>3. CharAt(c, k) = IF k + 1 > Len(c) \/ ~IsTail(c[k + 1]) THEN 0 ELSE Two(c[k], c[k + 1])
    BY <1>1, <1>2, <1>5, CharAtIs
  <2>4. CharAt(b, k) = IF k + 1 > Len(b) \/ ~IsTail(b[k + 1]) THEN 0 ELSE Two(b[k], b[k + 1])
    BY <1>5, CharAtIs
  <2> QED BY <1>2, <2>1, <2>2, <2>3, <2>4 DEF c
<1>6. CASE w = 3
  <2>1. /\ k + 1 \in 1 .. Len(b) /\ k + 2 \in 1 .. Len(b)
        /\ ~(k + 2 > Len(b)) /\ ~(k + 2 > Len(c))
    BY <1>1, <1>6
  <2>2. c[k + 1] = b[k + 1] /\ c[k + 2] = b[k + 2]
    BY <1>1, <2>1
  <2>3. CharAt(c, k) = IF k + 2 > Len(c) \/ ~IsTail(c[k + 1]) \/ ~IsTail(c[k + 2])
                       THEN 0 ELSE Three(c[k], c[k + 1], c[k + 2])
    BY <1>1, <1>2, <1>6, CharAtIs
  <2>4. CharAt(b, k) = IF k + 2 > Len(b) \/ ~IsTail(b[k + 1]) \/ ~IsTail(b[k + 2])
                       THEN 0 ELSE Three(b[k], b[k + 1], b[k + 2])
    BY <1>6, CharAtIs
  <2> QED BY <1>2, <2>1, <2>2, <2>3, <2>4 DEF c
<1> QED BY <1>3, <1>4, <1>5, <1>6

(* An encoding: one character that takes all the bytes. *)
Encodes(e, wc) == e \in Seq(Byte) /\ Len(e) > 0 /\ Width(e[1]) = Len(e) /\ CharAt(e, 1) = wc

(* It is the same character behind other bytes. *)
LEMMA CharAtBehind ==
  ASSUME NEW b \in Seq(Byte), NEW e, NEW wc \in UniChar, Encodes(e, wc)
  PROVE  /\ CharAt(b \o e, Len(b) + 1) = wc
         /\ Width((b \o e)[Len(b) + 1]) = Len(e)
         /\ Len(e) \in 1 .. 3
<1> DEFINE c == b \o e
           n == Len(b)
           w == Len(e)
<1>0. e \in Seq(Byte) /\ w > 0 /\ Width(e[1]) = w /\ CharAt(e, 1) = wc
  BY DEF Encodes
<1>1. /\ c \in Seq(Byte) /\ Len(c) = n + w /\ n \in Nat /\ w \in Nat
      /\ \A j \in 1 .. w : c[n + j] = e[j]
  BY <1>0, Joined
<1>2. 1 \in 1 .. w /\ n + 1 \in 1 .. Len(c)
  BY <1>0, <1>1
<1>3. c[n + 1] = e[1]
  BY <1>1, <1>2
<1>4. w \in 1 .. 3
  <2>1. Width(e[1]) \in 0 .. 3
    BY <1>0, <1>2, CharAtIs
  <2>2. w \in 0 .. 3 /\ w > 0
    BY <1>0, <2>1
  <2> HIDE DEF w
  <2> QED BY <2>2
<1> HIDE DEF c, n
<1>5. CASE w = 1
  <2>1. CharAt(c, n + 1) = c[n + 1]
    BY <1>0, <1>1, <1>2, <1>3, <1>5, CharAtIs
  <2>2. CharAt(e, 1) = e[1]
    BY <1>0, <1>2, <1>5, CharAtIs
  <2> QED BY <1>0, <1>3, <1>4, <2>1, <2>2 DEF c, n
<1>6. CASE w = 2
  <2>1. c[n + 2] = e[2] /\ ~((n + 1) + 1 > Len(c)) /\ (n + 1) + 1 = n + 2
    BY <1>1, <1>6
  <2>2. CharAt(c, n + 1) = IF (n + 1) + 1 > Len(c) \/ ~IsTail(c[(n + 1) + 1])
                           THEN 0 ELSE Two(c[n + 1], c[(n + 1) + 1])
    BY <1>0, <1>1, <1>2, <1>3, <1>6, CharAtIs
  <2>3. CharAt(e, 1) = IF 1 + 1 > Len(e) \/ ~IsTail(e[1 + 1]) THEN 0 ELSE Two(e[1], e[1 + 1])
    BY <1>0, <1>2, <1>6, CharAtIs
  <2>4. ~(1 + 1 > Len(e)) /\ 1 + 1 = 2
    BY <1>6
  <2> QED BY <1>0, <1>3, <1>4, <2>1, <2>2, <2>3, <2>4 DEF c, n
<1>7. CASE w = 3
  <2>1. /\ c[n + 2] = e[2] /\ c[n + 3] = e[3] /\ ~((n + 1) + 2 > Len(c))
        /\ (n + 1) + 1 = n + 2 /\ (n + 1) + 2 = n + 3
    BY <1>1, <1>7
  <2>2. CharAt(c, n + 1) = IF (n + 1) + 2 > Len(c) \/ ~IsTail(c[(n + 1) + 1]) \/ ~IsTail(c[(n + 1) + 2])
                           THEN 0 ELSE Three(c[n + 1], c[(n + 1) + 1], c[(n + 1) + 2])
    BY <1>0, <1>1, <1>2, <1>3, <1>7, CharAtIs
  <2>3. CharAt(e, 1) = IF 1 + 2 > Len(e) \/ ~IsTail(e[1 + 1]) \/ ~IsTail(e[1 + 2])
                       THEN 0 ELSE Three(e[1], e[1 + 1], e[1 + 2])
    BY <1>0, <1>2, <1>7, CharAtIs
  <2>4. ~(1 + 2 > Len(e)) /\ 1 + 1 = 2 /\ 1 + 2 = 3
    BY <1>7
  <2> QED BY <1>0, <1>3, <1>4, <2>1, <2>2, <2>3, <2>4 DEF c, n
<1>8. w = 1 \/ w = 2 \/ w = 3
  BY <1>4
<1> QED BY <1>5, <1>6, <1>7, <1>8

LEMMA AsciiEncodes ==
  ASSUME NEW wc \in UniChar, wc <= 127
  PROVE  Encodes(<<wc>>, wc)
<1>0. wc \in Byte
  BY AsciiByte
<1>1. wc \in Byte /\ wc < 128
  BY <1>0 DEF Byte
<1> DEFINE e == <<wc>>
<1>2. e \in Seq(Byte) /\ Len(e) = 1 /\ e[1] = wc
  BY <1>1
<1> HIDE DEF e
<1>3. Width(e[1]) = 1
  BY <1>1, <1>2, WidthIs
<1>4. CharAt(e, 1) = e[1]
  <2>1. 1 \in 1 .. Len(e)
    BY <1>2
  <2> QED BY <1>2, <1>3, <2>1, CharAtIs
<1> QED BY <1>2, <1>3, <1>4 DEF Encodes, e

(* The rows of a character that has more than one byte. *)
LEMMA WideRow ==
  ASSUME NEW wc \in UniChar, wc > 127, NEW room \in Nat, Rows(wc, room) # {}
  PROVE  FirstRow(wc, room) = IF wc <= 2047 THEN 2 ELSE 3
<1> DEFINE R == Rows(wc, room)
           t == FirstRow(wc, room)
<1>1. t \in R
  BY FirstRowOK
<1>2. \A u \in R : t <= u
  <2>1. \E x \in R : \A u \in R : x <= u
    <3>1. R \subseteq 1 .. 6
      BY DEF Rows
    <3>2. PICK r \in R : TRUE
      OBVIOUS
    <3>3. \/ 1 \in R
          \/ 1 \notin R /\ 2 \in R
          \/ 1 \notin R /\ 2 \notin R /\ 3 \in R
          \/ 1 \notin R /\ 2 \notin R /\ 3 \notin R /\ 4 \in R
          \/ 1 \notin R /\ 2 \notin R /\ 3 \notin R /\ 4 \notin R /\ 5 \in R
          \/ 1 \notin R /\ 2 \notin R /\ 3 \notin R /\ 4 \notin R /\ 5 \notin R /\ 6 \in R
      <4> HIDE DEF R
      <4>1. r = 1 \/ r = 2 \/ r = 3 \/ r = 4 \/ r = 5 \/ r = 6
        BY <3>1, <3>2
      <4> QED BY <3>2, <4>1
    <3> HIDE DEF R
    <3> QED BY <3>1, <3>3
  <2> QED BY <2>1 DEF FirstRow
<1>3. /\ 1 \notin R
      /\ \A u \in 2 .. 6 : u \in R <=> u <= room /\ wc <= utf8_table[u].lmask
  <2>1. utf8_table[1].lmask = 127
    BY DEF utf8_table
  <2>2. wc \in Int /\ ~(wc <= 127)
    BY DEF UniChar
  <2>3. 1 \notin R
    BY <2>1, <2>2 DEF Rows
  <2>4. ASSUME NEW u \in 2 .. 6 PROVE u \in R <=> u <= room /\ wc <= utf8_table[u].lmask
    BY DEF Rows
  <2> QED BY <2>3, <2>4
<1>4. /\ utf8_table[2].lmask = 2047 /\ utf8_table[3].lmask = 65535
  BY DEF utf8_table
<1>5. t \in 2 .. 6 /\ t <= room
  <2>1. t \in 1 .. 6 /\ t <= room
    BY <1>1 DEF Rows
  <2> HIDE DEF t, R
  <2>2. t # 1
    BY <1>1, <1>3
  <2> QED BY <2>1, <2>2
<1> HIDE DEF t, R
<1>6. wc \in Nat /\ wc <= 65535
  BY DEF UniChar
<1>7. CASE wc <= 2047
  <2>1. 2 \in R
    BY <1>3, <1>4, <1>5, <1>7
  <2>2. t <= 2
    BY <1>2, <2>1
  <2> QED BY <1>5, <1>7, <2>2 DEF t
<1>8. CASE ~(wc <= 2047)
  <2>1. 2 \notin R
    BY <1>3, <1>4, <1>8
  <2>2. t # 2
    BY <1>1, <2>1
  <2>3. 3 \in R
    BY <1>3, <1>4, <1>5, <1>6, <2>2
  <2>4. t <= 3
    BY <1>2, <2>3
  <2> QED BY <1>5, <1>8, <2>2, <2>4 DEF t
<1> QED BY <1>7, <1>8

(* The arithmetic of the two widths. *)
LEMMA TwoBytes ==
  ASSUME NEW wc \in Int, wc >= 128, wc <= 2047
  PROVE  /\ (192 + (wc \div 64)) % 256 \in 192 .. 223
         /\ 128 + (wc % 64) \in 128 .. 191
         /\ Two((192 + (wc \div 64)) % 256, 128 + (wc % 64)) = wc
<1> DEFINE q == wc \div 64
           r == wc % 64
<1>1. q \in Int /\ r \in 0 .. 63 /\ wc = 64 * q + r
  BY Division
<1> HIDE DEF q, r
<1>2. q \in 2 .. 31
  BY <1>1
<1>3. (192 + q) % 256 = 192 + q
  BY <1>2
<1>4. AtLeast(128, ((192 + q) - 192) * 64 + ((128 + r) - 128)) = wc
  BY <1>1, <1>2 DEF AtLeast
<1> QED BY <1>1, <1>2, <1>3, <1>4 DEF Two, q, r

LEMMA ThreeBytes ==
  ASSUME NEW wc \in Int, wc >= 2048, wc <= 65535
  PROVE  /\ (224 + (wc \div 4096)) % 256 \in 224 .. 239
         /\ 128 + ((wc \div 64) % 64) \in 128 .. 191
         /\ 128 + (wc % 64) \in 128 .. 191
         /\ Three((224 + (wc \div 4096)) % 256, 128 + ((wc \div 64) % 64), 128 + (wc % 64)) = wc
<1>1. PICK q \in Int, r \in 0 .. 63 : q = wc \div 64 /\ r = wc % 64 /\ wc = 64 * q + r
  BY Division
<1>2. PICK p \in Int, s \in 0 .. 63 : p = q \div 64 /\ s = q % 64 /\ q = 64 * p + s
  BY Division
<1> DEFINE rest == 64 * s + r
<1>3. rest \in 0 .. 4095
  OBVIOUS
<1>4. wc = p * 4096 + rest
  <2>1. 64 * (64 * p + s) + r = p * 4096 + (64 * s + r)
    OBVIOUS
  <2> QED BY <1>1, <1>2, <2>1
<1>5. Three(224 + p, 128 + s, 128 + r) = wc
  <2>1. ((224 + p) - 224) * 4096 + ((128 + s) - 128) * 64 + ((128 + r) - 128) = p * 4096 + (64 * s + r)
    OBVIOUS
  <2>2. ((224 + p) - 224) * 4096 + ((128 + s) - 128) * 64 + ((128 + r) - 128) = wc
    BY <1>4, <2>1
  <2> QED BY <2>2 DEF Three, AtLeast
<1>6. 128 + s \in 128 .. 191 /\ 128 + r \in 128 .. 191
  OBVIOUS
<1> HIDE DEF rest
<1>7. wc \div 4096 = p
  <2>1. 4096 \in Nat \ {0} /\ rest \in 0 .. 4096 - 1
    BY <1>3
  <2>2. (p * 4096 + rest) \div 4096 = p
    BY <2>1, DivisionUnique
  <2> QED BY <1>4, <2>2
<1>8. p \in 0 .. 15
  BY <1>3, <1>4
<1>9. (224 + p) % 256 = 224 + p /\ 224 + p \in 224 .. 239
  BY <1>8
<1>10. (wc \div 64) % 64 = s /\ wc % 64 = r
  BY <1>1, <1>2
<1> QED BY <1>5, <1>6, <1>7, <1>9, <1>10

LEMMA TableRows ==
  /\ utf8_table[1].unit = 1 /\ utf8_table[2].unit = 64 /\ utf8_table[3].unit = 4096
  /\ utf8_table[2].cval = 192 /\ utf8_table[3].cval = 224
BY DEF utf8_table

(* The bytes of a character in row t. *)
LEMMA WideBytes ==
  ASSUME NEW wc \in UniChar, wc > 127, NEW room \in Nat,
         Unicode_Character_to_UTF8_Character(wc, room) # <<>>
  PROVE  LET e == Unicode_Character_to_UTF8_Character(wc, room)
         IN  /\ e \in Seq(Byte)
             /\ wc <= 2047 => /\ Len(e) = 2
                              /\ e[1] = (192 + (wc \div 64)) % 256 /\ e[2] = 128 + (wc % 64)
             /\ ~(wc <= 2047) => /\ Len(e) = 3
                                 /\ e[1] = (224 + (wc \div 4096)) % 256
                                 /\ e[2] = 128 + ((wc \div 64) % 64) /\ e[3] = 128 + (wc % 64)
<1> DEFINE e == Unicode_Character_to_UTF8_Character(wc, room)
           t == FirstRow(wc, room)
           At(u, k) == wc \div utf8_table[u - k + 1].unit
           F(u) == [k \in 1 .. u |-> IF k = 1 THEN (utf8_table[u].cval + At(u, k)) % 256
                                     ELSE 128 + (At(u, k) % 64)]
<1>0. e \in Seq(Byte)
  BY CharacterFits
<1>1. Rows(wc, room) # {}
  BY DEF Unicode_Character_to_UTF8_Character
<1>2. e = F(t)
  BY <1>1 DEF Unicode_Character_to_UTF8_Character
<1>3. t = IF wc <= 2047 THEN 2 ELSE 3
  BY <1>1, WideRow
<1>4. wc \div 1 = wc
  BY DEF UniChar
<1>5. 2 - 1 + 1 = 2 /\ 2 - 2 + 1 = 1 /\ 3 - 1 + 1 = 3 /\ 3 - 2 + 1 = 2 /\ 3 - 3 + 1 = 1
  OBVIOUS
<1>6. /\ At(2, 1) = wc \div 64 /\ At(2, 2) = wc
      /\ At(3, 1) = wc \div 4096 /\ At(3, 2) = wc \div 64 /\ At(3, 3) = wc
  BY <1>4, <1>5, TableRows
<1> HIDE DEF e, t, At
<1>7. CASE wc <= 2047
  <2>1. e = F(2)
    BY <1>2, <1>3, <1>7
  <2>2. DOMAIN F(2) = 1 .. 2 /\ F(2)[1] = (utf8_table[2].cval + At(2, 1)) % 256 /\ F(2)[2] = 128 + (At(2, 2) % 64)
    OBVIOUS
  <2> HIDE DEF F
  <2>3. Len(e) = 2
    BY <1>0, <2>1, <2>2
  <2> QED BY <1>0, <1>6, <1>7, <2>1, <2>2, <2>3, TableRows DEF e
<1>8. CASE ~(wc <= 2047)
  <2>1. e = F(3)
    BY <1>2, <1>3, <1>8
  <2>2. /\ DOMAIN F(3) = 1 .. 3 /\ F(3)[1] = (utf8_table[3].cval + At(3, 1)) % 256
        /\ F(3)[2] = 128 + (At(3, 2) % 64) /\ F(3)[3] = 128 + (At(3, 3) % 64)
    OBVIOUS
  <2> HIDE DEF F
  <2>3. Len(e) = 3
    BY <1>0, <2>1, <2>2
  <2> QED BY <1>0, <1>6, <1>8, <2>1, <2>2, <2>3, TableRows DEF e
<1> QED BY <1>7, <1>8

LEMMA WideEncodes ==
  ASSUME NEW wc \in UniChar, wc > 127, NEW room \in Nat,
         Unicode_Character_to_UTF8_Character(wc, room) # <<>>
  PROVE  Encodes(Unicode_Character_to_UTF8_Character(wc, room), wc)
<1> DEFINE e == Unicode_Character_to_UTF8_Character(wc, room)
<1>0. /\ e \in Seq(Byte)
      /\ wc <= 2047 => /\ Len(e) = 2
                       /\ e[1] = (192 + (wc \div 64)) % 256 /\ e[2] = 128 + (wc % 64)
      /\ ~(wc <= 2047) => /\ Len(e) = 3
                          /\ e[1] = (224 + (wc \div 4096)) % 256
                          /\ e[2] = 128 + ((wc \div 64) % 64) /\ e[3] = 128 + (wc % 64)
  BY WideBytes
<1>1. wc \in Int /\ wc <= 65535
  BY DEF UniChar
<1> DEFINE x == e[1]
           y == e[2]
           z == e[3]
<1> HIDE DEF e
<1>4. e \in Seq(Byte)
  BY <1>0
<1>2. CASE wc <= 2047
  <2>1. wc >= 128 /\ wc <= 2047
    BY <1>1, <1>2
  <2>2. x = (192 + (wc \div 64)) % 256 /\ y = 128 + (wc % 64) /\ Len(e) = 2
    BY <1>0, <1>2
  <2>3. 1 \in 1 .. Len(e) /\ x \in Byte
    <3>1. 1 \in 1 .. Len(e)
      BY ONLY <2>2
    <3> QED BY ONLY <1>4, <3>1
  <2> HIDE DEF x, y
  <2>4. x \in 192 .. 223 /\ y \in 128 .. 191 /\ Two(x, y) = wc
    BY <1>1, <2>1, <2>2, TwoBytes
  <2>6. Width(x) = 2
    BY <2>3, <2>4, WidthIs
  <2>7. CharAt(e, 1) = IF 1 + 1 > Len(e) \/ ~IsTail(e[1 + 1]) THEN 0 ELSE Two(e[1], e[1 + 1])
    BY <1>0, <2>3, <2>6, CharAtIs DEF x
  <2>8. 1 + 1 = 2 /\ ~(1 + 1 > Len(e)) /\ IsTail(y)
    BY <2>2, <2>4 DEF IsTail
  <2>9. CharAt(e, 1) = wc
    BY <2>4, <2>7, <2>8 DEF x, y
  <2> QED BY <1>0, <2>2, <2>6, <2>9 DEF Encodes, e, x
<1>3. CASE ~(wc <= 2047)
  <2>1. wc >= 2048 /\ wc <= 65535
    BY <1>1, <1>3
  <2>2. /\ x = (224 + (wc \div 4096)) % 256 /\ y = 128 + ((wc \div 64) % 64) /\ z = 128 + (wc % 64)
        /\ Len(e) = 3
    BY <1>0, <1>3
  <2>3. 1 \in 1 .. Len(e) /\ x \in Byte
    <3>1. 1 \in 1 .. Len(e)
      BY ONLY <2>2
    <3> QED BY ONLY <1>4, <3>1
  <2> HIDE DEF x, y, z
  <2>4. x \in 224 .. 239 /\ y \in 128 .. 191 /\ z \in 128 .. 191 /\ Three(x, y, z) = wc
    BY <1>1, <2>1, <2>2, ThreeBytes
  <2>6. Width(x) = 3
    BY <2>3, <2>4, WidthIs
  <2>7. CharAt(e, 1) = IF 1 + 2 > Len(e) \/ ~IsTail(e[1 + 1]) \/ ~IsTail(e[1 + 2])
                       THEN 0 ELSE Three(e[1], e[1 + 1], e[1 + 2])
    BY <1>0, <2>3, <2>6, CharAtIs DEF x
  <2>8. 1 + 1 = 2 /\ 1 + 2 = 3 /\ ~(1 + 2 > Len(e)) /\ IsTail(y) /\ IsTail(z)
    BY <2>2, <2>4 DEF IsTail
  <2>9. CharAt(e, 1) = wc
    BY <2>4, <2>7, <2>8 DEF x, y, z
  <2> QED BY <1>0, <2>2, <2>6, <2>9 DEF Encodes, e, x
<1> QED BY <1>2, <1>3

(* The bytes b are whole characters of s before k, all but wide ones:        *)
(* WholeCharacters of out, ip and name.                                      *)
Pieces(b, k, s, n, start, at) ==
  /\ start \in [1 .. n + 1 -> 1 .. Len(b) + 1]
  /\ start[1] = 1 /\ start[n + 1] = Len(b) + 1
  /\ \A m \in 1 .. n : start[m] <= Len(b) /\ start[m + 1] = start[m] + Width(b[start[m]])
  /\ at \in [1 .. n -> 1 .. k - 1]
  /\ \A m \in 1 .. n : CharAt(b, start[m]) = s[at[m]]
  /\ \A m \in 1 .. n - 1 : at[m] < at[m + 1]
  /\ \A c \in 1 .. k - 1 : s[c] > 127 \/ \E m \in 1 .. n : at[m] = c

Whole(b, k, s) == \E n \in 0 .. k - 1 : \E start, at : Pieces(b, k, s, n, start, at)

LEMMA WholeIs == WholeCharacters <=> Whole(out, ip, name)
<1>1. ASSUME WholeCharacters PROVE Whole(out, ip, name)
  <2>1. PICK n \in 0 .. ip - 1 : \E start \in [1 .. n + 1 -> 1 .. Len(out) + 1] :
          /\ start[1] = 1 /\ start[n + 1] = Len(out) + 1
          /\ \A m \in 1 .. n : start[m] <= Len(out) /\ start[m + 1] = start[m] + Width(out[start[m]])
          /\ \E at \in [1 .. n -> 1 .. ip - 1] :
               /\ \A m \in 1 .. n : CharAt(out, start[m]) = name[at[m]]
               /\ \A m \in 1 .. n - 1 : at[m] < at[m + 1]
               /\ \A c \in 1 .. ip - 1 : name[c] > 127 \/ \E m \in 1 .. n : at[m] = c
    BY <1>1, Zenon DEF WholeCharacters
  <2>2. PICK start \in [1 .. n + 1 -> 1 .. Len(out) + 1] :
          /\ start[1] = 1 /\ start[n + 1] = Len(out) + 1
          /\ \A m \in 1 .. n : start[m] <= Len(out) /\ start[m + 1] = start[m] + Width(out[start[m]])
          /\ \E at \in [1 .. n -> 1 .. ip - 1] :
               /\ \A m \in 1 .. n : CharAt(out, start[m]) = name[at[m]]
               /\ \A m \in 1 .. n - 1 : at[m] < at[m + 1]
               /\ \A c \in 1 .. ip - 1 : name[c] > 127 \/ \E m \in 1 .. n : at[m] = c
    BY <2>1, Zenon
  <2>3. PICK at \in [1 .. n -> 1 .. ip - 1] :
          /\ \A m \in 1 .. n : CharAt(out, start[m]) = name[at[m]]
          /\ \A m \in 1 .. n - 1 : at[m] < at[m + 1]
          /\ \A c \in 1 .. ip - 1 : name[c] > 127 \/ \E m \in 1 .. n : at[m] = c
    BY <2>2, Zenon
  <2>4. Pieces(out, ip, name, n, start, at)
    BY <2>2, <2>3, Zenon DEF Pieces
  <2> QED BY <2>4, Zenon DEF Whole
<1>2. ASSUME Whole(out, ip, name) PROVE WholeCharacters
  <2>1. PICK n \in 0 .. ip - 1 : \E start, at : Pieces(out, ip, name, n, start, at)
    BY <1>2, Zenon DEF Whole
  <2>2. PICK start, at : Pieces(out, ip, name, n, start, at)
    BY <2>1, Zenon
  <2> QED BY <2>2, Zenon DEF Pieces, WholeCharacters
<1> QED BY <1>1, <1>2

LEMMA WholeNothing ==
  ASSUME NEW s
  PROVE  Whole(<<>>, 1, s)
<1> DEFINE start == [m \in 1 .. 1 |-> 1]
           at == [m \in 1 .. 0 |-> 1]
<1>1. Len(<<>>) = 0 /\ 0 \in 0 .. 1 - 1
  OBVIOUS
<1>2. Pieces(<<>>, 1, s, 0, start, at)
  BY <1>1 DEF Pieces
<1> HIDE DEF start, at
<1> QED BY <1>1, <1>2 DEF Whole

LEMMA WholeSkip ==
  ASSUME NEW b \in Seq(Byte), NEW k \in Nat \ {0}, NEW s, s[k] > 127, Whole(b, k, s)
  PROVE  Whole(b, k + 1, s)
<1>1. PICK n \in 0 .. k - 1 : \E start, at : Pieces(b, k, s, n, start, at)
  BY DEF Whole
<1>2. PICK start, at : Pieces(b, k, s, n, start, at)
  BY <1>1
<1>3. at \in [1 .. n -> 1 .. (k + 1) - 1]
  BY <1>2 DEF Pieces
<1>4. ASSUME NEW c \in 1 .. (k + 1) - 1 PROVE s[c] > 127 \/ \E m \in 1 .. n : at[m] = c
  <2>1. CASE c = k
    BY <2>1
  <2>2. CASE c # k
    <3>1. c \in 1 .. k - 1
      BY <2>2
    <3> QED BY <1>2, <3>1 DEF Pieces
  <2> QED BY <2>1, <2>2
<1>5. Pieces(b, k + 1, s, n, start, at) /\ n \in 0 .. (k + 1) - 1
  BY <1>2, <1>3, <1>4 DEF Pieces
<1> QED BY <1>5 DEF Whole

(* One more character, as a whole. *)
LEMMA WholeAppend ==
  ASSUME NEW b \in Seq(Byte), NEW k \in Nat \ {0}, NEW s, s[k] \in UniChar,
         NEW e, Encodes(e, s[k]), Whole(b, k, s)
  PROVE  Whole(b \o e, k + 1, s)
<1>1. PICK n \in 0 .. k - 1 : \E start, at : Pieces(b, k, s, n, start, at)
  BY DEF Whole
<1>2. PICK start, at : Pieces(b, k, s, n, start, at)
  BY <1>1
<1> DEFINE c == b \o e
           L == Len(b)
           w == Len(e)
           start2 == [m \in 1 .. n + 2 |-> IF m = n + 2 THEN (L + w) + 1 ELSE start[m]]
           at2 == [m \in 1 .. n + 1 |-> IF m = n + 1 THEN k ELSE at[m]]
<1>3. e \in Seq(Byte)
  BY DEF Encodes
<1>4. c \in Seq(Byte) /\ Len(c) = L + w /\ L \in Nat /\ w \in Nat
  BY <1>3, Joined
<1>5. CharAt(c, L + 1) = s[k] /\ Width(c[L + 1]) = w /\ w \in 1 .. 3
  BY CharAtBehind
<1>6. /\ start \in [1 .. n + 1 -> 1 .. L + 1] /\ start[1] = 1 /\ start[n + 1] = L + 1
      /\ \A m \in 1 .. n : start[m] <= L /\ start[m + 1] = start[m] + Width(b[start[m]])
      /\ at \in [1 .. n -> 1 .. k - 1]
      /\ \A m \in 1 .. n : CharAt(b, start[m]) = s[at[m]]
      /\ \A m \in 1 .. n - 1 : at[m] < at[m + 1]
      /\ \A x \in 1 .. k - 1 : s[x] > 127 \/ \E m \in 1 .. n : at[m] = x
  BY <1>2 DEF Pieces
<1>7. ASSUME NEW m \in 1 .. n
      PROVE  /\ start[m] \in 1 .. L /\ CharAt(c, start[m]) = CharAt(b, start[m])
             /\ c[start[m]] = b[start[m]]
  <2>1. m \in 1 .. n + 1 /\ m + 1 \in 1 .. n + 1
    OBVIOUS
  <2> DEFINE x == start[m]
  <2>2. x \in 1 .. L + 1 /\ x <= L /\ x + Width(b[x]) \in 1 .. L + 1
    BY <1>6, <2>1
  <2> HIDE DEF x
  <2>3. x \in 1 .. L /\ x + Width(b[x]) <= L + 1
    <3> HIDE DEF L
    <3> QED BY <1>4, <2>2
  <2>4. CharAt(c, x) = CharAt(b, x) /\ c[x] = b[x]
    BY <1>3, <2>3, CharAtBefore
  <2> QED BY <2>3, <2>4 DEF x
<1> HIDE DEF c, L, w
<1>8. start2 \in [1 .. (n + 1) + 1 -> 1 .. Len(c) + 1]
  <2>1. ASSUME NEW m \in 1 .. n + 2
        PROVE  (IF m = n + 2 THEN (L + w) + 1 ELSE start[m]) \in 1 .. Len(c) + 1
    <3>1. CASE m = n + 2
      BY <1>4, <3>1
    <3>2. CASE m # n + 2
      <4>1. m \in 1 .. n + 1
        BY <3>2
      <4>2. start[m] \in 1 .. L + 1
        BY <1>6, <4>1
      <4> QED BY <1>4, <3>2, <4>2
    <3> QED BY <3>1, <3>2
  <2>2. start2 \in [1 .. n + 2 -> 1 .. Len(c) + 1]
    BY <2>1
  <2>3. (n + 1) + 1 = n + 2
    OBVIOUS
  <2> HIDE DEF start2
  <2> QED BY <2>2, <2>3
<1>9. /\ start2[(n + 1) + 1] = Len(c) + 1 /\ start2[n + 1] = L + 1
      /\ \A m \in 1 .. n + 1 : start2[m] = start[m]
  BY <1>4, <1>6
<1>10. /\ at2[n + 1] = k /\ \A m \in 1 .. n : at2[m] = at[m]
  OBVIOUS
<1>11. at2 \in [1 .. n + 1 -> 1 .. (k + 1) - 1]
  BY <1>6
<1> HIDE DEF start2, at2
<1>12. start2[1] = 1
  BY <1>6, <1>9
<1>13. ASSUME NEW m \in 1 .. n + 1
       PROVE  /\ start2[m] <= Len(c) /\ start2[m + 1] = start2[m] + Width(c[start2[m]])
              /\ CharAt(c, start2[m]) = s[at2[m]]
  <2>1. CASE m = n + 1
    <3>1. start2[m] = L + 1 /\ start2[m + 1] = Len(c) + 1 /\ at2[m] = k
      BY <1>9, <1>10, <2>1
    <3>2. L + 1 <= Len(c) /\ Len(c) + 1 = (L + 1) + w
      BY <1>4, <1>5
    <3> QED BY <1>5, <3>1, <3>2
  <2>2. CASE m # n + 1
    <3>1. m \in 1 .. n /\ m + 1 \in 1 .. n + 1
      BY <2>2
    <3>2. start2[m] = start[m] /\ start2[m + 1] = start[m + 1] /\ at2[m] = at[m]
      BY <1>9, <1>10, <3>1
    <3>3. /\ start[m] \in 1 .. L /\ CharAt(c, start[m]) = s[at[m]]
          /\ start[m + 1] = start[m] + Width(c[start[m]])
      BY <1>6, <1>7, <3>1
    <3>4. start[m] <= Len(c)
      BY <1>4, <3>3
    <3> QED BY <3>2, <3>3, <3>4
  <2> QED BY <2>1, <2>2
<1>14. ASSUME NEW m \in 1 .. (n + 1) - 1 PROVE at2[m] < at2[m + 1]
  <2>1. m \in 1 .. n
    OBVIOUS
  <2>2. CASE m = n
    <3>1. at2[m] \in 1 .. k - 1 /\ at2[m + 1] = k
      BY <1>6, <1>10, <2>1, <2>2
    <3> QED BY <3>1
  <2>3. CASE m # n
    <3>1. m \in 1 .. n - 1 /\ m + 1 \in 1 .. n
      BY <2>1, <2>3
    <3> QED BY <1>6, <1>10, <2>1, <3>1
  <2> QED BY <2>2, <2>3
<1>15. ASSUME NEW x \in 1 .. (k + 1) - 1
       PROVE  s[x] > 127 \/ \E m \in 1 .. n + 1 : at2[m] = x
  <2>1. CASE x = k
    <3>1. n + 1 \in 1 .. n + 1
      OBVIOUS
    <3> QED BY <1>10, <2>1, <3>1
  <2>2. CASE x # k /\ ~(s[x] > 127)
    <3>1. x \in 1 .. k - 1
      BY <2>2
    <3>2. PICK m \in 1 .. n : at[m] = x
      BY <1>6, <2>2, <3>1
    <3>3. at2[m] = x /\ m \in 1 .. n + 1
      BY <1>10, <3>2
    <3> QED BY <3>3
  <2> QED BY <2>1, <2>2
<1>16. Pieces(c, k + 1, s, n + 1, start2, at2)
  BY <1>8, <1>9, <1>11, <1>12, <1>13, <1>14, <1>15 DEF Pieces
<1>17. n + 1 \in 0 .. (k + 1) - 1
  OBVIOUS
<1> QED BY <1>16, <1>17 DEF Whole, c

LEMMA WholeStep == IInv /\ WholeCharacters /\ [Next]_vars => WholeCharacters'
<1> SUFFICES ASSUME IInv, WholeCharacters, [Next]_vars PROVE WholeCharacters'
  OBVIOUS
<1>0. Whole(out, ip, name) /\ out \in Seq(Byte) /\ ip \in Nat \ {0}
  <2>1. Len(name) \in Nat
    BY DEF IInv, TypeOK
  <2> QED BY <2>1, WholeIs DEF IInv, TypeOK
<1>1. (WholeCharacters <=> Whole(out, ip, name))'
  BY WholeIs, PTL
<1>2. SUFFICES Whole(out', ip', name')
  BY <1>1
<1>3. CASE Ascii
  <2>1. More /\ out' = Append(out, name[ip]) /\ ip' = ip + 1 /\ name' = name /\ name[ip] <= 127
    BY <1>3 DEF Ascii
  <2>2. name[ip] \in UniChar
    BY <2>1, MoreChar DEF IInv
  <2>3. Encodes(<<name[ip]>>, name[ip])
    BY <2>1, <2>2, AsciiEncodes
  <2>4. Whole(out \o <<name[ip]>>, ip + 1, name)
    BY <1>0, <2>2, <2>3, WholeAppend
  <2>5. Append(out, name[ip]) = out \o <<name[ip]>>
    <3>1. name[ip] \in Byte
      BY <2>1, <2>2, AsciiByte
    <3> DEFINE x == name[ip]
    <3> HIDE DEF x
    <3>2. Append(out, x) = out \o <<x>>
      BY <1>0, <3>1 DEF x
    <3> QED BY <3>2 DEF x
  <2> QED BY <2>1, <2>4, <2>5
<1>4. CASE Wide
  <2> DEFINE e == Unicode_Character_to_UTF8_Character(name[ip], maxlen)
  <2>1. More /\ out' = out \o e /\ ip' = ip + 1 /\ name' = name /\ name[ip] > 127 /\ e # <<>>
    BY <1>4 DEF Wide
  <2>2. name[ip] \in UniChar /\ maxlen \in Nat
    BY <2>1, MoreChar DEF IInv
  <2>3. Encodes(e, name[ip])
    BY <2>1, <2>2, WideEncodes
  <2> HIDE DEF e
  <2>4. Whole(out \o e, ip + 1, name)
    BY <1>0, <2>2, <2>3, WholeAppend
  <2> QED BY <2>1, <2>4
<1>5. CASE Ignore
  BY <1>0, <1>5, WholeSkip DEF Ignore
<1>6. CASE Return
  BY <1>6, WholeNothing DEF Return
<1>7. CASE Slot \/ \E x \in DirEntry : Start(x)
  <2>1. pc \in {"idle", "gather"} /\ ip' = ip /\ out' = out
    BY <1>7 DEF Slot, Start
  <2>2. ip = 1 /\ out = <<>>
    BY <2>1 DEF IInv, Walking
  <2> QED BY <2>1, <2>2, WholeNothing
<1>8. CASE Convert \/ Finish \/ UNCHANGED vars
  BY <1>0, <1>8 DEF Convert, Finish, vars
<1> QED BY <1>3, <1>4, <1>5, <1>6, <1>7, <1>8 DEF Next, Step

(***************************************************************************)
(* Whatever characters a name has and however long it is, the bytes that   *)
(* are written are whole, well-formed UTF-8 characters of the name, in     *)
(* order: when the room runs out a character is left out, never cut, and   *)
(* before the end of the output only characters beyond ASCII are left out. *)
(***************************************************************************)
THEOREM ConvertsWholeCharacters == Spec => []WholeCharacters
<1>1. Init => WholeCharacters
  BY WholeNothing, WholeIs DEF Init
<1> QED BY <1>1, InitIInv, StepIInv, WholeStep, PTL DEF Spec
=============================================================================
