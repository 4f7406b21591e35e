------------------------------ MODULE Unicode ------------------------------
(***************************************************************************)
(* The name of a directory entry as name_inum and print_direntry get it:   *)
(* its UTF-16 characters are gathered from the entry and the chain of      *)
(* slots behind it (jfs_dirread.c), and converted to UTF-8                 *)
(* (jfs_unicode.c). The third argument of Unicode_String_to_UTF8_String is *)
(* the length of the name, so that n characters get at most n bytes.       *)
(*                                                                         *)
(* Each step copies from one slot or converts one character. Bytes and     *)
(* characters are numbers; the shifts and masks of the code are divisions  *)
(* and remainders, and an or of disjoint bits is a sum. A chain is the     *)
(* sequence of the arrays in it, in the order of the links: the name field *)
(* of the entry, then those of the slots, with anything behind the end of  *)
(* the name.                                                               *)
(***************************************************************************)
EXTENDS Integers, Sequences

CONSTANTS
  DTLHDRDATALEN,  \* characters in an entry, 11
  DTSLOTDATALEN,  \* characters in a slot, 15
  DirEntry        \* the entries: [namlen, chain]

UniChar == 1 .. 65535     \* uint16_t; 0 ends a string
Byte    == 0 .. 255

(* Where character k of a name is. *)
LinkOf(k) == IF k <= DTLHDRDATALEN THEN 1
             ELSE 2 + (k - DTLHDRDATALEN - 1) \div DTSLOTDATALEN
PlaceOf(k) == IF k <= DTLHDRDATALEN THEN k
              ELSE 1 + ((k - DTLHDRDATALEN - 1) % DTSLOTDATALEN)

(* There is a character, and as many slots as the name needs. *)
ASSUME EntryAssumption ==
  /\ DTLHDRDATALEN \in Nat \ {0} /\ DTSLOTDATALEN \in Nat \ {0}
  /\ \A e \in DirEntry :
       /\ e.namlen \in Nat \ {0}
       /\ e.chain \in Seq(Seq(UniChar))
       /\ Len(e.chain) = LinkOf(e.namlen)
       /\ \A l \in 1 .. Len(e.chain) :
            Len(e.chain[l]) = IF l = 1 THEN DTLHDRDATALEN ELSE DTSLOTDATALEN

VARIABLES
  pc,      \* "idle", "gather", "convert" in the loops, "done" behind them
  entry,   \* the entry in hand
  namlen,  \* what was left of the name before the last piece
  len,     \* the length of that piece
  next,    \* the next link of the chain
  name,    \* the characters before n; pwcs of the conversion
  ip,      \* index of the character *ip
  out,     \* the bytes before op
  maxlen   \* bytes that may still be written

vars == <<pc, entry, namlen, len, next, name, ip, out, maxlen>>

slotVars == <<entry, namlen, len, next>>

NoEntry == [namlen |-> 0, chain |-> <<>>]

-----------------------------------------------------------------------------
(* utf8_table: cval, 2^shift and lmask (cmask only marks the end and the     *)
(* smallest character of a row is not used).                                 *)
utf8_table ==
  << [cval |-> 0,   unit |-> 1,          lmask |-> 127],
     [cval |-> 192, unit |-> 64,         lmask |-> 2047],
     [cval |-> 224, unit |-> 4096,       lmask |-> 65535],
     [cval |-> 240, unit |-> 262144,     lmask |-> 2097151],
     [cval |-> 248, unit |-> 16777216,   lmask |-> 67108863],
     [cval |-> 252, unit |-> 1073741824, lmask |-> 2147483647] >>

(* Mutant: a character on the boundary is left to the next row. *)
RowsBelow(wc, room) == {t \in 1 .. 6 : t <= room /\ wc < utf8_table[t].lmask}

(* The rows of the table the loop can look at that have room for wc. *)
Rows(wc, room) == {t \in 1 .. 6 : t <= room /\ wc <= utf8_table[t].lmask}

FirstRow(wc, room) ==
  CHOOSE t \in Rows(wc, room) : \A u \in Rows(wc, room) : t <= u

(* The bytes of wc, or none for the result -1: with room for fewer bytes     *)
(* than wc needs the loop ends without a match. Byte k of t takes the bits   *)
(* from 6 (t - k) on, six of them behind the first byte.                     *)
Unicode_Character_to_UTF8_Character(wc, room) ==
  LET t == FirstRow(wc, room)
      Shifted(k) == wc \div utf8_table[t - k + 1].unit
  IN  IF Rows(wc, room) = {} THEN <<>>
      ELSE [k \in 1 .. t |-> IF k = 1 THEN (utf8_table[t].cval + Shifted(k)) % 256
                             ELSE 128 + (Shifted(k) % 64)]

-----------------------------------------------------------------------------
TypeOK ==
  /\ pc \in {"idle", "gather", "convert", "done"}
  /\ entry \in DirEntry \cup {NoEntry}
  /\ namlen \in 0 .. entry.namlen /\ len \in 0 .. namlen
  /\ next \in 1 .. Len(entry.chain) + 1
  /\ name \in Seq(UniChar)
  /\ ip \in 1 .. Len(name) + 1
  /\ out \in Seq(Byte)
  /\ maxlen \in 0 .. entry.namlen

Init ==
  /\ pc = "idle" /\ entry = NoEntry /\ namlen = 0 /\ len = 0 /\ next = 1
  /\ name = <<>> /\ ip = 1 /\ out = <<>> /\ maxlen = 0

-----------------------------------------------------------------------------
(* Gathering the name.                                                      *)

(* MIN *)
Least(a, b) == IF a < b THEN a ELSE b

(* len = MIN (namlen, DTLHDRDATALEN), and UniStrncpy of that many characters *)
(* of the entry itself.                                                      *)
Start(e) ==
  /\ pc = "idle"
  /\ pc' = "gather" /\ entry' = e /\ next' = 2
  /\ namlen' = e.namlen /\ len' = Least(e.namlen, DTLHDRDATALEN)
  /\ name' = SubSeq(e.chain[1], 1, len')
  /\ UNCHANGED <<ip, out, maxlen>>

(* Mutants: namlen -= len is forgotten; the room is one byte too small. *)
WhatIsLeftAll == namlen
RoomShort == entry.namlen - 1

(* namlen -= len *)
WhatIsLeft == namlen - len

(* A turn of the loop over the slots. *)
Slot ==
  /\ pc = "gather" /\ next <= Len(entry.chain)
  /\ namlen' = WhatIsLeft /\ len' = Least(WhatIsLeft, DTSLOTDATALEN)
  /\ name' = name \o SubSeq(entry.chain[next], 1, len')
  /\ next' = next + 1
  /\ UNCHANGED <<pc, entry, ip, out, maxlen>>

(* The third argument of Unicode_String_to_UTF8_String. *)
Room == entry.namlen

(* next < 0: the conversion begins. *)
Convert ==
  /\ pc = "gather" /\ next > Len(entry.chain)
  /\ pc' = "convert" /\ maxlen' = Room
  /\ UNCHANGED <<slotVars, name, ip, out>>

-----------------------------------------------------------------------------
(* Converting it.                                                           *)

(* Mutant: the loop runs once more when the room is used up. *)
MoreThanRoom == pc = "convert" /\ ip <= Len(name) /\ maxlen >= 0

(* The condition of the while loop: there is a character, and room. *)
More == pc = "convert" /\ ip <= Len(name) /\ maxlen > 0

Ascii ==
  /\ More /\ name[ip] <= 127
  /\ out' = Append(out, name[ip])
  /\ maxlen' = maxlen - 1 /\ ip' = ip + 1
  /\ UNCHANGED <<pc, slotVars, name>>

(* Mutant: a character counts as one byte, however many it has. *)
SizeOne(bytes) == 1

Size(bytes) == Len(bytes)

Wide ==
  LET bytes == Unicode_Character_to_UTF8_Character(name[ip], maxlen)
  IN  /\ More /\ name[ip] > 127 /\ bytes # <<>>
      /\ out' = out \o bytes
      /\ maxlen' = maxlen - Size(bytes) /\ ip' = ip + 1
      /\ UNCHANGED <<pc, slotVars, name>>

(* "Ignore character and move on" *)
Ignore ==
  /\ More /\ name[ip] > 127
  /\ Unicode_Character_to_UTF8_Character(name[ip], maxlen) = <<>>
  /\ maxlen' = maxlen - 1 /\ ip' = ip + 1
  /\ UNCHANGED <<pc, slotVars, name, out>>

Finish ==
  /\ pc = "convert" /\ ~More
  /\ pc' = "done"
  /\ UNCHANGED <<slotVars, name, ip, out, maxlen>>

Return ==
  /\ pc = "done"
  /\ pc' = "idle" /\ entry' = NoEntry /\ namlen' = 0 /\ len' = 0 /\ next' = 1
  /\ name' = <<>> /\ ip' = 1 /\ out' = <<>> /\ maxlen' = 0

Step == Slot \/ Convert \/ Ascii \/ Wide \/ Ignore \/ Finish \/ Return

Next == (\E e \in DirEntry : Start(e)) \/ Step

Spec == Init /\ [][Next]_vars

-----------------------------------------------------------------------------
(* Reference: reading UTF-8.                                                *)

Width(lead) == CASE lead < 128 -> 1 [] lead \in 192 .. 223 -> 2 [] lead \in 224 .. 239 -> 3
                 [] OTHER -> 0

IsTail(b) == b \in 128 .. 191

AtLeast(low, c) == IF c >= low THEN c ELSE 0

(* The character at position k of b: its value, or 0 if it is malformed or   *)
(* longer than it should be.                                                 *)
CharAt(b, k) ==
  LET w == Width(b[k])
  IN  IF k + w - 1 > Len(b) \/ \E j \in 1 .. w - 1 : ~IsTail(b[k + j]) THEN 0
      ELSE CASE w = 1 -> b[k]
             [] w = 2 -> AtLeast(128, (b[k] - 192) * 64 + (b[k + 1] - 128))
             [] w = 3 -> AtLeast(2048, (b[k] - 224) * 4096 + (b[k + 1] - 128) * 64 + (b[k + 2] - 128))
             [] OTHER -> 0

-----------------------------------------------------------------------------
(***************************************************************************)
(* The callers copy or compare the first namlen bytes of UTF8_Buffer: the  *)
(* conversion never writes behind them (jfs_unicode.c:80-102), whichever   *)
(* mix of wide and narrow characters uses up maxlen.                       *)
(***************************************************************************)
OutputFits == Len(out) + maxlen <= entry.namlen

(***************************************************************************)
(* A character is converted as a whole or not at all, and right: what is   *)
(* written at any moment is the UTF-8 form of some of the characters       *)
(* before *ip, in their order (the bits of jfs_unicode.c:54-61). That is,  *)
(* the output falls into n pieces, piece m begins at start[m], and it is   *)
(* the well-formed, shortest form of character at[m] of the name. The      *)
(* characters that are missing are wide ones (jfs_unicode.c:82-89).        *)
(***************************************************************************)
WholeCharacters ==
  \E n \in 0 .. ip - 1 : \E start \in [1 .. n + 1 -> 1 .. Len(out) + 1] :
    /\ start[1] = 1 /\ start[n + 1] = Len(out) + 1
    /\ \A m \in 1 .. n : /\ start[m] <= Len(out)
                         /\ start[m + 1] = start[m] + Width(out[start[m]])
    /\ \E at \in [1 .. n -> 1 .. ip - 1] :
         /\ \A m \in 1 .. n : CharAt(out, start[m]) = name[at[m]]
         /\ \A m \in 1 .. n - 1 : at[m] < at[m + 1]
         /\ \A c \in 1 .. ip - 1 : name[c] > 127 \/ \E m \in 1 .. n : at[m] = c

(* Reference: the name that is on disk. *)
OnDisk(e) == [k \in 1 .. e.namlen |-> e.chain[LinkOf(k)][PlaceOf(k)]]

(***************************************************************************)
(* The walk along the slots (jfs_dirread.c:67-76, 314-323) ends with the   *)
(* characters of the name, all of them and nothing of what lies behind its *)
(* end in the last slot, also for names that just fill the entry or a      *)
(* slot.                                                                   *)
(***************************************************************************)
NameGathered == pc \in {"convert", "done"} => name = OnDisk(entry)

(***************************************************************************)
(* A name of ASCII characters comes out as it is on disk (jfs_unicode.c:   *)
(* 96-100), up to the last character.                                      *)
(***************************************************************************)
AsciiExact ==
  pc = "done" /\ (\A k \in 1 .. entry.namlen : OnDisk(entry)[k] <= 127) =>
    out = OnDisk(entry)

=============================================================================
