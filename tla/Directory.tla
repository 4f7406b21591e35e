----------------------------- MODULE Directory -----------------------------
(***************************************************************************)
(* Reading directories: diskfs_lookup_hard and diskfs_get_directs (dir.c)  *)
(* with the scans below them (jfs_dirread.c).                              *)
(*                                                                         *)
(* Both walk the leaves of a directory from the leftmost one along the     *)
(* next pointers, and both convert each name they look at in the global    *)
(* UTF8_Buffer, which no lock protects: the caller holds the lock of the   *)
(* directory, so two threads are always in different directories, and      *)
(* still they share the buffer. Clearing the buffer, converting a name and *)
(* using the result are separate steps here, and while two threads are     *)
(* inside them the bytes of their names may mix in any way.                *)
(*                                                                         *)
(* Abstractions: a directory is the sequence of its leaves and a leaf the  *)
(* sequence of its entries in the order of stbl. An entry has its name in  *)
(* UTF-8, which is what a client asks for, and what                        *)
(* Unicode_String_to_UTF8_String writes for it: the two differ when the    *)
(* name has characters beyond ASCII, because the room it is given is the   *)
(* number of characters (module Unicode). The way down to the leftmost     *)
(* leaf is a single step. What diskfs_cached_lookup makes of an inode      *)
(* number is the matter of module NodeCache: here it succeeds or fails.    *)
(* REMOVE and RENAME get EROFS before anything is read and are left out;   *)
(* LOOKUP and CREATE do the same.                                          *)
(***************************************************************************)
EXTENDS Integers, Sequences

CONSTANTS
  Thread,     \* RPC threads
  Dir,        \* directories
  RootDir,    \* the directory of diskfs_root_node
  Parent,     \* Parent[d]: idotdot of d, the inode number of its parent
  Leaves,     \* Leaves[d]: the leaves of d, sequences of entries
  Query,      \* names that are looked up, sequences of bytes
  MaxEntries, \* the limit of one diskfs_get_directs, 30 in the code
  Garbage     \* what an uninitialised uint64_t may hold besides -1

Byte == 1 .. 255   \* the bytes of names
Nul  == 0

DirEntry == [name : Seq(Byte), utf8 : Seq(Byte), inum : Nat]

(* The entries of the first k leaves of d, one after the other. *)
Upto(d) ==
  LET f[k \in 0 .. Len(Leaves[d])] == IF k = 0 THEN <<>> ELSE f[k - 1] \o Leaves[d][k]
  IN  f

Entries(d) == Upto(d)[Len(Leaves[d])]

StartsWith(b, s) == Len(s) <= Len(b) /\ SubSeq(b, 1, Len(s)) = s

Ascii(s) == \A k \in 1 .. Len(s) : s[k] < 128

(* s comes before r in the order of the tree, which is that of the numbers   *)
(* of the characters, and so that of the bytes of UTF-8.                     *)
Before(s, r) ==
  \E k \in 1 .. Len(r) :
    /\ \A m \in 1 .. k - 1 : m <= Len(s) /\ s[m] = r[m]
    /\ k > Len(s) \/ s[k] < r[k]

(* u is what the conversion may write for the name s: an ASCII name is       *)
(* written as it is, and otherwise the first byte that is not the one of the *)
(* name stands where a character beyond ASCII was left out.                  *)
Written(u, s) ==
  /\ Len(u) <= Len(s)
  /\ Ascii(s) => u = s
  /\ \A k \in 1 .. Len(u) :
       (\A m \in 1 .. k - 1 : u[m] = s[m]) => u[k] = s[k] \/ s[k] >= 128

(* A directory has a leaf; only the root leaf, if it is the only one, may    *)
(* be empty. The entries are in the order of the tree.                       *)
ASSUME DirAssumption ==
  /\ RootDir \in Dir
  /\ MaxEntries \in Nat \ {0, 1}
  /\ Leaves \in [Dir -> Seq(Seq(DirEntry))]
  /\ \A d \in Dir :
       /\ Len(Leaves[d]) > 0
       /\ Len(Leaves[d]) > 1 => \A k \in 1 .. Len(Leaves[d]) : Leaves[d][k] # <<>>
       /\ \A i \in 1 .. Len(Entries(d)) :
            /\ Written(Entries(d)[i].utf8, Entries(d)[i].name)
            /\ \A j \in 1 .. i - 1 : Before(Entries(d)[j].name, Entries(d)[i].name)
  /\ Query \subseteq Seq(Byte) \ {<<>>}

VARIABLES
  utf8,     \* UTF8_Buffer
  pc,       \* where each thread is
  dp,       \* the directory it works on
  name,     \* diskfs_lookup_hard: the name,
  gotinum,  \*   what the scan found,
  err,      \*   and the result
  leaf, i,  \* the leaf and the entry in hand
  cpos,     \* readndir: entries passed in earlier leaves
  pos,      \* diskfs_get_directs: the entry wanted next,
  amt,      \*   *amt,
  recs,     \*   the records written to the buffer,
  cnt,      \*   and how many of them *datacnt covers
  nomem,    \* history: a malloc failed in this call
  shared    \* history: another call worked in UTF8_Buffer at the same time

vars == <<utf8, pc, dp, name, gotinum, err, leaf, i, cpos, pos, amt, recs, cnt, nomem, shared>>

lookupVars == <<name, gotinum, err>>
listVars   == <<cpos, pos, amt, recs, cnt>>

Blank == <<>>

TypeOK ==
  /\ \A b \in DOMAIN utf8 :
       \/ utf8[b] = Nul
       \/ \E d \in Dir : \E k \in 1 .. Len(Entries(d)) :
            b <= Len(Entries(d)[k].utf8) /\ utf8[b] = Entries(d)[k].utf8[b]
  /\ pc \in [Thread -> {"idle", "scan", "clear", "convert", "compare", "load", "relock",
                        "nput", "found", "walk", "listclear", "listconvert", "copy", "listed"}]
  /\ dp \in [Thread -> Dir] /\ {nomem, shared} \subseteq [Thread -> BOOLEAN]
  /\ \A t \in Thread :
       /\ name[t] \in Query \cup {Blank}
       /\ gotinum[t] \in Nat \cup {-1, Garbage}
       /\ err[t] \in {"ok", "ENOENT", "EAGAIN", "EIO"}
       /\ leaf[t] \in Nat /\ i[t] \in Nat
       /\ cpos[t] \in Nat /\ pos[t] \in Nat
       /\ amt[t] \in 0 .. MaxEntries
       /\ recs[t] \in Seq([named : BOOLEAN, inum : Nat \cup {Garbage}])
       /\ Len(recs[t]) <= MaxEntries
       /\ cnt[t] \in 0 .. Len(recs[t])

Init ==
  /\ utf8 = Blank
  /\ pc = [t \in Thread |-> "idle"]
  /\ dp = [t \in Thread |-> RootDir]
  /\ name = [t \in Thread |-> Blank]
  /\ gotinum = [t \in Thread |-> 0]
  /\ err = [t \in Thread |-> "ok"]
  /\ leaf = [t \in Thread |-> 0]
  /\ i = [t \in Thread |-> 0]
  /\ cpos = [t \in Thread |-> 0]
  /\ pos = [t \in Thread |-> 0]
  /\ amt = [t \in Thread |-> 0]
  /\ recs = [t \in Thread |-> <<>>]
  /\ cnt = [t \in Thread |-> 0]
  /\ nomem = [t \in Thread |-> FALSE]
  /\ shared = [t \in Thread |-> FALSE]

-----------------------------------------------------------------------------
(* Threads that write or read UTF8_Buffer in their next step. *)
Buffering == {"clear", "convert", "compare", "listclear", "listconvert", "copy"}

(* Thread t goes on to label. Whoever is in the buffer together with another *)
(* thread is marked, up to the end of the call.                              *)
Sharing(u) == pc[u] \in Buffering /\ \E v \in Thread \ {u} : pc[v] \in Buffering

Goto(t, label) ==
  /\ pc' = [pc EXCEPT ![t] = label]
  /\ shared' = [u \in Thread |->
                  (shared[u] \/ Sharing(u)) /\ ~(u = t /\ label = "idle")]

MallocFails(t) == nomem' = [nomem EXCEPT ![t] = TRUE]

(* The caller locked dp->lock. *)
Locked(d) == \E u \in Thread : pc[u] \notin {"idle", "relock", "nput"} /\ dp[u] = d

Current(t) == Leaves[dp[t]][leaf[t]][i[t]]

(* What a thread may find or leave in the buffer when bytes is what it would *)
(* alone: with other threads at work there each byte may be theirs, or 0.    *)
Racy(t, bytes) ==
  LET others == {Current(u).utf8 : u \in {v \in Thread \ {t} : pc[v] \in Buffering}}
      longest == CHOOSE n \in {Len(b) : b \in others \cup {bytes}} :
                   \A b \in others \cup {bytes} : Len(b) <= n
      At(k) == {b[k] : b \in {c \in others \cup {bytes} : k <= Len(c)}} \cup {Nul}
  IN  IF others = {} THEN {bytes}
      ELSE {b \in [1 .. longest -> UNION {At(k) : k \in 1 .. longest}] :
              \A k \in 1 .. longest : b[k] \in At(k)}

(* name[0] == '.', and the two special names. *)
Dotted(s) == s[1] = 46
Dot       == <<46>>
DotDot    == <<46, 46>>

-----------------------------------------------------------------------------
(* diskfs_lookup_hard                                                       *)

(* gotinum has no value yet. *)
LookupHard(t, d, s) ==
  /\ pc[t] = "idle" /\ ~Locked(d)
  /\ dp' = [dp EXCEPT ![t] = d]
  /\ name' = [name EXCEPT ![t] = s]
  /\ gotinum' = [gotinum EXCEPT ![t] = Garbage]
  /\ Goto(t, "scan")
  /\ UNCHANGED <<utf8, err, leaf, i, listVars, nomem>>

(* gotinum is read without having been assigned. *)
Unassigned(t) == \E g \in {-1, Garbage} : gotinum' = [gotinum EXCEPT ![t] = g]

(* directory: with an empty root leaf it returns, gotinum whatever it is.     *)
(* Otherwise on to the first entry of the leftmost leaf.                     *)
ScanStart(t) ==
  /\ pc[t] = "scan"
  /\ IF Leaves[dp[t]] = << <<>> >>
     THEN /\ Unassigned(t)
          /\ Goto(t, "load") /\ UNCHANGED <<leaf, i>>
     ELSE /\ leaf' = [leaf EXCEPT ![t] = 1]
          /\ i' = [i EXCEPT ![t] = 1]
          /\ Goto(t, "clear") /\ UNCHANGED gotinum
  /\ UNCHANGED <<utf8, dp, name, err, listVars, nomem>>

(* directory: find_inode or an xRead fails. The inode was there when the     *)
(* node was made, so it is for lack of memory.                               *)
ScanNoMemory(t) ==
  /\ pc[t] = "scan"
  /\ MallocFails(t)
  /\ Unassigned(t)
  /\ Goto(t, "load")
  /\ UNCHANGED <<utf8, dp, leaf, i, name, err, listVars>>

(* Mutant: i is not counted. *)
NextIndexSame(t) == i[t]

(* i++ *)
NextIndex(t) == i[t] + 1

(* On to the next entry, or to the first of the next leaf; behind the last   *)
(* the scan ends.                                                            *)
NextEntry(t) ==
  IF i[t] < Len(Leaves[dp[t]][leaf[t]])
  THEN i' = [i EXCEPT ![t] = NextIndex(t)] /\ leaf' = leaf /\ Goto(t, "clear")
  ELSE IF leaf[t] < Len(Leaves[dp[t]])
  THEN i' = [i EXCEPT ![t] = 1] /\ leaf' = [leaf EXCEPT ![t] = @ + 1] /\ Goto(t, "clear")
  ELSE UNCHANGED <<leaf, i>> /\ Goto(t, "load")

(* print_direntry: no memory for the name, 1 as for a mismatch. *)
EntryNoMemory(t) ==
  /\ pc[t] = "clear"
  /\ MallocFails(t)
  /\ NextEntry(t)
  /\ UNCHANGED <<utf8, dp, lookupVars, listVars>>

(* print_direntry: memset (UTF8_Buffer, 0, ...) *)
Clear(t) ==
  /\ pc[t] = "clear"
  /\ utf8' = Blank
  /\ Goto(t, "convert")
  /\ UNCHANGED <<dp, leaf, i, lookupVars, listVars, nomem>>

(* print_direntry: Unicode_String_to_UTF8_String *)
Convert(t) ==
  /\ pc[t] = "convert"
  /\ utf8' \in Racy(t, Current(t).utf8)
  /\ Goto(t, "compare")
  /\ UNCHANGED <<dp, leaf, i, lookupVars, listVars, nomem>>

(* sname[i], a plain char, as the comparison promotes it. *)
Signed(c) == IF c < 128 THEN c ELSE c - 256

(* UTF8_Buffer[i]==sname[i] for the first snamelen bytes. The buffer is of   *)
(* uint8_t, so a byte beyond ASCII never compares equal.                     *)
Agrees(b, s) == Len(s) <= Len(b) /\ \A k \in 1 .. Len(s) : b[k] = Signed(s[k])

(* Mutants: one byte too few is compared; a mismatch leaves gotinum. *)
MatchesShort(t, b) == Agrees(b, SubSeq(name[t], 1, Len(name[t]) - 1))
MismatchKept(t) == gotinum[t]

(* The first namelen bytes of the buffer are compared with the name. *)
Matches(t, b) == Agrees(b, name[t])

(* *gotinum after a comparison that fails *)
Mismatch(t) == -1

(* print_direntry: a match ends the scan with the inode of the entry;        *)
(* otherwise gotinum is -1 and the scan goes on.                             *)
Compare(t) ==
  /\ pc[t] = "compare"
  /\ \E b \in Racy(t, utf8) :
       IF Matches(t, b)
       THEN /\ gotinum' = [gotinum EXCEPT ![t] = Current(t).inum]
            /\ UNCHANGED <<leaf, i>>
            /\ Goto(t, "load")
       ELSE gotinum' = [gotinum EXCEPT ![t] = Mismatch(t)] /\ NextEntry(t)
  /\ UNCHANGED <<utf8, dp, name, err, listVars, nomem>>

(* The end of dirscan and of diskfs_lookup_hard: a name that begins with a   *)
(* dot always counts as found; ".." of the root is EAGAIN; "." is dp itself; *)
(* every other name looks gotinum up and returns the result.                 *)
LoadInode(t) ==
  /\ pc[t] = "load" /\ ~(name[t] = DotDot /\ dp[t] # RootDir)
  /\ \E lookup \in {"ok", "EIO"} :
       err' = [err EXCEPT ![t] =
                 CASE ~Dotted(name[t]) /\ gotinum[t] = -1 -> "ENOENT"
                   [] name[t] = DotDot                    -> "EAGAIN"
                   [] name[t] = Dot                       -> "ok"
                   [] OTHER                               -> lookup]
  /\ Goto(t, "found")
  /\ UNCHANGED <<utf8, dp, leaf, i, name, gotinum, listVars, nomem>>

(* ".." of another directory: dp is unlocked, for good with SPEC_DOTDOT,     *)
(* gotinum is looked up and the result ignored.                              *)
LoadDotDot(t) ==
  /\ pc[t] = "load" /\ name[t] = DotDot /\ dp[t] # RootDir
  /\ \/ Goto(t, "nput")
     \/ Goto(t, "relock")
  /\ UNCHANGED <<utf8, dp, leaf, i, lookupVars, listVars, nomem>>

(* pthread_mutex_lock (&dp->lock) *)
Relock(t) ==
  /\ pc[t] = "relock" /\ ~Locked(dp[t])
  /\ Goto(t, "found")
  /\ UNCHANGED <<utf8, dp, leaf, i, lookupVars, listVars, nomem>>

-----------------------------------------------------------------------------
(* diskfs_get_directs                                                       *)

GetDirects(t, d, entry) ==
  /\ pc[t] = "idle" /\ ~Locked(d)
  /\ dp' = [dp EXCEPT ![t] = d]
  /\ pos' = [pos EXCEPT ![t] = entry]
  /\ amt' = [amt EXCEPT ![t] = 0]
  /\ recs' = [recs EXCEPT ![t] = <<>>]
  /\ cnt' = [cnt EXCEPT ![t] = 0]
  /\ leaf' = [leaf EXCEPT ![t] = 1]
  /\ cpos' = [cpos EXCEPT ![t] = 0]
  /\ Goto(t, "walk")
  /\ UNCHANGED <<utf8, i, lookupVars, nomem>>

(* Mutant: the last entry of a leaf is behind its end. *)
BehindLast(t) == pos[t] - cpos[t] >= Len(Leaves[dp[t]][leaf[t]]) - 1

(* The entry wanted is not in this leaf. *)
Behind(t) == pos[t] - cpos[t] >= Len(Leaves[dp[t]][leaf[t]])

(* readndir reports an error, at the latest behind the last entry: the       *)
(* loop ends, *datacnt covers all records.                                   *)
ListEnd(t) ==
  /\ pc[t] = "walk"
  /\ leaf[t] = Len(Leaves[dp[t]]) /\ Behind(t)
  /\ cnt' = [cnt EXCEPT ![t] = Len(recs[t])]
  /\ Goto(t, "listed")
  /\ UNCHANGED <<utf8, dp, leaf, i, cpos, pos, amt, recs, lookupVars, nomem>>

(* readndir has no memory: an error like the end of the directory. *)
ListNoMemory(t) ==
  /\ pc[t] = "walk" /\ leaf[t] = 1
  /\ MallocFails(t)
  /\ cnt' = [cnt EXCEPT ![t] = Len(recs[t])]
  /\ Goto(t, "listed")
  /\ UNCHANGED <<utf8, dp, leaf, i, cpos, pos, amt, recs, lookupVars>>

(* readndir counts the entries of a leaf and goes on to the next one. *)
WalkLeaf(t) ==
  /\ pc[t] = "walk"
  /\ leaf[t] < Len(Leaves[dp[t]]) /\ Behind(t)
  /\ cpos' = [cpos EXCEPT ![t] = @ + Len(Leaves[dp[t]][leaf[t]])]
  /\ leaf' = [leaf EXCEPT ![t] = @ + 1]
  /\ Goto(t, "walk")
  /\ UNCHANGED <<utf8, dp, i, pos, amt, recs, cnt, lookupVars, nomem>>

(* readndir reaches the entry at pos. *)
WalkFound(t) ==
  /\ pc[t] = "walk"
  /\ ~Behind(t)
  /\ i' = [i EXCEPT ![t] = pos[t] - cpos[t] + 1]
  /\ Goto(t, "listclear")
  /\ UNCHANGED <<utf8, dp, leaf, lookupVars, listVars, nomem>>

(* name_inum: memset, and the conversion. *)
ListClear(t) ==
  /\ pc[t] = "listclear"
  /\ utf8' = Blank
  /\ Goto(t, "listconvert")
  /\ UNCHANGED <<dp, leaf, i, lookupVars, listVars, nomem>>

ListConvert(t) ==
  /\ pc[t] = "listconvert"
  /\ utf8' \in Racy(t, Current(t).utf8)
  /\ Goto(t, "copy")
  /\ UNCHANGED <<dp, leaf, i, lookupVars, listVars, nomem>>

(* name_inum copies namlen bytes of the buffer b, of which the record gets   *)
(* those before the first 0. It is noted whether it starts with the name.    *)
Record(t, b) == [named |-> StartsWith(b, Current(t).name), inum |-> Current(t).inum]

(* Mutants: there is no limit; the same entry is wanted again. *)
FullNever(t) == FALSE
PosSame(t) == pos[t]

(* *amt >= 30, counting this record *)
Full(t) == amt[t] + 1 >= MaxEntries

(* pos++ *)
NextPos(t) == pos[t] + 1

(* The name and the inode number go into the next record. With the last     *)
(* record allowed the function returns at once, before datap is moved, so    *)
(* that *datacnt does not cover it.                                          *)
AddRecord(t, r) ==
  /\ recs' = [recs EXCEPT ![t] = Append(@, r)]
  /\ amt' = [amt EXCEPT ![t] = @ + 1]
  /\ pos' = [pos EXCEPT ![t] = NextPos(t)]
  /\ leaf' = [leaf EXCEPT ![t] = 1]
  /\ cpos' = [cpos EXCEPT ![t] = 0]
  /\ IF Full(t)
     THEN cnt' = [cnt EXCEPT ![t] = Len(recs[t])] /\ Goto(t, "listed")
     ELSE cnt' = cnt /\ Goto(t, "walk")

Copy(t) ==
  /\ pc[t] = "copy"
  /\ \E b \in Racy(t, utf8) : AddRecord(t, Record(t, b))
  /\ UNCHANGED <<utf8, dp, i, lookupVars, nomem>>

(* name_inum has no memory for the name and returns without one: the record  *)
(* gets what name and gotinum hold, the last record or nothing yet.          *)
NameNoMemory(t) ==
  /\ pc[t] = "listclear"
  /\ MallocFails(t)
  /\ AddRecord(t, [named |-> FALSE,
                   inum  |-> IF recs[t] = <<>> THEN Garbage ELSE recs[t][Len(recs[t])].inum])
  /\ UNCHANGED <<utf8, dp, i, lookupVars>>

-----------------------------------------------------------------------------
(* The call returns to its caller, which unlocks the directory unless that   *)
(* was done; its local variables are gone.                                   *)
Return(t) ==
  /\ pc[t] \in {"found", "nput", "listed"}
  /\ Goto(t, "idle")
  /\ dp' = [dp EXCEPT ![t] = RootDir]
  /\ name' = [name EXCEPT ![t] = Blank]
  /\ gotinum' = [gotinum EXCEPT ![t] = 0]
  /\ err' = [err EXCEPT ![t] = "ok"]
  /\ leaf' = [leaf EXCEPT ![t] = 0]
  /\ i' = [i EXCEPT ![t] = 0]
  /\ cpos' = [cpos EXCEPT ![t] = 0]
  /\ pos' = [pos EXCEPT ![t] = 0]
  /\ amt' = [amt EXCEPT ![t] = 0]
  /\ recs' = [recs EXCEPT ![t] = <<>>]
  /\ cnt' = [cnt EXCEPT ![t] = 0]
  /\ nomem' = [nomem EXCEPT ![t] = FALSE]
  /\ UNCHANGED utf8

Step(t) ==
  \/ ScanStart(t) \/ ScanNoMemory(t) \/ EntryNoMemory(t)
  \/ Clear(t) \/ Convert(t) \/ Compare(t)
  \/ LoadInode(t) \/ LoadDotDot(t) \/ Relock(t)
  \/ ListEnd(t) \/ ListNoMemory(t) \/ WalkLeaf(t) \/ WalkFound(t)
  \/ ListClear(t) \/ ListConvert(t) \/ Copy(t) \/ NameNoMemory(t) \/ Return(t)

(* A listing starts at the first entry or behind the records of an earlier   *)
(* call, so anywhere up to the end of the directory.                         *)
Call(t) ==
  \E d \in Dir :
    \/ \E s \in Query : LookupHard(t, d, s)
    \/ \E entry \in 0 .. Len(Entries(d)) : GetDirects(t, d, entry)

Next == \E t \in Thread : Call(t) \/ Step(t)

Spec == Init /\ [][Next]_vars

(* A call that was made runs to its end, and the lock of a directory that   *)
(* others take and release is one day got again.                            *)
FairSpec == Spec /\ \A t \in Thread : WF_vars(Step(t)) /\ SF_vars(Relock(t))

-----------------------------------------------------------------------------
(* Properties.                                                              *)

Positions(d) == 1 .. Len(Entries(d))

(***************************************************************************)
(* A call that has UTF8_Buffer for itself, and memory, finds every ASCII   *)
(* name of its directory with its own inode, whatever was in the buffer    *)
(* before and although print_direntry compares only the first namelen      *)
(* bytes (jfs_dirread.c:331), of names that may have lost characters in    *)
(* the conversion: the order of the tree puts the name before the longer   *)
(* ones that begin with it and before those that lost a wide character. Of *)
(* other names this is not true: jfs_dirread.c:333 compares their bytes    *)
(* with signed ones, and they are never found.                             *)
(***************************************************************************)
ExistingNameFound ==
  \A t \in Thread :
    pc[t] = "found" /\ ~nomem[t] /\ ~shared[t] /\ Ascii(name[t]) =>
      \A k \in Positions(dp[t]) :
        Entries(dp[t])[k].name = name[t] =>
          err[t] # "ENOENT" /\ gotinum[t] = Entries(dp[t])[k].inum

(***************************************************************************)
(* Whatever other threads write into UTF8_Buffer meanwhile, the inode      *)
(* number that a lookup of an ordinary name hands to the node cache is     *)
(* that of an entry of the directory that was searched, unless the         *)
(* directory is empty, or memory ran out, and gotinum was never assigned.  *)
(***************************************************************************)
InodeOfThisDirectory ==
  \A t \in Thread :
    pc[t] = "found" /\ err[t] \in {"ok", "EIO"} /\ ~Dotted(name[t]) /\ ~nomem[t]
      /\ Positions(dp[t]) # {} =>
        \E k \in Positions(dp[t]) : Entries(dp[t])[k].inum = gotinum[t]

(***************************************************************************)
(* Listings are right in the inode numbers even while other threads use    *)
(* the buffer: the records are consecutive entries, none twice and none    *)
(* left out across leaves, though readndir starts over for every entry.    *)
(***************************************************************************)
ListsConsecutive ==
  \A t \in Thread : ~nomem[t] =>
    \A k \in 1 .. Len(recs[t]) :
      LET n == pos[t] - Len(recs[t]) + k
      IN  n \in Positions(dp[t]) /\ recs[t][k].inum = Entries(dp[t])[n].inum

(***************************************************************************)
(* A caller that goes on behind the records *datacnt covers, as the C      *)
(* library does, gets to the end of the directory: unless memory ran out,  *)
(* a call that covers no record was made at the end.                       *)
(***************************************************************************)
ListingProgress ==
  \A t \in Thread :
    pc[t] = "listed" /\ cnt[t] = 0 /\ ~nomem[t] =>
      pos[t] - Len(recs[t]) >= Len(Entries(dp[t]))

(***************************************************************************)
(* Every call of diskfs_lookup_hard and diskfs_get_directs returns: the    *)
(* scans end, and a thread that gave the lock of its directory up for ".." *)
(* (dir.c:185-187) gets it again, though others take it meanwhile.         *)
(***************************************************************************)
CallEnds ==
  \A t \in Thread : (pc[t] # "idle") ~> (pc[t] = "idle")

(***************************************************************************)
(* dir.c:182-184, "we are permanently read-only, so things are necessarily *)
(* quiescent": an ASCII name that is in the directory is found whatever    *)
(* other threads do, and the record of an entry with such a name carries   *)
(* it. The shared UTF8_Buffer is not quiescent.                            *)
(***************************************************************************)
NamesQuiescent ==
  \A t \in Thread : ~nomem[t] =>
    /\ pc[t] = "found" /\ err[t] = "ENOENT" /\ Ascii(name[t]) =>
         \A k \in Positions(dp[t]) : Entries(dp[t])[k].name # name[t]
    /\ \A k \in 1 .. Len(recs[t]) :
         Ascii(Entries(dp[t])[pos[t] - Len(recs[t]) + k].name) => recs[t][k].named

(***************************************************************************)
(* ".." of a directory below the root hands the number of its parent to    *)
(* the node cache. The root of the directory tree has it, jfs_dtree.h:122, *)
(* "parent inode number", but the scan of dirscan is over the entries, and *)
(* ".." is not one of them.                                                *)
(***************************************************************************)
ParentFound ==
  \A t \in Thread :
    pc[t] \in {"relock", "nput"} /\ ~nomem[t] =>
      gotinum[t] = Parent[dp[t]]

=============================================================================
