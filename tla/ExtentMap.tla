----------------------------- MODULE ExtentMap -----------------------------
(***************************************************************************)
(* What a caller of xt_Lookup and find_iag relies on: a file is a set of   *)
(* extents, and one call answers one question about it. There are no pages *)
(* and there is no search: a block that some extent covers is mapped, in a *)
(* single step, to its disk address and to as many blocks as the caller    *)
(* asked for and the extent still has; a block in a hole is reported as    *)
(* unmapped. Module XTree implements this.                                 *)
(***************************************************************************)
EXTENDS Integers

CONSTANTS
  Block,     \* the blocks that are asked for
  Length     \* the numbers of blocks that are asked for

VARIABLES
  extents,   \* the extents of the file: offset, length and address
  status,    \* "call", "busy", "done" or "failed"
  key,       \* the block asked for
  want,      \* the number of blocks asked for
  rc,        \* the return value: 0 for a mapped block
  xaddr,     \* the disk address of the block
  xlen       \* the number of consecutive blocks from there on

vars == <<extents, status, key, want, rc, xaddr, xlen>>

Init ==
  /\ status = "call"
  /\ key = 0 /\ want = 0 /\ rc = 0 /\ xaddr = 0 /\ xlen = 0

Call(k, w) ==
  /\ status = "call" /\ status' = "busy"
  /\ key' = k /\ want' = w
  /\ UNCHANGED <<extents, rc, xaddr, xlen>>

(* The inode that holds the map cannot be read. *)
Fail ==
  /\ status = "call" /\ status' = "failed"
  /\ rc' = 1
  /\ UNCHANGED <<extents, key, want, xaddr, xlen>>

Covers(x) == x.off <= key /\ key < x.off + x.len

Mapped ==
  /\ status = "busy" /\ status' = "done"
  /\ \E x \in extents :
       /\ Covers(x)
       /\ xaddr' = x.addr + (key - x.off)
       /\ xlen' = IF want < x.off + x.len - key THEN want ELSE x.off + x.len - key
  /\ rc' = 0
  /\ UNCHANGED <<extents, key, want>>

Hole ==
  /\ status = "busy" /\ status' = "done"
  /\ \A x \in extents : ~Covers(x)
  /\ rc' \in {-1, 1}
  /\ xlen' = want
  /\ UNCHANGED <<extents, key, want, xaddr>>

Next == (\E k \in Block, w \in Length : Call(k, w)) \/ Fail \/ Mapped \/ Hole

Spec == Init /\ [][Next]_vars
=============================================================================
