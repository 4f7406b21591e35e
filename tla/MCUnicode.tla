----------------------------- MODULE MCUnicode -----------------------------
(***************************************************************************)
(* Names of up to four characters, each at a boundary of utf8_table, in    *)
(* entries of one character and slots of two. What is behind the end of a  *)
(* name in its last slot is a character as well.                           *)
(***************************************************************************)
EXTENDS Unicode

Boundary == {97, 127, 128, 2047, 2048, 65535}

At(s, k) == IF k <= Len(s) THEN s[k] ELSE 98

ChainOf(s) ==
  [l \in 1 .. LinkOf(Len(s)) |->
     IF l = 1 THEN <<s[1]>> ELSE <<At(s, 2 * l - 2), At(s, 2 * l - 1)>>]

MCDirEntry ==
  {[namlen |-> Len(s), chain |-> ChainOf(s)] : s \in UNION {[1 .. n -> Boundary] : n \in 1 .. 4}}
=============================================================================
