----------------------------- MODULE NodeTable -----------------------------
(***************************************************************************)
(* What nodehash promises to the rest of the translator: a table that      *)
(* holds at most one node for an inode number and at most one inode number *)
(* for a node, and that only changes by one entry at a time, when a lookup *)
(* that found nothing adds a node and when the last reference to a node is *)
(* gone. The chains of module HashChain implement it, and so does module   *)
(* NodeCache, in which many threads look nodes up at once.                 *)
(***************************************************************************)
CONSTANTS Node, Inum

VARIABLE entries   \* the pairs of an inode number and its node

Init == entries = {}

Insert(i, n) ==
  /\ \A e \in entries : e[1] # i /\ e[2] # n
  /\ entries' = entries \cup {<<i, n>>}

Remove(e) == entries' = entries \ {e}

Next ==
  \/ \E i \in Inum, n \in Node : Insert(i, n)
  \/ \E e \in entries : Remove(e)

Spec == Init /\ [][Next]_entries
=============================================================================
