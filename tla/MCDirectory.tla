---------------------------- MODULE MCDirectory ----------------------------
(***************************************************************************)
(* Three directories: one of two leaves, with a name that begins with      *)
(* another one and after the conversion is the same; one of a single leaf, *)
(* with a name of which the conversion leaves nothing; and an empty one.   *)
(***************************************************************************)
EXTENDS Directory

a == <<97>>
b == <<98>>
c == <<99>>
EAcute == <<195, 169>>

(* An entry whose name is converted to u. *)
E(n, u, k) == [name |-> n, utf8 |-> u, inum |-> k]

MCDir == {"root", "sub", "empty"}

MCParent == [d \in MCDir |-> 2]

MCLeaves ==
  [d \in MCDir |->
     CASE d = "root" -> << <<E(a, a, 10)>>,
                           <<E(c, c, 11), E(c \o EAcute, c, 12)>> >>
       [] d = "sub"  -> << <<E(b, b, 20), E(EAcute, <<>>, 21)>> >>
       [] OTHER      -> << <<>> >>]

MCQuery == {c, DotDot}
=============================================================================
