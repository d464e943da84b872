------------------------------ MODULE NameTree ------------------------------
(***************************************************************************)
(* What directories promise: the numbers in use are the nodes of a tree,   *)
(* and each but the root has one name, in one directory.  A directory      *)
(* gives a name to one node, and goes away only when it gives none.        *)
(***************************************************************************)
CONSTANTS Nr, Name, Root

VARIABLES
  used,  \* the numbers in use
  links  \* who is called what, where

Link == [dir: Nr, name: Name, nr: Nr]

TypeOK == used \subseteq Nr /\ links \subseteq Link

Init == used = {Root} /\ links = {}

Make(d, n, i) ==
  /\ d \in used /\ i \notin used
  /\ \A l \in links : ~(l.dir = d /\ l.name = n)
  /\ used' = used \cup {i}
  /\ links' = links \cup {[dir |-> d, name |-> n, nr |-> i]}

Remove(l) ==
  /\ \A m \in links : m.dir # l.nr
  /\ used' = used \ {l.nr}
  /\ links' = links \ {l}

Next ==
  \/ \E d, i \in Nr, n \in Name : Make(d, n, i)
  \/ \E l \in links : Remove(l)

Spec == Init /\ [][Next]_<<used, links>>
=============================================================================
