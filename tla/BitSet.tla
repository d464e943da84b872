------------------------------- MODULE BitSet -------------------------------
(***************************************************************************)
(* What a bitmap stands for: a set of numbers below NBits, from which the  *)
(* smallest free number is handed out.                                     *)
(***************************************************************************)
EXTENDS Integers

CONSTANT NBits

VARIABLES
  used,  \* the numbers in use
  got    \* what the last operation returned: a number, or -1 for none

Bits == 0 .. NBits - 1
Free == Bits \ used

Init == used = {} /\ got = -1

Alloc ==
  \/ \E i \in Free : /\ \A j \in Free : i <= j
                     /\ used' = used \cup {i} /\ got' = i
  \/ Free = {} /\ got' = -1 /\ UNCHANGED used

Mark   == \E i \in Free : used' = used \cup {i} /\ got' = -1
Unmark == \E i \in used : used' = used \ {i} /\ got' = -1

Next == Alloc \/ Mark \/ Unmark

Spec == Init /\ [][Next]_<<used, got>>
=============================================================================
