----------------------------- MODULE BlockOwner -----------------------------
(***************************************************************************)
(* What the block allocator promises the files: a block has one owner at   *)
(* a time.  A file takes blocks from nobody and gives them back to nobody; *)
(* a block never moves from one file to another.  A block may also be      *)
(* lost: it is marked in the freemap and no file references it, and then   *)
(* nothing brings it back.                                                 *)
(***************************************************************************)
EXTENDS Integers

CONSTANTS
  Block, File,
  Nobody, Lost  \* no files, and different

VARIABLE owner

Owner == File \cup {Nobody, Lost}

TypeOK == owner \in [Block -> Owner]

Init == owner = [b \in Block |-> Nobody]

\* Blocks of the owners in from get the owners in to; the others stay.
Move(from, to) ==
  owner' \in {o \in [Block -> Owner] :
                \A b \in Block : o[b] # owner[b] => owner[b] \in from /\ o[b] \in to}

\* What could not be entered in the file after all is lost, and so is what a
\* file references beyond its size when it lets go of the rest.
Take(f)    == Move({Nobody}, {f, Lost})
Release(f) == Move({f}, {Nobody, Lost})

Next == \E f \in File : Take(f) \/ Release(f)

Spec == Init /\ [][Next]_owner
=============================================================================
