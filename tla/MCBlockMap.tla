----------------------------- MODULE MCBlockMap -----------------------------
(***************************************************************************)
(* Instances of BlockMap for TLC.                                          *)
(***************************************************************************)
EXTENDS BlockMap, TLC

\* Nothing orders the files.
Symm == Permutations(File)
=============================================================================
