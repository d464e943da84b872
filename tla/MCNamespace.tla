---------------------------- MODULE MCNamespace ----------------------------
(***************************************************************************)
(* Instances of Namespace for TLC.                                         *)
(***************************************************************************)
EXTENDS Namespace, TLC

\* Names of one length are alike.
Symm == Permutations(ShortName) \cup Permutations(LongName)
=============================================================================
