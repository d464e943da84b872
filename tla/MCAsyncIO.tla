----------------------------- MODULE MCAsyncIO -----------------------------
(***************************************************************************)
(* Instances of AsyncIO for TLC.                                           *)
(***************************************************************************)
EXTENDS AsyncIO, TLC

\* Requests, futures, buffers and blocks are addresses: they are compared for
\* equality only.
Symm == Permutations(Request) \cup Permutations(Frame)
          \cup Permutations(Block) \cup Permutations(Buf)
=============================================================================
