---------------------------- MODULE FutureStore ----------------------------
(***************************************************************************)
(* What the callers of block.h rely on, without reactors, counters or      *)
(* stack frames: a disk of blocks, reads and writes issued on behalf of a  *)
(* future, each of which takes effect once and as a whole, or fails, some  *)
(* time after it was issued, in no particular order, and a wait on a       *)
(* future that ends only when everything issued on it has ended.           *)
(***************************************************************************)
CONSTANTS Request, Frame, Block, Buf, Value, Zero, Free, None

VARIABLES
  disk,     \* block contents
  mem,      \* the caller's buffers
  pending,  \* requests that have not taken effect yet
  waiting   \* the future the caller waits for, or None

vars == <<disk, mem, pending, waiting>>

Init ==
  /\ disk = [b \in Block |-> Zero]
  /\ mem = [d \in Buf |-> Zero]
  /\ pending = [q \in Request |-> Free]
  /\ waiting = None

Of(f) == {q \in Request : pending[q] # Free /\ pending[q].fut = f}

\* A write carries the contents its buffer has when it is issued.
Pend(q, op, f, d, b) ==
  /\ waiting = None
  /\ pending[q] = Free
  /\ pending' = [pending EXCEPT ![q] =
                   [op |-> op, fut |-> f, blk |-> b, buf |-> d,
                    val |-> IF op = "write" THEN mem[d] ELSE Zero]]
  /\ UNCHANGED <<disk, mem>>

Issue(q) ==
  \E op \in {"read", "write"}, f \in Frame, d \in Buf, b \in Block :
    /\ Pend(q, op, f, d, b)
    /\ waiting' \in {None, f}

Land(q) ==
  /\ pending[q] # Free
  /\ pending' = [pending EXCEPT ![q] = Free]
  /\ \/ /\ pending[q].op = "write"
        /\ disk' = [disk EXCEPT ![pending[q].blk] = pending[q].val]
        /\ UNCHANGED mem
     \/ /\ pending[q].op = "read"
        /\ mem' = [mem EXCEPT ![pending[q].buf] = disk[pending[q].blk]]
        /\ UNCHANGED disk
  /\ UNCHANGED waiting

\* The device may fail a request, which nobody is told: a write leaves the
\* disk alone, and a read its buffer zeroed.
Fail(q) ==
  /\ pending[q] # Free
  /\ pending' = [pending EXCEPT ![q] = Free]
  /\ \/ /\ pending[q].op = "write"
        /\ UNCHANGED mem
     \/ /\ pending[q].op = "read"
        /\ mem' = [mem EXCEPT ![pending[q].buf] = Zero]
  /\ UNCHANGED <<disk, waiting>>

Wait(f) ==
  /\ waiting = None
  /\ waiting' = f
  /\ UNCHANGED <<disk, mem, pending>>

Wake ==
  /\ waiting # None
  /\ Of(waiting) = {}
  /\ waiting' = None
  /\ UNCHANGED <<disk, mem, pending>>

Fill(d, v) ==
  /\ waiting = None
  /\ mem' = [mem EXCEPT ![d] = v]
  /\ UNCHANGED <<disk, pending, waiting>>

Next ==
  \/ \E q \in Request : Issue(q) \/ Land(q) \/ Fail(q)
  \/ \E f \in Frame : Wait(f)
  \/ Wake
  \/ \E d \in Buf, v \in Value : Fill(d, v)

Spec == Init /\ [][Next]_vars
=============================================================================
