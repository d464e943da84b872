------------------------------ MODULE AsyncIO ------------------------------
(***************************************************************************)
(* The asynchronous block I/O layer: src/src/async.c and src/src/block.c.  *)
(*                                                                         *)
(* The file system runs on the main reactor.  A block read or write is a   *)
(* heap-allocated request, sent as an event to another reactor, which      *)
(* submits it to the device and, when the device has finished, runs a      *)
(* completion callback that increments counts[reactor] of the request's    *)
(* future.  The caller increments expected_counts[reactor] when it issues  *)
(* the request, and spin_wait polls, one reactor after the other, until    *)
(* the two agree.                                                          *)
(*                                                                         *)
(* A future and the destination of a read are stack objects of the caller. *)
(* Frame is the set of stack addresses at which a future may live: an      *)
(* address is used again by a later call once its frame has returned, and  *)
(* a request keeps the address, not the incarnation.                       *)
(*                                                                         *)
(* A request is one device block here, whatever its nr, and the requests   *)
(* of one reactor are executed in any order: its events are queued in      *)
(* order, but the device may finish them in any order.                     *)
(***************************************************************************)
EXTENDS Integers, FiniteSets

CONSTANTS
  NumReactors,    \* NUM_REACTORS
  Request,        \* addresses of rw_request and r_request objects
  Frame,          \* stack addresses of struct future
  Block,          \* device block numbers
  Buf,            \* block-sized buffers of the calling thread
  Value,          \* contents of a block
  Zero,           \* the contents of a zeroed block
  Free,           \* "no object is allocated at this address"
  None,           \* "the main thread is not inside spin_wait"
  DeviceOutcome,  \* what submitting a request may lead to
  MaxOps,         \* bound: requests issued per reactor and future
  MaxAbandoned    \* bound: stack addresses at which head_tail_f is abandoned;
                  \* 0: no write fails with its reads under way

MAIN_REACTOR == 0
DATA_REACTOR == NumReactors - 1
Reactor   == 0 .. NumReactors - 1

\* The main reactor runs testfs_main, which returns when the program quits:
\* until then it polls neither for events nor for completions.
Polls(r) == r # MAIN_REACTOR

IOReactor == {r \in Reactor : Polls(r)}

Stage == {"queued", "submitted", "finished", "copied", "lost"}

RequestState ==
  [stage: Stage, op: {"read", "write"}, reactor: Reactor, fut: Frame,
   blk: Block, buf: Buf, val: Value]

ASSUME ConstantAssumption ==
  /\ NumReactors \in Nat \ {0, 1}
  /\ IsFiniteSet(Request)
  /\ Free \notin RequestState
  /\ Free \notin [op: {"read", "write"}, fut: Frame, blk: Block, buf: Buf, val: Value]
  /\ None \notin Frame
  /\ Zero \in Value
  /\ DeviceOutcome \subseteq {"ok", "error", "rejected"}
  /\ MaxOps \in Nat
  /\ MaxAbandoned \in Nat

VARIABLES
  disk,      \* the device
  mem,       \* the caller's buffers
  counts,    \* future.counts
  expected,  \* future.expected_counts
  req,       \* the allocated requests
  frame,     \* what the caller knows of each future, see FrameState
  waiting,   \* the future the main thread waits for, or None
  idx,       \* i of the loop in spin_wait
  abandoned  \* history: the futures a function returned from without waiting

vars == <<disk, mem, counts, expected, req, frame, waiting, idx, abandoned>>

(***************************************************************************)
(* "dead":    no call owns the address;                                    *)
(* "ready":   initialised, nothing issued since, or all of it waited for;  *)
(* "reading": only reads of the data reactor issued since the last wait,   *)
(*            as on head_tail_f;                                           *)
(* "issued":  other requests issued since the last wait;                   *)
(* "local":   the future of a read_blocks or write_blocks call.            *)
(***************************************************************************)
FrameState == {"dead", "ready", "reading", "issued", "local"}

InUse == {"ready", "reading", "issued"}

TypeOK ==
  /\ disk \in [Block -> Value]
  /\ mem \in [Buf -> Value]
  /\ counts \in [Frame -> [Reactor -> Nat]]
  /\ expected \in [Frame -> [Reactor -> Nat]]
  /\ req \in [Request -> RequestState \cup {Free}]
  /\ frame \in [Frame -> FrameState]
  /\ waiting \in Frame \cup {None}
  /\ idx \in 0 .. NumReactors
  /\ abandoned \subseteq Frame

Allocated == {q \in Request : req[q] # Free}
Outstanding(f, r) == {q \in Allocated : req[q].fut = f /\ req[q].reactor = r}
ReadInto(d) == {q \in Allocated : req[q].op = "read" /\ req[q].buf = d}

\* A buffer no read is under way into.  What an abandoned read fills is on the
\* stack, where the next calls find their buffers.
Usable(d) == abandoned # {} \/ ReadInto(d) = {}

Zeroes == [r \in Reactor |-> 0]

Init ==
  /\ disk = [b \in Block |-> Zero]
  /\ mem = [d \in Buf |-> Zero]
  /\ counts = [f \in Frame |-> Zeroes]
  /\ expected = [f \in Frame |-> Zeroes]
  /\ req = [q \in Request |-> Free]
  /\ frame = [f \in Frame |-> "dead"]
  /\ waiting = None
  /\ idx = 0
  /\ abandoned = {}

-----------------------------------------------------------------------------
(***************************************************************************)
(* The main thread.  It takes no step of these while it is in spin_wait.   *)
(***************************************************************************)

\* Mutated: the reactor recorded in the request is off by one.
NewRequestOffByOne(op, r, f, d, b) ==
  [stage |-> "queued", op |-> op, reactor |-> r + 1, fut |-> f,
   blk |-> b, buf |-> d, val |-> IF op = "write" THEN mem[d] ELSE Zero]

\* The request object that read_blocks_async and write_blocks_async fill in;
\* a write copies the caller's buffer, a read has its buffer zeroed.
NewRequest(op, r, f, d, b) ==
  [stage |-> "queued", op |-> op, reactor |-> r, fut |-> f,
   blk |-> b, buf |-> d, val |-> IF op = "write" THEN mem[d] ELSE Zero]

\* Mutated: future_init is forgotten, the counters of an earlier call remain.
ClearedCountsForgotten(c, f) == c

ClearedCounts(c, f) == [c EXCEPT ![f] = Zeroes]

FutureInit(f) ==
  /\ waiting = None
  /\ frame[f] = "dead"
  /\ frame' = [frame EXCEPT ![f] = "ready"]
  /\ counts' = ClearedCounts(counts, f)
  /\ expected' = ClearedCounts(expected, f)
  /\ UNCHANGED <<disk, mem, req, waiting, idx, abandoned>>

\* read_blocks_async and write_blocks_async on a future of the caller.  No
\* caller hands a buffer to a read while another read into it is under way,
\* or writes from a buffer that is being read into.
IssueAsync(q, op, r, f, d, b) ==
  /\ waiting = None
  /\ frame[f] \in InUse
  /\ req[q] = Free
  /\ Usable(d)
  /\ expected[f][r] < MaxOps
  /\ req' = [req EXCEPT ![q] = NewRequest(op, r, f, d, b)]
  /\ expected' = [expected EXCEPT ![f][r] = @ + 1]
  /\ frame' = [frame EXCEPT ![f] =
                 IF op = "read" /\ r = DATA_REACTOR /\ @ # "issued"
                 THEN "reading" ELSE "issued"]
  /\ UNCHANGED <<disk, mem, counts, waiting, idx, abandoned>>

\* read_blocks and write_blocks: a future of their own, one request on the
\* data reactor, and straight into spin_wait.
IssueAndWait(q, op, f, d, b) ==
  /\ waiting = None
  /\ frame[f] = "dead"
  /\ req[q] = Free
  /\ Usable(d)
  /\ frame' = [frame EXCEPT ![f] = "local"]
  /\ counts' = ClearedCounts(counts, f)
  /\ expected' = [expected EXCEPT ![f] = [Zeroes EXCEPT ![DATA_REACTOR] = 1]]
  /\ req' = [req EXCEPT ![q] = NewRequest(op, DATA_REACTOR, f, d, b)]
  /\ waiting' = f
  /\ idx' = 0
  /\ UNCHANGED <<disk, mem, abandoned>>

SpinWait(f) ==
  /\ waiting = None
  /\ frame[f] \in InUse
  /\ waiting' = f
  /\ idx' = 0
  /\ UNCHANGED <<disk, mem, counts, expected, req, frame, abandoned>>

\* Mutated: spin_wait looks at the data reactor only.
SpinStepDataOnly ==
  /\ waiting # None
  /\ idx < NumReactors
  /\ idx = DATA_REACTOR => counts[waiting][idx] = expected[waiting][idx]
  /\ idx' = idx + 1
  /\ UNCHANGED <<disk, mem, counts, expected, req, frame, waiting, abandoned>>

\* Mutated: the loop over the reactors goes round.
SpinStepRound ==
  /\ waiting # None
  /\ idx < NumReactors
  /\ counts[waiting][idx] = expected[waiting][idx]
  /\ idx' = (idx + 1) % NumReactors
  /\ UNCHANGED <<disk, mem, counts, expected, req, frame, waiting, abandoned>>

\* The inner loop of spin_wait sees the two counters agree.
SpinStep ==
  /\ waiting # None
  /\ idx < NumReactors
  /\ counts[waiting][idx] = expected[waiting][idx]
  /\ idx' = idx + 1
  /\ UNCHANGED <<disk, mem, counts, expected, req, frame, waiting, abandoned>>

SpinReturn ==
  /\ waiting # None
  /\ idx = NumReactors
  /\ frame' = [frame EXCEPT ![waiting] = IF @ = "local" THEN "dead" ELSE "ready"]
  /\ waiting' = None
  /\ idx' = 0
  /\ UNCHANGED <<disk, mem, counts, expected, req, abandoned>>

\* Mutated: any function returns without spin_wait.
ReturnUnwaited(f) ==
  /\ waiting = None
  /\ frame[f] \in InUse
  /\ frame' = [frame EXCEPT ![f] = "dead"]
  /\ abandoned' = IF frame[f] = "ready" THEN abandoned ELSE abandoned \cup {f}
  /\ UNCHANGED <<disk, mem, counts, expected, req, waiting, idx>>

\* The function that owns the future returns: everything was waited for, or,
\* through the RETURN_IF_NEG of the loop over the whole blocks, the reads of
\* the first and the last block were not.
Return(f) ==
  /\ waiting = None
  /\ \/ frame[f] = "ready" /\ UNCHANGED abandoned
     \/ /\ frame[f] = "reading"
        /\ abandoned' = abandoned \cup {f}
        /\ Cardinality(abandoned') <= MaxAbandoned
  /\ frame' = [frame EXCEPT ![f] = "dead"]
  /\ UNCHANGED <<disk, mem, counts, expected, req, waiting, idx>>

\* The caller fills a buffer of its own, perhaps one a write was issued from.
Store(d, v) ==
  /\ waiting = None
  /\ Usable(d)
  /\ mem' = [mem EXCEPT ![d] = v]
  /\ UNCHANGED <<disk, counts, expected, req, frame, waiting, idx, abandoned>>

-----------------------------------------------------------------------------
(***************************************************************************)
(* The reactors and the device.                                            *)
(***************************************************************************)

\* reactor_read and reactor_write ignore the return code: a request that was
\* not accepted is neither completed nor freed.
Submit(q) ==
  /\ req[q] # Free /\ req[q].stage = "queued"
  /\ Polls(req[q].reactor)
  /\ \/ req' = [req EXCEPT ![q].stage = "submitted"]
     \/ /\ "rejected" \in DeviceOutcome
        /\ req' = [req EXCEPT ![q].stage = "lost"]
  /\ UNCHANGED <<disk, mem, counts, expected, frame, waiting, idx, abandoned>>

\* The device moves the data.
DeviceExec(q) ==
  /\ req[q] # Free /\ req[q].stage = "submitted"
  /\ \/ /\ req[q].op = "write"
        /\ disk' = [disk EXCEPT ![req[q].blk] = req[q].val]
        /\ req' = [req EXCEPT ![q].stage = "finished"]
     \/ /\ req[q].op = "read"
        /\ req' = [req EXCEPT ![q] = [@ EXCEPT !.stage = "finished", !.val = disk[req[q].blk]]]
        /\ UNCHANGED disk
  /\ UNCHANGED <<mem, counts, expected, frame, waiting, idx, abandoned>>

\* The device reports success = false, which both callbacks ignore.
DeviceFail(q) ==
  /\ "error" \in DeviceOutcome
  /\ req[q] # Free /\ req[q].stage = "submitted"
  /\ req' = [req EXCEPT ![q].stage = "finished"]
  /\ UNCHANGED <<disk, mem, counts, expected, frame, waiting, idx, abandoned>>

\* reactor_read_complete, up to the barrier.
CopyOut(q) ==
  /\ req[q] # Free /\ req[q].op = "read" /\ req[q].stage = "finished"
  /\ mem' = [mem EXCEPT ![req[q].buf] = req[q].val]
  /\ req' = [req EXCEPT ![q].stage = "copied"]
  /\ UNCHANGED <<disk, counts, expected, frame, waiting, idx, abandoned>>

\* Mutated: a read is counted before its data is copied out.
CountStageEarly(op) == "finished"

\* The stage in which the callback of a read or a write increments counts.
CountStage(op) == IF op = "read" THEN "copied" ELSE "finished"

\* The end of both callbacks.  The count of a request of reactor r is counted
\* on r, in the future whose address the request holds.
CountUp(q) ==
  /\ req[q] # Free /\ req[q].stage = CountStage(req[q].op)
  /\ counts' = [counts EXCEPT ![req[q].fut][req[q].reactor] = @ + 1]
  /\ req' = [req EXCEPT ![q] = Free]
  /\ UNCHANGED <<disk, mem, expected, frame, waiting, idx, abandoned>>

-----------------------------------------------------------------------------
Issue(q) ==
  \E op \in {"read", "write"}, f \in Frame, d \in Buf, b \in Block :
    \/ \E r \in IOReactor : IssueAsync(q, op, r, f, d, b)
    \/ IssueAndWait(q, op, f, d, b)

Advance(q) == Submit(q) \/ DeviceExec(q) \/ DeviceFail(q) \/ CopyOut(q) \/ CountUp(q)

Next ==
  \/ \E f \in Frame : FutureInit(f) \/ SpinWait(f) \/ Return(f)
  \/ SpinStep
  \/ SpinReturn
  \/ \E d \in Buf, v \in Value : Store(d, v)
  \/ \E q \in Request : Issue(q) \/ Advance(q)

Spec == Init /\ [][Next]_vars

(***************************************************************************)
(* The reactors poll forever and the device answers every request it has   *)
(* accepted; spin_wait never yields.  Nothing makes the main thread call.  *)
(***************************************************************************)
Fairness ==
  /\ \A q \in Request : WF_vars(Advance(q))
  /\ WF_vars(SpinStep \/ SpinReturn)

FairSpec == Spec /\ Fairness

-----------------------------------------------------------------------------
(***************************************************************************)
(* Properties.                                                             *)
(***************************************************************************)

\* Nothing that a function did not wait for can count here: only a read of
\* the data reactor is ever abandoned, and only its address is used again.
Exact(f, r) == r = DATA_REACTOR => f \notin abandoned

\* The counters of a future in use account for every request that names it:
\* what spin_wait compares is exactly the number of requests under way, but on
\* the data reactor where a future was abandoned (inode_alternate_async.c:90).
CountsMatch ==
  \A f \in Frame : frame[f] # "dead" =>
    \A r \in Reactor : Exact(f, r) =>
      counts[f][r] + Cardinality(Outstanding(f, r)) = expected[f][r]

\* When spin_wait is about to return, no request issued on the future, on any
\* reactor, is still under way (inode_alternate.h:21, block.c:106-114,131-139),
\* with the same exception.
WaitComplete ==
  waiting # None /\ idx = NumReactors =>
    \A r \in Reactor : Exact(waiting, r) => Outstanding(waiting, r) = {}

\* The damage of the return at inode_alternate_async.c:90 stays where it is:
\* however late the abandoned reads are, and whatever wait they end too early
\* at an address used again, a callback that outlives its future writes to an
\* abandoned one and is the data reactor's.  No metadata write ever does.
OnlyAbandonedDangle ==
  \A q \in Allocated : frame[req[q].fut] = "dead" =>
    req[q].reactor = DATA_REACTOR /\ req[q].fut \in abandoned

\* spin_wait returns.
EveryWaitReturns == \A f \in Frame : (waiting = f) ~> (waiting = None)

-----------------------------------------------------------------------------
(***************************************************************************)
(* Refinement: a request has taken effect for the abstract store once the  *)
(* device has finished it, a read then shows in its buffer.                *)
(***************************************************************************)
Landed(q) == req[q].stage \in {"finished", "copied"}

absPending ==
  [q \in Request |->
     IF req[q] = Free \/ Landed(q) THEN Free
     ELSE [op |-> req[q].op, fut |-> req[q].fut, blk |-> req[q].blk,
           buf |-> req[q].buf,
           val |-> req[q].val]]

absMem ==
  [d \in Buf |->
     LET done == {q \in ReadInto(d) : req[q].stage = "finished"}
     IN  IF done = {} THEN mem[d] ELSE req[CHOOSE q \in done : TRUE].val]

Store_ == INSTANCE FutureStore WITH mem <- absMem, pending <- absPending

\* The layer is a FutureStore for as long as no function has returned from a
\* future it never waited for: every request takes effect once, as a whole, or
\* fails, between its issue and the end of the wait on its future.
ImplementsFutureStore ==
  Store_!Init /\ [][abandoned = {} => Store_!Next]_(Store_!vars)
=============================================================================
