--------------------------- MODULE AsyncIOProofs ---------------------------
(***************************************************************************)
(* The counters of a future are enough: theorems about AsyncIO for any     *)
(* number of reactors, requests, futures, blocks and buffers, whatever     *)
(* the device answers.                                                     *)
(***************************************************************************)
EXTENDS AsyncIO, FiniteSetTheorems, TLAPS

LEMMA ReactorFacts ==
  /\ NumReactors \in Nat /\ NumReactors > 1
  /\ DATA_REACTOR \in Reactor
  /\ Reactor \subseteq Nat
  /\ IOReactor \subseteq Reactor
  /\ Zeroes \in [Reactor -> Nat]
  /\ \A r \in Reactor : Zeroes[r] = 0
BY ConstantAssumption DEF DATA_REACTOR, Reactor, IOReactor, Zeroes

-----------------------------------------------------------------------------
(***************************************************************************)
(* Type correctness.                                                       *)
(***************************************************************************)

LEMMA NewRequestType ==
  ASSUME TypeOK, NEW op \in {"read", "write"}, NEW r \in Reactor,
         NEW f \in Frame, NEW d \in Buf, NEW b \in Block
  PROVE  NewRequest(op, r, f, d, b) \in RequestState
BY ConstantAssumption DEF TypeOK, NewRequest, RequestState, Stage

LEMMA AllocatedType ==
  ASSUME TypeOK, NEW q \in Request, req[q] # Free
  PROVE  req[q] \in RequestState
BY DEF TypeOK

LEMMA StageType ==
  ASSUME TypeOK, NEW q \in Request, req[q] # Free, NEW s \in Stage,
         req' = [req EXCEPT ![q].stage = s]
  PROVE  req' \in [Request -> RequestState \cup {Free}]
<1>1. [req[q] EXCEPT !.stage = s] \in RequestState
  BY AllocatedType DEF RequestState
<1> QED
  BY <1>1 DEF TypeOK

LEMMA ClearedType ==
  ASSUME NEW c \in [Frame -> [Reactor -> Nat]], NEW f \in Frame
  PROVE  ClearedCounts(c, f) \in [Frame -> [Reactor -> Nat]]
BY ReactorFacts DEF ClearedCounts

LEMMA TypeInit == Init => TypeOK
BY ConstantAssumption, ReactorFacts
   DEF Init, TypeOK, FrameState

LEMMA TypeStep == TypeOK /\ [Next]_vars => TypeOK'
<1> SUFFICES ASSUME TypeOK, [Next]_vars PROVE TypeOK'
  OBVIOUS
<1>1. ASSUME NEW f \in Frame, FutureInit(f) PROVE TypeOK'
  BY <1>1, ClearedType DEF FutureInit, TypeOK, FrameState
<1>2. ASSUME NEW f \in Frame, SpinWait(f) PROVE TypeOK'
  BY <1>2, ReactorFacts DEF SpinWait, TypeOK
<1>3. ASSUME NEW f \in Frame, Return(f) PROVE TypeOK'
  BY <1>3 DEF Return, TypeOK, FrameState
<1>4. CASE SpinStep
  BY <1>4, ReactorFacts DEF SpinStep, TypeOK
<1>5. CASE SpinReturn
  BY <1>5, ReactorFacts DEF SpinReturn, TypeOK, FrameState
<1>6. ASSUME NEW d \in Buf, NEW v \in Value, Store(d, v) PROVE TypeOK'
  BY <1>6 DEF Store, TypeOK
<1>7. ASSUME NEW q \in Request, Issue(q) PROVE TypeOK'
  <2>1. PICK op \in {"read", "write"}, f \in Frame, d \in Buf, b \in Block :
          \/ \E r \in IOReactor : IssueAsync(q, op, r, f, d, b)
          \/ IssueAndWait(q, op, f, d, b)
    BY <1>7 DEF Issue
  <2>2. ASSUME NEW r \in IOReactor, IssueAsync(q, op, r, f, d, b) PROVE TypeOK'
    <3>1. r \in Reactor /\ NewRequest(op, r, f, d, b) \in RequestState
      BY ReactorFacts, NewRequestType
    <3>2. expected[f][r] + 1 \in Nat
      BY <3>1 DEF TypeOK
    <3>3. expected' \in [Frame -> [Reactor -> Nat]]
      BY <2>2, <3>1, <3>2 DEF IssueAsync, TypeOK
    <3> QED
      BY <2>2, <3>1, <3>3 DEF IssueAsync, TypeOK, FrameState
  <2>3. CASE IssueAndWait(q, op, f, d, b)
    <3>1. NewRequest(op, DATA_REACTOR, f, d, b) \in RequestState
      BY ReactorFacts, NewRequestType
    <3>2. [Zeroes EXCEPT ![DATA_REACTOR] = 1] \in [Reactor -> Nat]
      BY ReactorFacts
    <3>3. counts' \in [Frame -> [Reactor -> Nat]]
      BY <2>3, ClearedType DEF IssueAndWait, TypeOK
    <3>4. expected' \in [Frame -> [Reactor -> Nat]]
      BY <2>3, <3>2 DEF IssueAndWait, TypeOK
    <3>5. req' \in [Request -> RequestState \cup {Free}]
      BY <2>3, <3>1 DEF IssueAndWait, TypeOK
    <3>6. frame' \in [Frame -> FrameState]
      BY <2>3 DEF IssueAndWait, TypeOK, FrameState
    <3>7. idx' \in 0 .. NumReactors /\ waiting' \in Frame \cup {None}
      BY <2>3, ReactorFacts DEF IssueAndWait
    <3> QED
      BY <2>3, <3>3, <3>4, <3>5, <3>6, <3>7 DEF IssueAndWait, TypeOK
  <2> QED
    BY <2>1, <2>2, <2>3
<1>8. ASSUME NEW q \in Request, Submit(q) \/ DeviceFail(q) PROVE TypeOK'
  <2>1. PICK s \in Stage : req' = [req EXCEPT ![q].stage = s]
    BY <1>8 DEF Submit, DeviceFail, Stage
  <2>2. req[q] # Free
    BY <1>8 DEF Submit, DeviceFail
  <2>3. req' \in [Request -> RequestState \cup {Free}]
    BY <2>1, <2>2, StageType
  <2> QED
    BY <1>8, <2>3 DEF Submit, DeviceFail, TypeOK
<1>9. ASSUME NEW q \in Request, DeviceExec(q) PROVE TypeOK'
  <2>1. req[q] \in RequestState /\ req[q].blk \in Block /\ req[q].val \in Value
    BY <1>9, AllocatedType DEF DeviceExec, RequestState
  <2>2. disk' \in [Block -> Value]
    BY <1>9, <2>1 DEF DeviceExec, TypeOK
  <2>3. disk[req[q].blk] \in Value
    BY <2>1 DEF TypeOK
  <2>4. req' \in [Request -> RequestState \cup {Free}]
    <3>1. CASE req' = [req EXCEPT ![q].stage = "finished"]
      BY <1>9, <3>1, StageType DEF DeviceExec, Stage
    <3>2. CASE req' = [req EXCEPT ![q] = [@ EXCEPT !.stage = "finished", !.val = disk[req[q].blk]]]
      <4>1. [req[q] EXCEPT !.stage = "finished", !.val = disk[req[q].blk]] \in RequestState
        BY <2>1, <2>3 DEF RequestState, Stage
      <4> QED
        BY <3>2, <4>1 DEF TypeOK
    <3> QED
      BY <1>9, <3>1, <3>2 DEF DeviceExec
  <2> QED
    BY <1>9, <2>2, <2>4 DEF DeviceExec, TypeOK
<1>10. ASSUME NEW q \in Request, CopyOut(q) PROVE TypeOK'
  <2>1. req[q] \in RequestState
    BY <1>10, AllocatedType DEF CopyOut
  <2>2. req' \in [Request -> RequestState \cup {Free}]
    BY <1>10, StageType DEF CopyOut, Stage
  <2>3. mem' \in [Buf -> Value]
    BY <1>10, <2>1 DEF CopyOut, TypeOK, RequestState
  <2> QED
    BY <1>10, <2>2, <2>3 DEF CopyOut, TypeOK
<1>11. ASSUME NEW q \in Request, CountUp(q) PROVE TypeOK'
  <2>1. req[q].fut \in Frame /\ req[q].reactor \in Reactor
    BY <1>11, AllocatedType DEF CountUp, RequestState
  <2>2. counts[req[q].fut][req[q].reactor] + 1 \in Nat
    BY <2>1 DEF TypeOK
  <2>3. counts' \in [Frame -> [Reactor -> Nat]]
    BY <1>11, <2>1, <2>2 DEF CountUp, TypeOK
  <2> QED
    BY <1>11, <2>3 DEF CountUp, TypeOK
<1>12. CASE UNCHANGED vars
  BY <1>12 DEF vars, TypeOK
<1> QED
  BY <1>1, <1>2, <1>3, <1>4, <1>5, <1>6, <1>7, <1>8, <1>9, <1>10, <1>11, <1>12
     DEF Next, Advance

\* Every variable keeps its type: a counter never leaves Nat, a request never
\* names a reactor, future, block or buffer that does not exist.
THEOREM TypeCorrect == Spec => []TypeOK
BY TypeInit, TypeStep, PTL DEF Spec

-----------------------------------------------------------------------------
(***************************************************************************)
(* The inductive invariant.  WaitComplete speaks of the end of spin_wait   *)
(* only; it is inductive together with what the loop has established for   *)
(* the reactors it has passed (nobody issues requests meanwhile), with the *)
(* agreement of the counters, and with the fact that the only futures with *)
(* requests under way are those in use since they were last waited for: a  *)
(* future that is initialised again starts from zero, which is right only  *)
(* if no old request will count in it.  All of it is said of the exact     *)
(* pairs of a future and a reactor only: of every reactor for a future     *)
(* that was never abandoned, and of every reactor but the data reactor for *)
(* one that was, which needs that what is abandoned is "reading".          *)
(***************************************************************************)
PendingOn(st, r) ==
  st \in {"issued", "local"} \/ (st = "reading" /\ r = DATA_REACTOR)

PendingFrames ==
  \A q \in Allocated :
    Exact(req[q].fut, req[q].reactor) => PendingOn(frame[req[q].fut], req[q].reactor)

SpinProgress ==
  waiting # None =>
    /\ frame[waiting] # "dead"
    /\ \A r \in Reactor : Exact(waiting, r) /\ r < idx => Outstanding(waiting, r) = {}

NothingLeft == MaxAbandoned = 0 => abandoned = {}

IInv == TypeOK /\ CountsMatch /\ PendingFrames /\ SpinProgress /\ NothingLeft

LEMMA OutstandingFinite ==
  ASSUME NEW f, NEW r
  PROVE  IsFiniteSet(Outstanding(f, r)) /\ Cardinality(Outstanding(f, r)) \in Nat
BY ConstantAssumption, FS_Subset, FS_CardinalityType DEF Outstanding, Allocated

\* What a new request does to the sets of requests under way.
LEMMA OutstandingIssued ==
  ASSUME TypeOK, NEW q \in Request, req[q] = Free, NEW x \in RequestState,
         req' = [req EXCEPT ![q] = x]
  PROVE  \A g \in Frame, s \in Reactor :
           /\ q \notin Outstanding(g, s)
           /\ Outstanding(g, s)' = IF x.fut = g /\ x.reactor = s
                                   THEN Outstanding(g, s) \cup {q}
                                   ELSE Outstanding(g, s)
<1>1. /\ req'[q] = x /\ x # Free
      /\ \A p \in Request \ {q} : req'[p] = req[p]
  BY ConstantAssumption DEF TypeOK
<1> QED
  BY <1>1 DEF Outstanding, Allocated

\* What a request that moves on does to them: nothing.
LEMMA OutstandingMoved ==
  ASSUME TypeOK, NEW q \in Request, req[q] # Free, NEW x \in RequestState,
         req' = [req EXCEPT ![q] = x],
         x.fut = req[q].fut, x.reactor = req[q].reactor
  PROVE  \A g \in Frame, s \in Reactor : Outstanding(g, s)' = Outstanding(g, s)
<1>1. /\ req'[q] = x /\ x # Free
      /\ \A p \in Request \ {q} : req'[p] = req[p]
  BY ConstantAssumption DEF TypeOK
<1> QED
  BY <1>1 DEF Outstanding, Allocated

\* A future that is not in use has no request under way, and one with reads of
\* the data reactor only has none on the others.
LEMMA IdleFrame ==
  ASSUME PendingFrames, NEW f \in Frame, frame[f] \in {"dead", "ready", "reading"}
  PROVE  \A r \in Reactor :
           Exact(f, r) /\ (frame[f] = "reading" => r # DATA_REACTOR) => Outstanding(f, r) = {}
BY DEF PendingFrames, PendingOn, Outstanding

-----------------------------------------------------------------------------
(***************************************************************************)
(* The three conjuncts, for the three kinds of step that touch them.       *)
(***************************************************************************)

\* A step that changes neither requests nor counters, and leaves the futures
\* alone or takes out of use one that has no request under way, or abandons it.
LEMMA QuietStep ==
  ASSUME IInv, UNCHANGED <<req, counts, expected>>, abandoned \subseteq abandoned',
         \A f \in Frame : frame'[f] # "dead" => frame[f] # "dead",
         \A f \in Frame :
           \/ frame'[f] = frame[f]
           \/ \A r \in Reactor :
                (r = DATA_REACTOR => f \notin abandoned') => Outstanding(f, r) = {}
  PROVE  CountsMatch' /\ PendingFrames'
<1>1. \A f \in Frame, r \in Reactor :
        /\ Outstanding(f, r)' = Outstanding(f, r)
        /\ (r = DATA_REACTOR => f \notin abandoned') => Exact(f, r)
  BY DEF Outstanding, Allocated, Exact
<1>2. CountsMatch'
  BY <1>1 DEF IInv, CountsMatch, Exact
<1>3. ASSUME NEW q \in Allocated', Exact(req[q].fut, req[q].reactor)'
      PROVE  PendingOn(frame[req[q].fut], req[q].reactor)'
  <2>1. q \in Request /\ q \in Allocated /\ req'[q] = req[q] /\ req[q] # Free
    BY <1>3 DEF Allocated
  <2>2. req[q].fut \in Frame /\ req[q].reactor \in Reactor
    BY <2>1, AllocatedType DEF IInv, RequestState
  <2>3. q \in Outstanding(req[q].fut, req[q].reactor)
    BY <2>1 DEF Outstanding
  <2>4. /\ Exact(req[q].fut, req[q].reactor)
        /\ req[q].reactor = DATA_REACTOR => req[q].fut \notin abandoned'
    BY <1>3, <2>1 DEF Exact
  <2>5. frame'[req[q].fut] = frame[req[q].fut]
    BY <2>2, <2>3, <2>4
  <2> QED
    BY <2>1, <2>4, <2>5 DEF IInv, PendingFrames, PendingOn
<1> QED
  BY <1>2, <1>3 DEF PendingFrames

\* A request that moves on, without being counted.
LEMMA MovedStep ==
  ASSUME IInv, NEW q \in Request, req[q] # Free, NEW x \in RequestState,
         req' = [req EXCEPT ![q] = x],
         x.fut = req[q].fut, x.reactor = req[q].reactor,
         UNCHANGED <<counts, expected, frame, waiting, idx, abandoned>>
  PROVE  CountsMatch' /\ PendingFrames' /\ SpinProgress'
<1>1. \A g \in Frame, s \in Reactor : Outstanding(g, s)' = Outstanding(g, s)
  BY OutstandingMoved DEF IInv
<1>2. CountsMatch'
  BY <1>1 DEF IInv, CountsMatch, Exact
<1>3. \A p \in Request :
        p \in Allocated' => /\ p \in Allocated /\ req'[p].fut = req[p].fut
                           /\ req'[p].reactor = req[p].reactor
  BY DEF IInv, TypeOK, Allocated
<1>4. PendingFrames'
  BY <1>3 DEF IInv, PendingFrames, Allocated, Exact
<1>5. waiting # None => waiting \in Frame
  BY DEF IInv, TypeOK
<1>6. SpinProgress'
  BY <1>1, <1>5 DEF IInv, SpinProgress, Exact
<1> QED
  BY <1>2, <1>4, <1>6

\* A request that is counted and freed.
LEMMA CountedStep ==
  ASSUME IInv, NEW q \in Request, CountUp(q)
  PROVE  CountsMatch' /\ PendingFrames' /\ SpinProgress'
<1>1. /\ req[q] # Free
      /\ req' = [req EXCEPT ![q] = Free]
      /\ UNCHANGED <<expected, frame, waiting, idx, abandoned>>
  BY DEF CountUp
<1>2. PICK g \in Frame, s \in Reactor :
        /\ req[q].fut = g /\ req[q].reactor = s
        /\ counts' = [counts EXCEPT ![g][s] = @ + 1]
  BY <1>1, AllocatedType DEF CountUp, IInv, RequestState
<1>3. /\ Outstanding(g, s)' = Outstanding(g, s) \ {q}
      /\ q \in Outstanding(g, s)
      /\ \A h \in Frame, t \in Reactor :
           <<h, t>> # <<g, s>> => Outstanding(h, t)' = Outstanding(h, t)
  <2>1. req'[q] = Free /\ \A p \in Request \ {q} : req'[p] = req[p]
    BY <1>1 DEF IInv, TypeOK
  <2>2. ASSUME NEW h, NEW t
        PROVE  Outstanding(h, t)' = Outstanding(h, t) \ {q}
    BY <2>1 DEF Outstanding, Allocated
  <2>3. \A h \in Frame, t \in Reactor :
          <<h, t>> # <<g, s>> => q \notin Outstanding(h, t)
    BY <1>2 DEF Outstanding
  <2>4. q \in Outstanding(g, s)
    BY <1>1, <1>2 DEF Outstanding, Allocated
  <2> QED
    BY <2>2, <2>3, <2>4
<1>4. /\ Cardinality(Outstanding(g, s)') = Cardinality(Outstanding(g, s)) - 1
      /\ Cardinality(Outstanding(g, s)) \in Nat
  BY <1>3, OutstandingFinite, FS_RemoveElement
<1>5. /\ counts[g][s] \in Nat /\ counts'[g][s] = counts[g][s] + 1
      /\ \A h \in Frame, t \in Reactor :
           <<h, t>> # <<g, s>> => counts'[h][t] = counts[h][t]
  BY <1>1, <1>2 DEF IInv, TypeOK
<1>6. CountsMatch'
  <2>1. SUFFICES ASSUME NEW h \in Frame, frame[h] # "dead", NEW t \in Reactor, Exact(h, t)
                 PROVE  counts'[h][t] + Cardinality(Outstanding(h, t)') = expected[h][t]
    BY <1>1 DEF CountsMatch, Exact
  <2>2. counts[h][t] + Cardinality(Outstanding(h, t)) = expected[h][t]
    BY <2>1 DEF IInv, CountsMatch
  <2>3. CASE <<h, t>> = <<g, s>>
    BY <2>2, <2>3, <1>4, <1>5
  <2>4. CASE <<h, t>> # <<g, s>>
    BY <2>2, <2>4, <1>3, <1>5
  <2> QED
    BY <2>3, <2>4
<1>7. \A p \in Request : p \in Allocated' => p \in Allocated /\ req'[p] = req[p]
  BY <1>1 DEF IInv, TypeOK, Allocated
<1>8. PendingFrames'
  BY <1>1, <1>7 DEF IInv, PendingFrames, Allocated, Exact
<1>9. \A h \in Frame, t \in Reactor : Outstanding(h, t)' \subseteq Outstanding(h, t)
  BY <1>3
<1>10. waiting # None => waiting \in Frame
  BY DEF IInv, TypeOK
<1>11. SpinProgress'
  <2>1. SUFFICES ASSUME waiting # None
                 PROVE  \A t \in Reactor :
                          Exact(waiting, t) /\ t < idx => Outstanding(waiting, t)' = {}
    BY <1>1, <1>10 DEF IInv, SpinProgress, Exact
  <2> QED
    BY <2>1, <1>1, <1>9, <1>10 DEF IInv, SpinProgress
<1> QED
  BY <1>6, <1>8, <1>11

\* A request issued on a future of the caller.
LEMMA IssuedStep ==
  ASSUME IInv, NEW q \in Request, NEW op \in {"read", "write"},
         NEW r \in IOReactor, NEW f \in Frame, NEW d \in Buf, NEW b \in Block,
         IssueAsync(q, op, r, f, d, b)
  PROVE  CountsMatch' /\ PendingFrames' /\ SpinProgress'
<1>1. r \in Reactor /\ TypeOK
  BY ReactorFacts DEF IInv
<1>2. \A g \in Frame, s \in Reactor :
        /\ q \notin Outstanding(g, s)
        /\ Outstanding(g, s)' = IF g = f /\ s = r THEN Outstanding(g, s) \cup {q}
                                                ELSE Outstanding(g, s)
  <2>1. PICK x \in RequestState : x = NewRequest(op, r, f, d, b)
    BY <1>1, NewRequestType
  <2>2. x.fut = f /\ x.reactor = r /\ req[q] = Free /\ req' = [req EXCEPT ![q] = x]
    BY <2>1 DEF IssueAsync, NewRequest
  <2>3. \A g \in Frame, s \in Reactor :
          /\ q \notin Outstanding(g, s)
          /\ Outstanding(g, s)' = IF x.fut = g /\ x.reactor = s
                                  THEN Outstanding(g, s) \cup {q}
                                  ELSE Outstanding(g, s)
    BY <1>1, <2>2, OutstandingIssued
  <2> QED
    BY <2>2, <2>3
<1>3. /\ Cardinality(Outstanding(f, r)') = Cardinality(Outstanding(f, r)) + 1
      /\ Cardinality(Outstanding(f, r)) \in Nat
  <2>1. Outstanding(f, r)' = Outstanding(f, r) \cup {q} /\ q \notin Outstanding(f, r)
    BY <1>1, <1>2
  <2> QED
    BY <2>1, OutstandingFinite, FS_AddElement
<1>4. /\ expected[f][r] \in Nat /\ expected'[f][r] = expected[f][r] + 1
      /\ \A g \in Frame, s \in Reactor :
           <<g, s>> # <<f, r>> => expected'[g][s] = expected[g][s]
  BY <1>1 DEF IssueAsync, TypeOK
<1>5. \A g \in Frame : frame'[g] # "dead" => frame[g] # "dead"
  BY <1>1 DEF IssueAsync, TypeOK, InUse
<1>6. CountsMatch'
  <2>1. SUFFICES ASSUME NEW g \in Frame, frame[g] # "dead", NEW s \in Reactor, Exact(g, s)
                 PROVE  counts[g][s] + Cardinality(Outstanding(g, s)') = expected'[g][s]
    BY <1>5 DEF CountsMatch, IssueAsync, Exact
  <2>2. /\ counts[g][s] + Cardinality(Outstanding(g, s)) = expected[g][s]
        /\ counts[g][s] \in Nat
    BY <1>1, <2>1 DEF IInv, CountsMatch, TypeOK
  <2>3. CASE <<g, s>> = <<f, r>>
    BY <2>2, <2>3, <1>3, <1>4
  <2>4. CASE <<g, s>> # <<f, r>>
    BY <2>2, <2>4, <1>2, <1>4
  <2> QED
    BY <2>3, <2>4
<1>7. /\ \A g \in Frame \ {f} : frame'[g] = frame[g]
      /\ frame[f] \in InUse /\ abandoned' = abandoned
      /\ frame'[f] = IF op = "read" /\ r = DATA_REACTOR /\ frame[f] # "issued"
                     THEN "reading" ELSE "issued"
  BY <1>1 DEF IssueAsync, TypeOK
<1>8. PendingFrames'
  <2>1. SUFFICES ASSUME NEW p \in Allocated', Exact(req[p].fut, req[p].reactor)'
                 PROVE  PendingOn(frame[req[p].fut], req[p].reactor)'
    BY DEF PendingFrames
  <2>2. CASE p = q
    <3>1. req'[p].fut = f /\ req'[p].reactor = r
      BY <2>2, <1>1 DEF IssueAsync, NewRequest, TypeOK
    <3> QED
      BY <3>1, <1>7 DEF PendingOn
  <2>3. CASE p # q
    <3>1. p \in Allocated /\ req'[p] = req[p]
      BY <2>1, <2>3, <1>1 DEF IssueAsync, Allocated, TypeOK
    <3>2. req[p].fut \in Frame
      BY <3>1, <1>1, AllocatedType DEF Allocated, RequestState
    <3>3. PendingOn(frame[req[p].fut], req[p].reactor)
      BY <1>7, <2>1, <3>1 DEF IInv, PendingFrames, Exact
    <3>4. CASE req[p].fut = f
      BY <1>7, <3>1, <3>3, <3>4 DEF PendingOn, InUse
    <3>5. CASE req[p].fut # f
      BY <1>7, <3>1, <3>2, <3>3, <3>5 DEF PendingOn
    <3> QED
      BY <3>4, <3>5
  <2> QED
    BY <2>2, <2>3
<1>9. SpinProgress'
  BY DEF IssueAsync, SpinProgress
<1> QED
  BY <1>6, <1>8, <1>9

\* A read_blocks or write_blocks call: its future was not in use, so the zeroed
\* counters are right, and the request is the only one.
LEMMA CalledStep ==
  ASSUME IInv, NEW q \in Request, NEW op \in {"read", "write"},
         NEW f \in Frame, NEW d \in Buf, NEW b \in Block,
         IssueAndWait(q, op, f, d, b)
  PROVE  CountsMatch' /\ PendingFrames' /\ SpinProgress'
<1>1. DATA_REACTOR \in Reactor /\ TypeOK
  BY ReactorFacts DEF IInv
<1>2. \A g \in Frame, s \in Reactor :
        Outstanding(g, s)' = IF g = f /\ s = DATA_REACTOR
                             THEN Outstanding(g, s) \cup {q} ELSE Outstanding(g, s)
  <2>1. PICK x \in RequestState : x = NewRequest(op, DATA_REACTOR, f, d, b)
    BY <1>1, NewRequestType
  <2>2. x.fut = f /\ x.reactor = DATA_REACTOR /\ req[q] = Free /\ req' = [req EXCEPT ![q] = x]
    BY <2>1 DEF IssueAndWait, NewRequest
  <2>3. \A g \in Frame, s \in Reactor :
          /\ q \notin Outstanding(g, s)
          /\ Outstanding(g, s)' = IF x.fut = g /\ x.reactor = s
                                  THEN Outstanding(g, s) \cup {q}
                                  ELSE Outstanding(g, s)
    BY <1>1, <2>2, OutstandingIssued
  <2> QED
    BY <2>2, <2>3
<1>3. \A s \in Reactor : Exact(f, s) => Outstanding(f, s) = {}
  BY IdleFrame DEF IInv, IssueAndWait
<1>4. /\ \A s \in Reactor : counts'[f][s] = 0
      /\ \A s \in Reactor : expected'[f][s] = IF s = DATA_REACTOR THEN 1 ELSE 0
      /\ \A g \in Frame \ {f}, s \in Reactor :
           counts'[g][s] = counts[g][s] /\ expected'[g][s] = expected[g][s]
      /\ frame'[f] = "local" /\ \A g \in Frame \ {f} : frame'[g] = frame[g]
      /\ abandoned' = abandoned
  BY <1>1, ReactorFacts DEF IssueAndWait, ClearedCounts, TypeOK
<1>5. CountsMatch'
  <2>1. SUFFICES ASSUME NEW g \in Frame, frame'[g] # "dead", NEW s \in Reactor, Exact(g, s)
                 PROVE  counts'[g][s] + Cardinality(Outstanding(g, s)') = expected'[g][s]
    BY <1>4 DEF CountsMatch, Exact
  <2>2. CASE g = f /\ s = DATA_REACTOR
    <3>1. Outstanding(g, s)' = {q}
      BY <2>1, <2>2, <1>1, <1>2, <1>3
    <3>2. Cardinality({q}) = 1
      BY FS_Singleton
    <3> QED
      BY <2>2, <3>1, <3>2, <1>1, <1>4
  <2>3. CASE g = f /\ s # DATA_REACTOR
    <3>1. Outstanding(g, s)' = {}
      BY <2>1, <2>3, <1>2, <1>3
    <3> QED
      BY <2>3, <3>1, <1>4, FS_EmptySet
  <2>4. CASE g # f
    BY <2>1, <2>4, <1>2, <1>4 DEF IInv, CountsMatch
  <2> QED
    BY <2>2, <2>3, <2>4
<1>6. PendingFrames'
  <2>1. SUFFICES ASSUME NEW p \in Allocated', Exact(req[p].fut, req[p].reactor)'
                 PROVE  PendingOn(frame[req[p].fut], req[p].reactor)'
    BY DEF PendingFrames
  <2>2. CASE p = q
    <3>1. req'[p].fut = f
      BY <2>2, <1>1 DEF IssueAndWait, NewRequest, TypeOK
    <3> QED
      BY <3>1, <1>4 DEF PendingOn
  <2>3. CASE p # q
    <3>1. p \in Allocated /\ req'[p] = req[p]
      BY <2>1, <2>3, <1>1 DEF IssueAndWait, Allocated, TypeOK
    <3>2. req[p].fut \in Frame
      BY <3>1, <1>1, AllocatedType DEF Allocated, RequestState
    <3>3. PendingOn(frame[req[p].fut], req[p].reactor)
      BY <1>4, <2>1, <3>1 DEF IInv, PendingFrames, Exact
    <3>4. CASE req[p].fut = f
      BY <1>4, <3>1, <3>4 DEF PendingOn, IInv, PendingFrames, Exact, IssueAndWait
    <3>5. CASE req[p].fut # f
      BY <1>4, <3>1, <3>2, <3>3, <3>5 DEF PendingOn
    <3> QED
      BY <3>4, <3>5
  <2> QED
    BY <2>2, <2>3
<1>7. SpinProgress'
  BY <1>4, ReactorFacts DEF IssueAndWait, SpinProgress, Reactor
<1> QED
  BY <1>5, <1>6, <1>7

\* One iteration of the loop in spin_wait: the counters of reactor idx agree,
\* so no request of that reactor is under way.
LEMMA SpinStepProgress ==
  ASSUME IInv, SpinStep
  PROVE  SpinProgress'
<1>1. /\ waiting \in Frame /\ idx \in Reactor /\ frame[waiting] # "dead"
      /\ idx \in Nat
      /\ \A r \in Reactor : Exact(waiting, r) /\ r < idx => Outstanding(waiting, r) = {}
  BY ReactorFacts DEF IInv, TypeOK, SpinStep, SpinProgress, Reactor
<1>2. /\ Exact(waiting, idx) =>
           counts[waiting][idx] + Cardinality(Outstanding(waiting, idx)) = expected[waiting][idx]
      /\ counts[waiting][idx] = expected[waiting][idx]
      /\ counts[waiting][idx] \in Nat
  BY <1>1 DEF IInv, CountsMatch, SpinStep, TypeOK
<1>3. Exact(waiting, idx) => Cardinality(Outstanding(waiting, idx)) = 0
  BY <1>2, OutstandingFinite
<1>4. Exact(waiting, idx) => Outstanding(waiting, idx) = {}
  BY <1>3, OutstandingFinite, FS_EmptySet
<1>5. \A r \in Reactor :
        Exact(waiting, r) /\ r < idx + 1 => Outstanding(waiting, r) = {}
  BY <1>1, <1>4, ReactorFacts
<1>6. /\ UNCHANGED <<req, frame, waiting, abandoned>> /\ idx' = idx + 1
  BY DEF SpinStep
<1>7. \A f, r : Outstanding(f, r)' = Outstanding(f, r)
  BY <1>6 DEF Outstanding, Allocated
<1> QED
  BY <1>1, <1>5, <1>6, <1>7 DEF SpinProgress, Exact

-----------------------------------------------------------------------------
(***************************************************************************)
(* The invariant.                                                          *)
(***************************************************************************)

LEMMA InvInit == Init => IInv
<1> SUFFICES ASSUME Init PROVE IInv
  OBVIOUS
<1>1. TypeOK
  BY TypeInit
<1>2. Allocated = {}
  BY DEF Init, Allocated
<1> QED
  BY <1>1, <1>2 DEF Init, IInv, CountsMatch, PendingFrames, SpinProgress, NothingLeft

\* Only a function that returns abandons a future.
LEMMA AbandonedKept ==
  ASSUME [Next]_vars
  PROVE  UNCHANGED abandoned \/ \E f \in Frame : Return(f)
<1>1. ASSUME NEW q \in Request, Issue(q) PROVE UNCHANGED abandoned
  BY <1>1 DEF Issue, IssueAsync, IssueAndWait
<1>2. ASSUME NEW q \in Request, Advance(q) PROVE UNCHANGED abandoned
  BY <1>2 DEF Advance, Submit, DeviceExec, DeviceFail, CopyOut, CountUp
<1> QED
  BY <1>1, <1>2 DEF Next, vars, FutureInit, SpinWait, SpinStep, SpinReturn, Store

\* Where the bound lets nothing be abandoned, nothing is.
LEMMA NothingLeftStep == NothingLeft /\ [Next]_vars => NothingLeft'
<1> SUFFICES ASSUME NothingLeft, [Next]_vars, MaxAbandoned = 0 PROVE abandoned' = {}
  BY DEF NothingLeft
<1>1. abandoned = {}
  BY DEF NothingLeft
<1>2. ASSUME NEW f \in Frame, Return(f) PROVE abandoned' = {}
  <2>1. CASE UNCHANGED abandoned
    BY <1>1, <2>1
  <2>2. CASE abandoned' = abandoned \cup {f} /\ Cardinality(abandoned') <= MaxAbandoned
    <3>1. abandoned' = {f}
      BY <1>1, <2>2
    <3>2. Cardinality({f}) = 1
      BY FS_Singleton
    <3> QED
      BY <2>2, <3>1, <3>2
  <2> QED
    BY <1>2, <2>1, <2>2 DEF Return
<1>3. CASE UNCHANGED abandoned
  BY <1>1, <1>3
<1> QED
  BY <1>2, <1>3, AbandonedKept

LEMMA InvStep == IInv /\ [Next]_vars => IInv'
<1> SUFFICES ASSUME IInv, [Next]_vars PROVE IInv'
  OBVIOUS
<1>1. TypeOK /\ TypeOK'
  BY TypeStep DEF IInv
<1> SUFFICES CountsMatch' /\ PendingFrames' /\ SpinProgress'
  BY <1>1, NothingLeftStep DEF IInv
<1>2. ASSUME NEW f \in Frame, FutureInit(f)
      PROVE  CountsMatch' /\ PendingFrames' /\ SpinProgress'
  <2>1. \A r \in Reactor : Exact(f, r) => Outstanding(f, r) = {}
    BY <1>2, IdleFrame DEF IInv, FutureInit
  <2>2. /\ \A r \in Reactor : counts'[f][r] = 0 /\ expected'[f][r] = 0
        /\ \A g \in Frame \ {f} :
             /\ counts'[g] = counts[g] /\ expected'[g] = expected[g]
             /\ frame'[g] = frame[g]
        /\ UNCHANGED <<req, waiting, idx, abandoned>>
    BY <1>1, <1>2, ReactorFacts DEF FutureInit, ClearedCounts, TypeOK
  <2>3. \A g, r : Outstanding(g, r)' = Outstanding(g, r)
    BY <2>2 DEF Outstanding, Allocated
  <2>4. CountsMatch'
    <3>1. SUFFICES ASSUME NEW g \in Frame, frame'[g] # "dead", NEW r \in Reactor, Exact(g, r)
                   PROVE  counts'[g][r] + Cardinality(Outstanding(g, r)) = expected'[g][r]
      BY <2>2, <2>3 DEF CountsMatch, Exact
    <3>2. CASE g = f
      BY <3>1, <3>2, <2>1, <2>2, FS_EmptySet
    <3>3. CASE g # f
      BY <3>1, <3>3, <2>2 DEF IInv, CountsMatch
    <3> QED
      BY <3>2, <3>3
  <2>5. ASSUME NEW q \in Allocated', Exact(req[q].fut, req[q].reactor)'
        PROVE  PendingOn(frame[req[q].fut], req[q].reactor)'
    <3>1. q \in Allocated /\ q \in Request /\ req'[q] = req[q]
      BY <2>2, <2>5 DEF Allocated
    <3>2. req[q].fut \in Frame /\ PendingOn(frame[req[q].fut], req[q].reactor)
      BY <2>2, <2>5, <3>1, <1>1, AllocatedType
         DEF IInv, PendingFrames, Allocated, RequestState, Exact
    <3>3. req[q].fut # f
      BY <1>2, <3>2 DEF FutureInit, PendingOn
    <3> QED
      BY <3>1, <3>2, <3>3, <2>2 DEF PendingOn
  <2> QED
    BY <1>2, <2>4, <2>5 DEF IInv, PendingFrames, SpinProgress, FutureInit, Exact
<1>3. ASSUME NEW f \in Frame, SpinWait(f)
      PROVE  CountsMatch' /\ PendingFrames' /\ SpinProgress'
  <2>1. CountsMatch' /\ PendingFrames'
    BY <1>3, QuietStep DEF SpinWait
  <2>2. SpinProgress'
    BY <1>3, ReactorFacts DEF SpinWait, SpinProgress, Reactor, InUse
  <2> QED
    BY <2>1, <2>2
<1>4. ASSUME NEW f \in Frame, Return(f)
      PROVE  CountsMatch' /\ PendingFrames' /\ SpinProgress'
  <2>1. \A r \in Reactor :
          (r = DATA_REACTOR => f \notin abandoned') => Outstanding(f, r) = {}
    <3>1. CASE frame[f] = "ready" /\ UNCHANGED abandoned
      BY <3>1, IdleFrame DEF IInv, Exact
    <3>2. CASE frame[f] = "reading" /\ abandoned' = abandoned \cup {f}
      BY <3>2, IdleFrame DEF IInv, Exact
    <3> QED
      BY <1>4, <3>1, <3>2 DEF Return
  <2>2. \A g \in Frame : g # f => frame'[g] = frame[g]
    BY <1>1, <1>4 DEF Return, TypeOK
  <2>3. frame[f] # "dead"
    BY <1>4 DEF Return
  <2>4. CountsMatch' /\ PendingFrames'
    BY <1>4, <2>1, <2>2, <2>3, QuietStep DEF Return
  <2>5. SpinProgress'
    BY <1>4 DEF Return, SpinProgress
  <2> QED
    BY <2>4, <2>5
<1>5. CASE SpinStep
  <2>1. CountsMatch' /\ PendingFrames'
    BY <1>5, QuietStep DEF SpinStep
  <2> QED
    BY <1>5, <2>1, SpinStepProgress
<1>6. CASE SpinReturn
  <2>1. waiting \in Frame /\ frame[waiting] # "dead"
    BY <1>1, <1>6 DEF SpinReturn, TypeOK, IInv, SpinProgress
  <2>2. \A r \in Reactor :
          (r = DATA_REACTOR => waiting \notin abandoned') => Outstanding(waiting, r) = {}
    BY <1>6, ReactorFacts DEF SpinReturn, IInv, SpinProgress, Reactor, Exact
  <2>3. \A g \in Frame : g # waiting => frame'[g] = frame[g]
    BY <1>1, <1>6 DEF SpinReturn, TypeOK
  <2>4. CountsMatch' /\ PendingFrames'
    BY <1>6, <2>1, <2>2, <2>3, QuietStep DEF SpinReturn
  <2> QED
    BY <1>6, <2>4 DEF SpinReturn, SpinProgress
<1>7. ASSUME NEW d \in Buf, NEW v \in Value, Store(d, v)
      PROVE  CountsMatch' /\ PendingFrames' /\ SpinProgress'
  <2>1. CountsMatch' /\ PendingFrames'
    BY <1>7, QuietStep DEF Store
  <2> QED
    BY <1>7, <2>1 DEF Store, SpinProgress
<1>8. ASSUME NEW q \in Request, Issue(q)
      PROVE  CountsMatch' /\ PendingFrames' /\ SpinProgress'
  BY <1>8, IssuedStep, CalledStep DEF Issue
<1>9. ASSUME NEW q \in Request, NEW s \in Stage, req[q] # Free,
             req' = [req EXCEPT ![q].stage = s],
             UNCHANGED <<counts, expected, frame, waiting, idx, abandoned>>
      PROVE  CountsMatch' /\ PendingFrames' /\ SpinProgress'
  <2>1. PICK x \in RequestState : x = [req[q] EXCEPT !.stage = s]
    BY <1>1, <1>9, AllocatedType DEF RequestState
  <2>2. /\ x.fut = req[q].fut /\ x.reactor = req[q].reactor
        /\ req' = [req EXCEPT ![q] = x]
    BY <1>1, <1>9, <2>1, AllocatedType DEF RequestState
  <2> QED
    BY <1>9, <2>2, MovedStep
<1>10. ASSUME NEW q \in Request, Submit(q) \/ DeviceFail(q) \/ CopyOut(q)
       PROVE  CountsMatch' /\ PendingFrames' /\ SpinProgress'
  BY <1>9, <1>10 DEF Submit, DeviceFail, CopyOut, Stage
<1>11. ASSUME NEW q \in Request, DeviceExec(q)
       PROVE  CountsMatch' /\ PendingFrames' /\ SpinProgress'
  <2>1. CASE req[q].op = "write"
    BY <1>9, <1>11, <2>1 DEF DeviceExec, Stage
  <2>2. CASE req[q].op = "read"
    <3>1. req[q] \in RequestState /\ disk[req[q].blk] \in Value
      BY <1>1, <1>11, AllocatedType DEF DeviceExec, RequestState, TypeOK
    <3>2. PICK x \in RequestState :
            x = [req[q] EXCEPT !.stage = "finished", !.val = disk[req[q].blk]]
      BY <3>1 DEF RequestState, Stage
    <3>3. x.fut = req[q].fut /\ x.reactor = req[q].reactor
      BY <3>1, <3>2 DEF RequestState
    <3>4. /\ req[q] # Free
          /\ req' = [req EXCEPT ![q] = x]
          /\ UNCHANGED <<counts, expected, frame, waiting, idx, abandoned>>
      BY <1>11, <2>2, <3>2 DEF DeviceExec
    <3> QED
      BY <3>3, <3>4, MovedStep
  <2> QED
    BY <1>11, <2>1, <2>2 DEF DeviceExec
<1>12. ASSUME NEW q \in Request, CountUp(q)
       PROVE  CountsMatch' /\ PendingFrames' /\ SpinProgress'
  BY <1>12, CountedStep
<1>13. CASE UNCHANGED vars
  <2>1. CountsMatch' /\ PendingFrames'
    BY <1>13, QuietStep DEF vars
  <2>2. \A f, r : Outstanding(f, r)' = Outstanding(f, r)
    BY <1>13 DEF vars, Outstanding, Allocated
  <2> QED
    BY <1>13, <2>1, <2>2 DEF vars, IInv, SpinProgress, Exact
<1> QED
  BY <1>2, <1>3, <1>4, <1>5, <1>6, <1>7, <1>8, <1>10, <1>11, <1>12, <1>13
     DEF Next, Advance

LEMMA Invariance == Spec => []IInv
BY InvInit, InvStep, PTL DEF Spec

LEMMA WaitCompleteInv == IInv => WaitComplete
BY ReactorFacts DEF IInv, SpinProgress, WaitComplete, Reactor

\* spin_wait is about to return only when nothing issued on the future is under
\* way: on any reactor if the future's address was never abandoned, and on any
\* but the data reactor if it was.
THEOREM WaitIsComplete == Spec => []WaitComplete
BY Invariance, WaitCompleteInv, PTL

\* With the same exception, the counters of every future in use account exactly
\* for its requests under way.
THEOREM CountersAgree == Spec => []CountsMatch
<1>1. IInv => CountsMatch
  BY DEF IInv
<1> QED
  BY <1>1, Invariance, PTL

\* Functions do return with reads under way, at inode_alternate_async.c:90; but
\* a callback that outlives its future is the data reactor's, and writes to an
\* address that was abandoned there.
THEOREM DamageIsConfined == Spec => []OnlyAbandonedDangle
<1>1. IInv => OnlyAbandonedDangle
  <2> SUFFICES ASSUME IInv, NEW q \in Allocated, frame[req[q].fut] = "dead"
               PROVE  req[q].reactor = DATA_REACTOR /\ req[q].fut \in abandoned
    BY DEF OnlyAbandonedDangle
  <2>1. ~ PendingOn(frame[req[q].fut], req[q].reactor)
    BY DEF PendingOn
  <2> QED
    BY <2>1 DEF IInv, PendingFrames, Exact
<1> QED
  BY <1>1, Invariance, PTL

-----------------------------------------------------------------------------
(***************************************************************************)
(* The asynchronous layer implements FutureStore: the refinement that      *)
(* async_safety checks, for any number of reactors, requests, futures,     *)
(* blocks and buffers, whatever the device answers.                        *)
(***************************************************************************)

IsRead(q) == req[q] # Free /\ req[q].op = "read"

\* The callers give no buffer to two reads, and a read that the device has not
\* answered has its own buffer zeroed.
OneReader ==
  \A p, q \in Request : IsRead(p) /\ IsRead(q) /\ req[p].buf = req[q].buf => p = q

EmptyReads ==
  \A q \in Request :
    IsRead(q) /\ req[q].stage \in {"queued", "submitted", "lost"} => req[q].val = Zero

RInv == IInv /\ (abandoned = {} => OneReader /\ EmptyReads)

\* q is a read into d whose data is in the request and not in d yet.
Shows(q, d) == IsRead(q) /\ req[q].buf = d /\ req[q].stage = "finished"

ShownMem ==
  \A d \in Buf :
    /\ \A q \in Request : Shows(q, d) => absMem[d] = req[q].val
    /\ (\A q \in Request : ~ Shows(q, d)) => absMem[d] = mem[d]

LEMMA ShownMemIs == OneReader => ShownMem
<1> SUFFICES ASSUME OneReader, NEW d \in Buf
             PROVE  /\ \A q \in Request : Shows(q, d) => absMem[d] = req[q].val
                    /\ (\A q \in Request : ~ Shows(q, d)) => absMem[d] = mem[d]
  BY DEF ShownMem
<1> DEFINE done == {q \in ReadInto(d) : req[q].stage = "finished"}
<1>1. absMem[d] = IF done = {} THEN mem[d] ELSE req[CHOOSE q \in done : TRUE].val
  BY DEF absMem
<1>2. \A q : q \in done <=> q \in Request /\ Shows(q, d)
  BY DEF ReadInto, Allocated, Shows, IsRead
<1>3. ASSUME NEW q \in Request, Shows(q, d) PROVE absMem[d] = req[q].val
  <2>1. (CHOOSE x \in done : TRUE) \in done
    BY <1>2, <1>3
  <2>2. (CHOOSE x \in done : TRUE) = q
    BY <1>2, <1>3, <2>1 DEF OneReader, Shows
  <2> QED
    BY <1>1, <1>2, <1>3, <2>2
<1> QED
  BY <1>1, <1>2, <1>3

LEMMA ShownMemNext == OneReader' => ShownMem'
BY ShownMemIs, PTL

-----------------------------------------------------------------------------
(***************************************************************************)
(* The invariant.                                                          *)
(***************************************************************************)

LEMMA ReadsInit == Init => OneReader /\ EmptyReads
BY DEF Init, OneReader, EmptyReads, IsRead

\* A new request: no read into its buffer is under way.
LEMMA ReadsIssued ==
  ASSUME TypeOK, OneReader, EmptyReads,
         NEW q \in Request, req[q] = Free,
         NEW op \in {"read", "write"}, NEW r \in Reactor, NEW f \in Frame,
         NEW d \in Buf, NEW b \in Block, ReadInto(d) = {},
         req' = [req EXCEPT ![q] = NewRequest(op, r, f, d, b)]
  PROVE  OneReader' /\ EmptyReads'
<1>1. /\ req'[q] = NewRequest(op, r, f, d, b)
      /\ \A p \in Request \ {q} : req'[p] = req[p]
  BY DEF TypeOK
<1>2. \A p \in Request : IsRead(p) => req[p].buf # d
  BY DEF IsRead, ReadInto, Allocated
<1>3. req'[q].buf = d /\ (req'[q].op = "read" => req'[q].val = Zero)
  BY <1>1 DEF NewRequest
<1>4. OneReader'
  BY <1>1, <1>2, <1>3 DEF OneReader, IsRead
<1>5. EmptyReads'
  BY <1>1, <1>3 DEF EmptyReads, IsRead
<1> QED
  BY <1>4, <1>5

\* A request that moves on, or is freed.
LEMMA ReadsMoved ==
  ASSUME TypeOK, OneReader, EmptyReads, NEW q \in Request, req[q] # Free,
         \A p \in Request \ {q} : req'[p] = req[p],
         req'[q] # Free =>
           /\ req'[q].op = req[q].op /\ req'[q].buf = req[q].buf
           /\ \/ req'[q].stage \notin {"queued", "submitted", "lost"}
              \/ /\ req'[q].val = req[q].val
                 /\ req[q].stage \in {"queued", "submitted", "lost"}
  PROVE  OneReader' /\ EmptyReads'
<1>1. OneReader'
  BY DEF OneReader, IsRead
<1>2. EmptyReads'
  BY DEF EmptyReads, IsRead
<1> QED
  BY <1>1, <1>2

\* What the steps of the reactors and of the device make of a request.
LEMMA Moves ==
  ASSUME TypeOK, NEW q \in Request, Advance(q)
  PROVE  /\ req[q] # Free /\ req[q] \in RequestState
         /\ \A p \in Request \ {q} : req'[p] = req[p]
         /\ Submit(q) => /\ req'[q] \in {[req[q] EXCEPT !.stage = "submitted"],
                                          [req[q] EXCEPT !.stage = "lost"]}
                         /\ req[q].stage = "queued"
         /\ DeviceFail(q) => /\ req'[q] = [req[q] EXCEPT !.stage = "finished"]
                             /\ req[q].stage = "submitted"
         /\ CopyOut(q) => req'[q] = [req[q] EXCEPT !.stage = "copied"]
         /\ CountUp(q) => req'[q] = Free
         /\ DeviceExec(q) =>
              /\ req[q].stage = "submitted"
              /\ req[q].op = "write" => req'[q] = [req[q] EXCEPT !.stage = "finished"]
              /\ req[q].op = "read" => req'[q] = [req[q] EXCEPT !.stage = "finished",
                                                                !.val = disk[req[q].blk]]
<1>1. req[q] # Free
  BY DEF Advance, Submit, DeviceExec, DeviceFail, CopyOut, CountUp
<1>2. req[q] \in RequestState
  BY <1>1, AllocatedType
<1> QED
  BY <1>1, <1>2 DEF TypeOK, Advance, Submit, DeviceExec, DeviceFail, CopyOut, CountUp

\* A request that moves on is the same request, at another stage; only a read
\* that the device has done has other data.
LEMMA MovedFields ==
  ASSUME TypeOK, NEW q \in Request,
         Submit(q) \/ DeviceExec(q) \/ DeviceFail(q) \/ CopyOut(q)
  PROVE  /\ req'[q] \in RequestState /\ req'[q] # Free
         /\ req'[q].op = req[q].op /\ req'[q].fut = req[q].fut
         /\ req'[q].blk = req[q].blk /\ req'[q].buf = req[q].buf
         /\ Submit(q) => req'[q].stage \in {"submitted", "lost"}
         /\ DeviceExec(q) \/ DeviceFail(q) => req'[q].stage = "finished"
         /\ CopyOut(q) => req'[q].stage = "copied"
         /\ DeviceExec(q) /\ req[q].op = "read" => req'[q].val = disk[req[q].blk]
         /\ DeviceExec(q) /\ req[q].op = "write" => req'[q].val = req[q].val
         /\ Submit(q) \/ DeviceFail(q) \/ CopyOut(q) => req'[q].val = req[q].val
<1>1. PICK x \in RequestState : x = req[q]
  BY Moves DEF Advance
<1>2. ASSUME NEW st \in Stage, NEW y, y = [x EXCEPT !.stage = st]
      PROVE  /\ y \in RequestState /\ y.stage = st /\ y.op = x.op /\ y.fut = x.fut
             /\ y.blk = x.blk /\ y.buf = x.buf /\ y.val = x.val
  BY <1>2 DEF RequestState
<1>3. ASSUME NEW v \in Value, NEW y, y = [x EXCEPT !.stage = "finished", !.val = v]
      PROVE  /\ y \in RequestState /\ y.stage = "finished" /\ y.op = x.op /\ y.fut = x.fut
             /\ y.blk = x.blk /\ y.buf = x.buf /\ y.val = v
  BY <1>3 DEF RequestState, Stage
<1>4. {"submitted", "lost", "finished", "copied"} \subseteq Stage
  BY DEF Stage
<1>5. x.op \in {"read", "write"} /\ disk[x.blk] \in Value
  BY DEF RequestState, TypeOK
<1>6. \A y \in RequestState : y # Free
  BY ConstantAssumption
<1>7. CASE Submit(q)
  <2>1. \/ req'[q] = [x EXCEPT !.stage = "submitted"]
        \/ req'[q] = [x EXCEPT !.stage = "lost"]
    BY <1>1, <1>7, Moves DEF Advance
  <2>2. ~DeviceExec(q) /\ ~DeviceFail(q) /\ ~CopyOut(q)
    BY <1>7 DEF Submit, DeviceExec, DeviceFail, CopyOut
  <2> QED
    BY <1>1, <1>2, <1>4, <1>6, <2>1, <2>2
<1>8. CASE DeviceFail(q)
  <2>1. req'[q] = [x EXCEPT !.stage = "finished"]
    BY <1>1, <1>8, Moves DEF Advance
  <2>2. ~Submit(q) /\ ~CopyOut(q)
    BY <1>8 DEF Submit, DeviceFail, CopyOut
  <2>3. DeviceExec(q) /\ x.op = "read" => x.val = disk[x.blk]
    <3> SUFFICES ASSUME DeviceExec(q), x.op = "read" PROVE x.val = disk[x.blk]
      OBVIOUS
    <3>1. req'[q] = [x EXCEPT !.stage = "finished", !.val = disk[x.blk]]
      BY <1>1, Moves DEF Advance
    <3>2. PICK v \in Value : v = disk[x.blk]
      BY <1>5
    <3>3. req'[q].val = v
      BY <1>3, <3>1, <3>2
    <3> QED
      BY <1>2, <1>4, <2>1, <3>2, <3>3
  <2> QED
    BY <1>1, <1>2, <1>4, <1>6, <1>8, <2>1, <2>2, <2>3
<1>9. CASE CopyOut(q)
  <2>1. req'[q] = [x EXCEPT !.stage = "copied"]
    BY <1>1, <1>9, Moves DEF Advance
  <2>2. ~Submit(q) /\ ~DeviceExec(q) /\ ~DeviceFail(q)
    BY <1>9 DEF Submit, DeviceExec, DeviceFail, CopyOut
  <2> QED
    BY <1>1, <1>2, <1>4, <1>6, <2>1, <2>2
<1>10. CASE DeviceExec(q) /\ ~DeviceFail(q)
  <2>1. /\ x.op = "write" => req'[q] = [x EXCEPT !.stage = "finished"]
        /\ x.op = "read" => req'[q] = [x EXCEPT !.stage = "finished", !.val = disk[x.blk]]
    BY <1>1, <1>10, Moves DEF Advance
  <2>2. ~Submit(q) /\ ~CopyOut(q)
    BY <1>10 DEF Submit, DeviceExec, CopyOut
  <2>3. CASE x.op = "write"
    BY <1>1, <1>2, <1>4, <1>6, <1>10, <2>1, <2>2, <2>3
  <2>4. CASE x.op = "read"
    <3>1. PICK v \in Value : v = disk[x.blk]
      BY <1>5
    <3>2. req'[q] = [x EXCEPT !.stage = "finished", !.val = v]
      BY <2>1, <2>4, <3>1
    <3> DEFINE y == [x EXCEPT !.stage = "finished", !.val = v]
    <3>3. /\ y \in RequestState /\ y.stage = "finished" /\ y.op = x.op
          /\ y.fut = x.fut /\ y.blk = x.blk /\ y.buf = x.buf /\ y.val = v
      BY <1>3
    <3> HIDE DEF y
    <3>4. /\ req'[q] \in RequestState /\ req'[q].stage = "finished" /\ req'[q].op = x.op
          /\ req'[q].fut = x.fut /\ req'[q].blk = x.blk /\ req'[q].buf = x.buf
          /\ req'[q].val = v
      BY <3>2, <3>3 DEF y
    <3>5. req'[q] # Free
      BY <1>6, <3>4
    <3> QED
      BY <1>1, <1>10, <2>2, <2>4, <3>1, <3>4, <3>5
  <2> QED
    BY <1>5, <2>3, <2>4
<1> QED
  BY <1>7, <1>8, <1>9, <1>10

LEMMA ReadsStep ==
  TypeOK /\ OneReader /\ EmptyReads /\ abandoned = {} /\ [Next]_vars => OneReader' /\ EmptyReads'
<1> SUFFICES ASSUME TypeOK, OneReader, EmptyReads, abandoned = {}, [Next]_vars
             PROVE  OneReader' /\ EmptyReads'
  OBVIOUS
<1>1. CASE req' = req
  BY <1>1 DEF OneReader, EmptyReads, IsRead
<1>2. ASSUME NEW q \in Request, Issue(q) PROVE OneReader' /\ EmptyReads'
  BY <1>2, ReadsIssued, ReactorFacts DEF Issue, IssueAsync, IssueAndWait, Usable
<1>3. ASSUME NEW q \in Request, Advance(q) PROVE OneReader' /\ EmptyReads'
  <2>1. /\ req[q] # Free /\ req[q] \in RequestState
        /\ \A p \in Request \ {q} : req'[p] = req[p]
    BY <1>3, Moves
  <2>2. CASE Submit(q)
    <3>1. /\ req'[q].op = req[q].op /\ req'[q].buf = req[q].buf /\ req'[q].val = req[q].val
          /\ req[q].stage = "queued"
      <4>1. ~DeviceExec(q) /\ req[q].stage = "queued"
        BY <2>2 DEF Submit, DeviceExec
      <4> QED
        BY <2>2, <4>1, MovedFields
    <3> QED
      BY <2>1, <3>1, ReadsMoved
  <2>3. CASE DeviceFail(q) \/ CopyOut(q)
    <3>1. /\ req'[q].op = req[q].op /\ req'[q].buf = req[q].buf
          /\ req'[q].stage \in {"finished", "copied"}
      BY <2>3, MovedFields
    <3> QED
      BY <2>1, <3>1, ReadsMoved
  <2>4. CASE DeviceExec(q)
    <3>1. /\ req'[q].op = req[q].op /\ req'[q].buf = req[q].buf
          /\ req'[q].stage = "finished"
      BY <2>4, MovedFields
    <3> QED
      BY <2>1, <3>1, ReadsMoved
  <2>5. CASE CountUp(q)
    BY <1>3, <2>1, <2>5, Moves, ReadsMoved
  <2> QED
    BY <1>3, <2>2, <2>3, <2>4, <2>5 DEF Advance
<1> QED
  BY <1>1, <1>2, <1>3
     DEF Next, FutureInit, SpinWait, Return, SpinStep, SpinReturn, Store, vars

\* What was abandoned stays so.
LEMMA AbandonedStays == [Next]_vars => abandoned \subseteq abandoned'
BY AbandonedKept DEF Return

LEMMA ReadInvariance == Spec => []RInv
<1>1. Init => RInv
  BY InvInit, ReadsInit DEF RInv
<1>2. RInv /\ [Next]_vars => RInv'
  <2> SUFFICES ASSUME RInv, [Next]_vars PROVE RInv'
    OBVIOUS
  <2>1. IInv'
    BY InvStep DEF RInv
  <2>2. ASSUME abandoned' = {} PROVE OneReader' /\ EmptyReads'
    <3>1. abandoned = {}
      BY <2>2, AbandonedStays
    <3> QED
      BY <3>1, ReadsStep DEF RInv, IInv
  <2> QED
    BY <2>1, <2>2 DEF RInv
<1> QED
  BY <1>1, <1>2, PTL DEF Spec

-----------------------------------------------------------------------------
(***************************************************************************)
(* The refinement mapping.                                                 *)
(***************************************************************************)

InStore(q) == req[q] # Free /\ ~ Landed(q)

AbsRequest(q) ==
  [op |-> req[q].op, fut |-> req[q].fut, blk |-> req[q].blk,
   buf |-> req[q].buf, val |-> req[q].val]

LEMMA AbsPendingIs ==
  \A q \in Request : absPending[q] = IF InStore(q) THEN AbsRequest(q) ELSE Free
BY DEF absPending, InStore, AbsRequest

LEMMA AbsPendingNext ==
  \A q \in Request : absPending'[q] = IF InStore(q)' THEN AbsRequest(q)' ELSE Free
BY DEF absPending, InStore, AbsRequest

\* What the store is to see of a request that nothing happens to.
LEMMA AbsPendingKept ==
  ASSUME NEW p \in Request, req'[p] = req[p]
  PROVE  absPending'[p] = absPending[p]
<1>1. InStore(p)' <=> InStore(p)
  BY DEF InStore, Landed
<1>2. AbsRequest(p)' = AbsRequest(p)
  BY DEF AbsRequest
<1> QED
  BY <1>1, <1>2, AbsPendingIs, AbsPendingNext

LEMMA AbsFunctions ==
  /\ absPending = [q \in Request |-> absPending[q]]
  /\ absPending' = [q \in Request |-> absPending'[q]]
  /\ absMem = [d \in Buf |-> absMem[d]]
  /\ absMem' = [d \in Buf |-> absMem'[d]]
BY DEF absPending, absMem

\* Buffers look the same when neither they nor what is shown in them changes.
LEMMA AbsMemKept ==
  ASSUME OneReader, OneReader', NEW d \in Buf, mem'[d] = mem[d],
         \A q \in Request : Shows(q, d)' <=> Shows(q, d),
         \A q \in Request : Shows(q, d) => req'[q].val = req[q].val
  PROVE  absMem'[d] = absMem[d]
<1>1. ShownMem /\ ShownMem'
  BY ShownMemIs, ShownMemNext
<1>2. CASE \E q \in Request : Shows(q, d)
  <2>1. PICK q \in Request : Shows(q, d)
    BY <1>2
  <2>2. absMem[d] = req[q].val
    BY <1>1, <2>1 DEF ShownMem
  <2>3. absMem'[d] = req'[q].val
    BY <1>1, <2>1 DEF ShownMem
  <2> QED
    BY <2>1, <2>2, <2>3
<1>3. CASE \A q \in Request : ~ Shows(q, d)
  <2>1. absMem[d] = mem[d]
    BY <1>1, <1>3 DEF ShownMem
  <2>2. absMem'[d] = mem'[d]
    BY <1>1, <1>3 DEF ShownMem
  <2> QED
    BY <2>1, <2>2
<1> QED
  BY <1>2, <1>3

LEMMA RefineInit == Init => Store_!Init
<1> SUFFICES ASSUME Init PROVE Store_!Init
  OBVIOUS
<1>1. absPending = [q \in Request |-> Free]
  BY DEF Init, absPending
<1>2. \A d \in Buf : absMem[d] = Zero
  <2> SUFFICES ASSUME NEW d \in Buf PROVE absMem[d] = Zero
    OBVIOUS
  <2>1. ShownMem
    BY ShownMemIs, ReadsInit
  <2> QED
    BY <2>1 DEF ShownMem, Shows, IsRead, Init
<1>3. absMem = [d \in Buf |-> Zero]
  BY <1>2, AbsFunctions
<1> QED
  BY <1>1, <1>3 DEF Init, Store_!Init

\* A step that leaves the requests and the buffers alone.
LEMMA RefineIdle ==
  ASSUME UNCHANGED <<req, mem>>
  PROVE  absPending' = absPending /\ absMem' = absMem
<1>1. absPending' = absPending
  BY DEF absPending, Landed
<1>2. absMem' = absMem
  BY DEF absMem, ReadInto, Allocated
<1> QED
  BY <1>1, <1>2

\* A buffer no read into which is under way is what the caller sees.
LEMMA UnreadBuffer ==
  ASSUME NEW d \in Buf, ReadInto(d) = {}
  PROVE  absMem[d] = mem[d] /\ \A q \in Request : ~ Shows(q, d)
<1>1. absMem[d] = mem[d]
  BY DEF absMem
<1>2. \A q \in Request : ~ Shows(q, d)
  BY DEF Shows, IsRead, ReadInto, Allocated
<1> QED
  BY <1>1, <1>2

LEMMA RefineIssue ==
  ASSUME TypeOK, OneReader, OneReader',
         NEW q \in Request, req[q] = Free,
         NEW op \in {"read", "write"}, NEW r \in Reactor, NEW f \in Frame,
         NEW d \in Buf, NEW b \in Block, ReadInto(d) = {},
         req' = [req EXCEPT ![q] = NewRequest(op, r, f, d, b)],
         waiting = None, waiting' \in {None, f}, UNCHANGED <<disk, mem>>
  PROVE  Store_!Issue(q)
<1>1. /\ req'[q] = NewRequest(op, r, f, d, b) /\ req'[q] # Free
      /\ \A p \in Request \ {q} : req'[p] = req[p]
  BY NewRequestType, ConstantAssumption DEF TypeOK
<1>2. absMem' = absMem
  <2>1. ASSUME NEW c \in Buf PROVE absMem'[c] = absMem[c]
    <3>1. \A p \in Request : Shows(p, c)' <=> Shows(p, c)
      BY <1>1 DEF Shows, IsRead, NewRequest
    <3>2. \A p \in Request : Shows(p, c) => req'[p].val = req[p].val
      BY <1>1 DEF Shows, IsRead
    <3> QED
      BY <3>1, <3>2, AbsMemKept
  <2> QED
    BY <2>1, AbsFunctions
<1>3. absPending[q] = Free
  BY AbsPendingIs DEF InStore
<1>4. absPending'[q] = [op |-> op, fut |-> f, blk |-> b, buf |-> d,
                        val |-> IF op = "write" THEN absMem[d] ELSE Zero]
  <2>1. InStore(q)'
    BY <1>1 DEF InStore, Landed, NewRequest
  <2>2. absMem[d] = mem[d]
    BY UnreadBuffer
  <2> QED
    BY <1>1, <2>1, <2>2, AbsPendingNext DEF AbsRequest, NewRequest
<1>5. \A p \in Request \ {q} : absPending'[p] = absPending[p]
  BY <1>1, AbsPendingKept
<1>6. absPending' = [absPending EXCEPT ![q] =
                       [op |-> op, fut |-> f, blk |-> b, buf |-> d,
                        val |-> IF op = "write" THEN absMem[d] ELSE Zero]]
  BY <1>4, <1>5, AbsFunctions
<1> QED
  BY <1>2, <1>3, <1>6 DEF Store_!Issue, Store_!Pend

\* A request the device has answered: it leaves the store.
LEMMA RefineAnswered ==
  ASSUME TypeOK, TypeOK', NEW q \in Request, req[q] # Free, req[q] \in RequestState,
         req[q].stage = "submitted",
         \A p \in Request \ {q} : req'[p] = req[p], req'[q].stage = "finished"
  PROVE  /\ absPending[q] = AbsRequest(q) /\ absPending[q] # Free
         /\ absPending' = [absPending EXCEPT ![q] = Free]
<1>1. absPending[q] = AbsRequest(q)
  BY AbsPendingIs DEF InStore, Landed
<1>0. absPending[q] # Free
  BY <1>1, ConstantAssumption DEF AbsRequest, RequestState
<1>2. absPending'[q] = Free
  BY AbsPendingNext DEF InStore, Landed
<1>3. \A p \in Request \ {q} : absPending'[p] = absPending[p]
  BY AbsPendingKept
<1> QED
  BY <1>0, <1>1, <1>2, <1>3, AbsFunctions

LEMMA RefineExec ==
  ASSUME TypeOK, TypeOK', OneReader, OneReader', NEW q \in Request, DeviceExec(q)
  PROVE  Store_!Land(q)
<1>1. /\ req[q] # Free /\ req[q] \in RequestState /\ req[q].stage = "submitted"
      /\ \A p \in Request \ {q} : req'[p] = req[p]
  BY Moves DEF Advance
<1>2. /\ UNCHANGED <<mem, waiting>> /\ req[q].op \in {"read", "write"}
      /\ req'[q].stage = "finished" /\ req'[q].buf = req[q].buf
      /\ req'[q].op = req[q].op /\ req[q].buf \in Buf /\ req'[q] # Free
      /\ req[q].op = "write" => req'[q].val = req[q].val
      /\ req[q].op = "read" => req'[q].val = disk[req[q].blk]
  BY <1>1, MovedFields DEF DeviceExec, RequestState
<1>3. /\ absPending[q] = AbsRequest(q) /\ absPending[q] # Free
      /\ absPending' = [absPending EXCEPT ![q] = Free]
  BY <1>1, <1>2, RefineAnswered
<1>4. CASE req[q].op = "write"
  <2>1. disk' = [disk EXCEPT ![req[q].blk] = req[q].val]
    BY <1>4 DEF DeviceExec
  <2>2. ASSUME NEW d \in Buf PROVE absMem'[d] = absMem[d]
    <3>1. \A p \in Request : Shows(p, d)' <=> Shows(p, d)
      BY <1>1, <1>2, <1>4 DEF Shows, IsRead
    <3>2. \A p \in Request : Shows(p, d) => req'[p].val = req[p].val
      BY <1>1, <1>4 DEF Shows, IsRead
    <3> QED
      BY <1>2, <3>1, <3>2, AbsMemKept
  <2>3. absMem' = absMem
    BY <2>2, AbsFunctions
  <2> QED
    BY <1>2, <1>3, <1>4, <2>1, <2>3 DEF Store_!Land, AbsRequest
<1>5. CASE req[q].op = "read"
  <2>1. disk' = disk /\ req'[q].val = disk[req[q].blk]
    BY <1>2, <1>5 DEF DeviceExec
  <2>2. absMem'[req[q].buf] = disk[req[q].blk]
    BY <1>2, <1>5, <2>1, ShownMemNext DEF ShownMem, Shows, IsRead
  <2>3. ASSUME NEW d \in Buf, d # req[q].buf PROVE absMem'[d] = absMem[d]
    <3>1. \A p \in Request : Shows(p, d)' <=> Shows(p, d)
      BY <1>1, <1>2, <2>3 DEF Shows, IsRead
    <3>2. \A p \in Request : Shows(p, d) => req'[p].val = req[p].val
      BY <1>1, <2>3 DEF Shows, IsRead
    <3> QED
      BY <1>2, <3>1, <3>2, AbsMemKept
  <2>4. absMem' = [absMem EXCEPT ![req[q].buf] = disk[req[q].blk]]
    BY <1>2, <2>2, <2>3, AbsFunctions
  <2> QED
    BY <1>2, <1>3, <1>5, <2>1, <2>4 DEF Store_!Land, AbsRequest
<1> QED
  BY <1>2, <1>4, <1>5

LEMMA RefineFail ==
  ASSUME TypeOK, TypeOK', OneReader, OneReader', EmptyReads,
         NEW q \in Request, DeviceFail(q)
  PROVE  Store_!Fail(q)
<1>1. /\ req[q] # Free /\ req[q] \in RequestState /\ req[q].stage = "submitted"
      /\ \A p \in Request \ {q} : req'[p] = req[p]
  BY Moves DEF Advance
<1>2. /\ UNCHANGED <<disk, mem, waiting>> /\ req[q].op \in {"read", "write"}
      /\ req'[q].stage = "finished" /\ req'[q].buf = req[q].buf
      /\ req'[q].op = req[q].op /\ req[q].buf \in Buf /\ req'[q] # Free
      /\ req'[q].val = req[q].val
  BY <1>1, MovedFields DEF DeviceFail, RequestState
<1>3. /\ absPending[q] = AbsRequest(q) /\ absPending[q] # Free
      /\ absPending' = [absPending EXCEPT ![q] = Free]
  BY <1>1, <1>2, RefineAnswered
<1>4. ASSUME NEW d \in Buf, req[q].op = "write" \/ d # req[q].buf
      PROVE  absMem'[d] = absMem[d]
  <2>1. \A p \in Request : Shows(p, d)' <=> Shows(p, d)
    BY <1>1, <1>2, <1>4 DEF Shows, IsRead
  <2>2. \A p \in Request : Shows(p, d) => req'[p].val = req[p].val
    BY <1>1, <1>2 DEF Shows, IsRead
  <2> QED
    BY <1>2, <2>1, <2>2, AbsMemKept
<1>5. CASE req[q].op = "write"
  <2>1. absMem' = absMem
    BY <1>4, <1>5, AbsFunctions
  <2> QED
    BY <1>2, <1>3, <1>5, <2>1 DEF Store_!Fail, AbsRequest
<1>6. CASE req[q].op = "read"
  <2>1. req[q].val = Zero
    BY <1>1, <1>6 DEF EmptyReads, IsRead
  <2>2. absMem'[req[q].buf] = Zero
    BY <1>2, <1>6, <2>1, ShownMemNext DEF ShownMem, Shows, IsRead
  <2>3. absMem' = [absMem EXCEPT ![req[q].buf] = Zero]
    BY <1>2, <1>4, <2>2, AbsFunctions
  <2> QED
    BY <1>2, <1>3, <1>6, <2>3 DEF Store_!Fail, AbsRequest
<1> QED
  BY <1>2, <1>5, <1>6

\* The steps between the device and the counter: the store does not see them.
LEMMA RefineHidden ==
  ASSUME TypeOK, TypeOK', OneReader, OneReader', NEW q \in Request,
         Submit(q) \/ CopyOut(q) \/ CountUp(q)
  PROVE  UNCHANGED Store_!vars
<1>1. /\ req[q] # Free /\ req[q] \in RequestState
      /\ \A p \in Request \ {q} : req'[p] = req[p]
      /\ UNCHANGED <<disk, waiting>>
  BY Moves DEF Advance, Submit, CopyOut, CountUp
<1>2. ASSUME absPending'[q] = absPending[q] PROVE absPending' = absPending
  <2>1. \A p \in Request \ {q} : absPending'[p] = absPending[p]
    BY <1>1, AbsPendingKept
  <2> QED
    BY <1>2, <2>1, AbsFunctions
<1>3. ASSUME NEW d \in Buf, mem'[d] = mem[d], ~ Shows(q, d), ~ Shows(q, d)'
      PROVE  absMem'[d] = absMem[d]
  <2>1. \A p \in Request : Shows(p, d)' <=> Shows(p, d)
    BY <1>1, <1>3 DEF Shows, IsRead
  <2>2. \A p \in Request : Shows(p, d) => req'[p].val = req[p].val
    BY <1>1, <1>3 DEF Shows, IsRead
  <2> QED
    BY <1>3, <2>1, <2>2, AbsMemKept
<1>4. CASE Submit(q)
  <2>1. req[q].stage = "queued" /\ mem' = mem
    BY <1>4 DEF Submit
  <2>2. /\ req'[q].op = req[q].op /\ req'[q].fut = req[q].fut /\ req'[q].blk = req[q].blk
        /\ req'[q].buf = req[q].buf /\ req'[q].val = req[q].val
        /\ req'[q].stage \in {"submitted", "lost"} /\ req'[q] # Free
    BY <1>4, MovedFields
  <2>3. absPending'[q] = absPending[q]
    <3>1. InStore(q) /\ InStore(q)'
      BY <1>1, <2>1, <2>2 DEF InStore, Landed
    <3>2. AbsRequest(q)' = AbsRequest(q)
      BY <2>2 DEF AbsRequest
    <3> QED
      BY <3>1, <3>2, AbsPendingIs, AbsPendingNext
  <2>4. \A d \in Buf : absMem'[d] = absMem[d]
    BY <1>3, <2>1, <2>2 DEF Shows
  <2> QED
    BY <1>1, <1>2, <2>3, <2>4, AbsFunctions DEF Store_!vars
<1>5. CASE CopyOut(q)
  <2>1. /\ req[q].stage = "finished" /\ req[q].op = "read"
        /\ mem' = [mem EXCEPT ![req[q].buf] = req[q].val]
    BY <1>5 DEF CopyOut
  <2>2. req'[q].stage = "copied" /\ req'[q].buf = req[q].buf /\ req[q].buf \in Buf
    BY <1>1, <1>5, MovedFields DEF RequestState
  <2>3. absPending'[q] = absPending[q]
    BY <1>1, <2>1, <2>2, AbsPendingIs, AbsPendingNext DEF InStore, Landed
  <2>4. ASSUME NEW d \in Buf PROVE absMem'[d] = absMem[d]
    <3>1. CASE d = req[q].buf
      <4>1. absMem[d] = req[q].val
        BY <1>1, <2>1, <3>1, ShownMemIs DEF ShownMem, Shows, IsRead
      <4>2. \A p \in Request : ~ Shows(p, d)'
        <5> SUFFICES ASSUME NEW p \in Request, Shows(p, d)' PROVE FALSE
          OBVIOUS
        <5>1. p # q
          BY <2>2 DEF Shows
        <5>2. Shows(p, d) /\ IsRead(q)
          BY <1>1, <2>1, <5>1 DEF Shows, IsRead
        <5> QED
          BY <3>1, <5>1, <5>2 DEF OneReader, Shows
      <4>3. absMem'[d] = mem'[d]
        BY <4>2, ShownMemNext DEF ShownMem
      <4> QED
        BY <2>1, <2>2, <3>1, <4>1, <4>3 DEF TypeOK
    <3>2. CASE d # req[q].buf
      BY <1>3, <2>1, <2>2, <3>2 DEF TypeOK, Shows
    <3> QED
      BY <3>1, <3>2
  <2> QED
    BY <1>1, <1>2, <2>3, <2>4, AbsFunctions DEF Store_!vars
<1>6. CASE CountUp(q)
  <2>1. /\ req'[q] = Free /\ mem' = mem
        /\ req[q].stage = CountStage(req[q].op) /\ req[q].op \in {"read", "write"}
    BY <1>1, <1>6, Moves DEF Advance, CountUp, RequestState
  <2>2. absPending'[q] = absPending[q]
    BY <2>1, AbsPendingIs, AbsPendingNext DEF InStore, Landed, CountStage
  <2>3. \A d \in Buf : absMem'[d] = absMem[d]
    BY <1>3, <2>1 DEF Shows, IsRead, CountStage
  <2> QED
    BY <1>1, <1>2, <2>1, <2>2, <2>3, AbsFunctions DEF Store_!vars
<1> QED
  BY <1>4, <1>5, <1>6

LEMMA RefineStep ==
  RInv /\ [Next]_vars => [abandoned = {} => Store_!Next]_(Store_!vars)
<1> SUFFICES ASSUME RInv, [Next]_vars, abandoned = {}
             PROVE  Store_!Next \/ UNCHANGED Store_!vars
  OBVIOUS
<1>1. TypeOK /\ TypeOK' /\ OneReader /\ OneReader' /\ EmptyReads
  BY TypeStep, ReadsStep DEF RInv, IInv
<1>2. CASE \/ \E f \in Frame : FutureInit(f) \/ Return(f)
           \/ SpinStep \/ UNCHANGED vars
  <2>1. UNCHANGED <<req, mem, disk, waiting>>
    BY <1>2 DEF FutureInit, Return, SpinStep, vars
  <2> QED
    BY <2>1, RefineIdle DEF Store_!vars
<1>3. ASSUME NEW f \in Frame, SpinWait(f) PROVE Store_!Next
  <2>1. UNCHANGED <<req, mem, disk>> /\ waiting = None /\ waiting' = f
    BY <1>3 DEF SpinWait
  <2> QED
    BY <2>1, RefineIdle DEF Store_!Next, Store_!Wait
<1>4. CASE SpinReturn
  <2>1. UNCHANGED <<req, mem, disk>> /\ waiting # None /\ waiting' = None /\ idx = NumReactors
    BY <1>4 DEF SpinReturn
  <2>2. \A r \in Reactor : Outstanding(waiting, r) = {}
    BY <2>1, WaitCompleteInv DEF RInv, WaitComplete, Exact
  <2>3. \A q \in Request : req[q] # Free => req[q].fut # waiting
    BY <1>1, <2>2, AllocatedType DEF Outstanding, Allocated, RequestState
  <2>4. Store_!Of(waiting) = {}
    <3> SUFFICES ASSUME NEW q \in Request, absPending[q] # Free
                 PROVE  absPending[q].fut # waiting
      BY DEF Store_!Of
    <3>1. InStore(q) /\ absPending[q] = AbsRequest(q)
      BY AbsPendingIs
    <3> QED
      BY <2>3, <3>1 DEF InStore, AbsRequest
  <2> QED
    BY <2>1, <2>4, RefineIdle DEF Store_!Next, Store_!Wake
<1>5. ASSUME NEW d \in Buf, NEW v \in Value, Store(d, v) PROVE Store_!Next
  <2>1. /\ waiting = None /\ ReadInto(d) = {} /\ mem' = [mem EXCEPT ![d] = v]
        /\ UNCHANGED <<disk, req, waiting>>
    BY <1>5 DEF Store, Usable
  <2>2. absPending' = absPending
    BY <2>1 DEF absPending, Landed
  <2>3. absMem' = [absMem EXCEPT ![d] = v]
    <3>1. mem'[d] = v /\ \A c \in Buf : c # d => mem'[c] = mem[c]
      BY <1>1, <2>1 DEF TypeOK
    <3>2. absMem'[d] = v
      BY <2>1, <3>1 DEF absMem, ReadInto, Allocated
    <3>3. \A c \in Buf : c # d => absMem'[c] = absMem[c]
      BY <2>1, <3>1 DEF absMem, ReadInto, Allocated
    <3> QED
      BY <3>2, <3>3, AbsFunctions
  <2> QED
    BY <2>1, <2>2, <2>3 DEF Store_!Next, Store_!Fill
<1>6. ASSUME NEW q \in Request, Issue(q) PROVE Store_!Next
  BY <1>1, <1>6, RefineIssue, ReactorFacts
     DEF Issue, IssueAsync, IssueAndWait, Usable, Store_!Next
<1>7. ASSUME NEW q \in Request, Advance(q) PROVE Store_!Next \/ UNCHANGED Store_!vars
  BY <1>1, <1>7, RefineExec, RefineFail, RefineHidden DEF Advance, Store_!Next
<1> QED
  BY <1>2, <1>3, <1>4, <1>5, <1>6, <1>7 DEF Next

\* For as long as no function has returned from a future it never waited for,
\* the layer is a FutureStore: every request takes effect once, as a whole, or
\* fails, before the wait on its future ends.
THEOREM ImplementsStore == Spec => ImplementsFutureStore
BY ReadInvariance, RefineInit, RefineStep, PTL DEF Spec, ImplementsFutureStore
=============================================================================
