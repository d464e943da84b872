----------------------------- MODULE DeviceInit -----------------------------
(***************************************************************************)
(* Starting and stopping: src/src/device.c.                                *)
(*                                                                         *)
(* start opens the device on the main reactor and asks every reactor, the  *)
(* main one included, to acquire its I/O channel.  Each answers with an    *)
(* event to the main reactor, which counts the answers and, with the last, *)
(* sends itself the event that runs the program.  The reactors run         *)
(* concurrently and each takes its events one at a time, in order; the     *)
(* main one takes none while start, or the program, runs on it.            *)
(*                                                                         *)
(* The device is there and opens: init_bdev after a failure is not here.   *)
(***************************************************************************)
EXTENDS Integers, Sequences, FiniteSets

CONSTANT NumReactors   \* NUM_REACTORS

ASSUME DeviceInitAssumption == NumReactors \in Nat \ {0, 1}

VARIABLES
  queue,        \* the events sent to each reactor and not taken yet
  outstanding,  \* completed_ctx->outstanding_requests
  freed,        \* completed_ctx has been freed
  channels,     \* the reactors whose I/O channel is held
  pc,           \* what the main reactor is doing
  next          \* i of the loop of init_reactors or dev_stop

vars == <<queue, outstanding, freed, channels, pc, next>>

MAIN_REACTOR == 0
Reactor == 0 .. NumReactors - 1
Event   == {"acquire", "complete", "app"}

TypeOK ==
  /\ queue \in [Reactor -> Seq(Event)]
  /\ outstanding \in 0 .. NumReactors
  /\ freed \in BOOLEAN
  /\ channels \subseteq Reactor
  /\ pc \in {"starting", "polling", "running", "stopping", "stopped"}
  /\ next \in 0 .. NumReactors

\* Mutated: the main reactor is not counted.
ExpectedButMain == NumReactors - 1

\* The answers start waits for.
Expected == NumReactors

Init ==
  /\ queue = [r \in Reactor |-> <<>>]
  /\ outstanding = Expected
  /\ freed = FALSE /\ channels = {}
  /\ pc = "starting" /\ next = 0

-----------------------------------------------------------------------------
\* init_reactors, one send_request at a time: the others poll meanwhile.
SendAcquire ==
  /\ pc = "starting"
  /\ queue' = [queue EXCEPT ![next] = Append(@, "acquire")]
  /\ next' = next + 1
  /\ pc' = IF next' = NumReactors THEN "polling" ELSE pc
  /\ UNCHANGED <<outstanding, freed, channels>>

\* Reactor r is about to take event e.
Takes(r, e) ==
  /\ r = MAIN_REACTOR => pc = "polling"
  /\ queue[r] # <<>> /\ Head(queue[r]) = e

\* The queues once r has taken its first event and sent e to the main reactor.
TakenAndSent(r, e) ==
  LET q == [queue EXCEPT ![r] = Tail(@)]
  IN  [q EXCEPT ![MAIN_REACTOR] = Append(@, e)]

\* acquire_io_channels
Acquire(r) ==
  /\ Takes(r, "acquire")
  /\ channels' = channels \cup {r}
  /\ queue' = TakenAndSent(r, "complete")
  /\ UNCHANGED <<outstanding, freed, pc, next>>

\* The test on ctx->outstanding_requests after it has been decremented.
LastAnswer == outstanding = 1

\* Mutated: the program is never started.
AfterLastAnswerNothing == [queue EXCEPT ![MAIN_REACTOR] = Tail(@)]

AfterLastAnswer == TakenAndSent(MAIN_REACTOR, "app")

\* init_reactors_complete
Complete ==
  /\ Takes(MAIN_REACTOR, "complete")
  /\ outstanding' = outstanding - 1
  /\ \/ /\ LastAnswer
        /\ queue' = AfterLastAnswer
        /\ freed' = TRUE
     \/ /\ ~LastAnswer
        /\ queue' = [queue EXCEPT ![MAIN_REACTOR] = Tail(@)]
        /\ UNCHANGED freed
  /\ UNCHANGED <<channels, pc, next>>

\* The event runs testfs_main, which does not come back to the event loop.
RunApp ==
  /\ Takes(MAIN_REACTOR, "app")
  /\ queue' = [queue EXCEPT ![MAIN_REACTOR] = Tail(@)]
  /\ pc' = "running" /\ next' = 0
  /\ UNCHANGED <<outstanding, freed, channels>>

\* dev_stop, one channel after the other, called at the end of testfs_main.
PutChannel ==
  /\ pc \in {"running", "stopping"} /\ next < NumReactors
  /\ pc' = "stopping"
  /\ channels' = channels \ {next}
  /\ next' = next + 1
  /\ UNCHANGED <<queue, outstanding, freed>>

Close ==
  /\ pc = "stopping" /\ next = NumReactors
  /\ pc' = "stopped"
  /\ UNCHANGED <<queue, outstanding, freed, channels, next>>

-----------------------------------------------------------------------------
Poll(r) == Acquire(r) \/ (r = MAIN_REACTOR /\ (Complete \/ RunApp))

Booting == SendAcquire \/ \E r \in Reactor : Poll(r)

Next == Booting \/ PutChannel \/ Close

Spec == Init /\ [][Next]_vars

\* Every reactor polls for ever, and start returns.
Fairness == WF_vars(SendAcquire) /\ \A r \in Reactor : WF_vars(Poll(r))

-----------------------------------------------------------------------------
(***************************************************************************)
(* Properties.                                                             *)
(***************************************************************************)

\* Reactors whose answer has not been counted: not asked, asked, or answered.
NotAsked   == IF pc = "starting" THEN next .. NumReactors - 1 ELSE {}
OnTheWay(e) ==
  Cardinality({at \in Reactor \X (1 .. 2 * NumReactors) :
                 at[2] \in DOMAIN queue[at[1]] /\ queue[at[1]][at[2]] = e})
Unanswered == Cardinality(NotAsked) + OnTheWay("acquire") + OnTheWay("complete")

\* No reactor's answer comes after the context it names was freed, and it is
\* freed for the last one: no answer is missed and none counted twice
\* (device.c:44-56).
FreedAfterLastAnswer == freed <=> Unanswered = 0

\* The event that starts the program is sent once, and only when every
\* channel is held; the program finds them so (device.c:52-54).
StartsReady ==
  OnTheWay("app") = 1 \/ (pc = "running" /\ next = 0) =>
    /\ channels = Reactor /\ Unanswered = 0
    /\ OnTheWay("app") + (IF pc = "running" THEN 1 ELSE 0) = 1

\* The program starts, whatever the order in which the reactors answer.
ProgramStarts == <>(pc = "running")
=============================================================================
