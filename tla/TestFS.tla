------------------------------- MODULE TestFS -------------------------------
(***************************************************************************)
(* The program and the device under it: DeviceInit and AsyncIO composed.   *)
(* The main reactor starts the reactors up, then runs testfs_main, whose   *)
(* calls issue and wait for the requests of AsyncIO; when the last command *)
(* has returned it puts the channels on which the requests were served and *)
(* closes the device.                                                      *)
(***************************************************************************)
EXTENDS DeviceInit

CONSTANTS Request, Frame, Block, Buf, Value, Zero, Free, None,
          DeviceOutcome, MaxOps, MaxAbandoned   \* see AsyncIO

VARIABLES disk, mem, counts, expected, req, frame, waiting, idx, abandoned

IO == INSTANCE AsyncIO

ioVars  == <<disk, mem, counts, expected, req, frame, waiting, idx, abandoned>>
allVars == <<vars, ioVars>>

\* Between commands: no call is under way, no stack frame holds a future.
InCommandLoop ==
  /\ waiting = None
  /\ \A f \in Frame : frame[f] = "dead"

\* Mutated: the program stops in the middle of a command.
StopAtOnce == (Close \/ PutChannel) /\ UNCHANGED ioVars

\* The end of testfs_main, after "quit" or the end of the input.
Stop ==
  /\ InCommandLoop
  /\ Close \/ PutChannel
  /\ UNCHANGED ioVars

\* testfs_main is running: its calls, and the reactors that serve them.
Running == pc = "running" /\ next = 0 /\ UNCHANGED vars

Serve == Running /\ IO!Next

Boot == Booting /\ UNCHANGED ioVars

SysInit == Init /\ IO!Init
SysNext == Boot \/ Serve \/ Stop

\* The reactors poll for events and for completions, the device answers, and
\* spin_wait runs; nothing makes the user give a command or quit.
SysFairness ==
  /\ WF_allVars(SendAcquire /\ UNCHANGED ioVars)
  /\ \A r \in Reactor : WF_allVars(Poll(r) /\ UNCHANGED ioVars)
  /\ \A q \in Request : WF_allVars(Running /\ IO!Advance(q))
  /\ WF_allVars(Running /\ (IO!SpinStep \/ IO!SpinReturn))

SysSpec == SysInit /\ [][SysNext]_allVars /\ SysFairness

-----------------------------------------------------------------------------
(***************************************************************************)
(* Properties.                                                             *)
(***************************************************************************)

\* The reactor a request was sent to holds its I/O channel, from the issue to
\* the completion: none is put under a request, none is used before it is
\* acquired (block.c:91-92, device.c:105-108).
ChannelHeld == \A q \in IO!Allocated : req[q].reactor \in channels

\* spin_wait returns, however the reactors came up.
EveryWaitReturns == IO!EveryWaitReturns
=============================================================================
