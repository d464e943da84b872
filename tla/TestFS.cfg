SPECIFICATION SysSpec
CONSTANTS
  NumReactors = 3
  Request = {q1, q2}
  Frame = {f1, f2}
  Block = {b1}
  Buf = {d1}
  Value = {z}
  Zero = z
  Free = Free
  None = None
  DeviceOutcome = {"ok", "error"}
  MaxOps = 2
  MaxAbandoned = 0
INVARIANTS
  StartsReady
  ChannelHeld
PROPERTIES
  ProgramStarts
  EveryWaitReturns
CHECK_DEADLOCK FALSE
