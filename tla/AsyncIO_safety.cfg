SPECIFICATION Spec
CONSTANTS
  NumReactors = 3
  Request = {q1, q2}
  Frame = {f1, f2}
  Block = {b1}
  Buf = {d1}
  Value = {z, v}
  Zero = z
  Free = Free
  None = None
  DeviceOutcome = {"ok", "error", "rejected"}
  MaxOps = 1
  MaxAbandoned = 1
SYMMETRY Symm
INVARIANTS
  TypeOK
  CountsMatch
  WaitComplete
  
PROPERTIES
  ImplementsFutureStore
CHECK_DEADLOCK FALSE
