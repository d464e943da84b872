SPECIFICATION Spec
CONSTANTS
  BlockSize = 2
  NDirect = 4
  NIndirect = 1
  NBits = 3
  NCsums = 3
  File = {f1, f2}
  Ops = {"write"}
  Sizes = {1, 2, 3, 4, 5, 6, 7, 8}
SYMMETRY Symm
INVARIANTS
  TailReadAwaited
CHECK_DEADLOCK FALSE
