SPECIFICATION Spec
CONSTANTS
  BlockSize = 2
  NDirect = 2
  NIndirect = 2
  NBits = 10
  NCsums = 10
  File = {f1}
  Ops = {"import", "checkfs"}
  Sizes = {1, 2, 3, 4, 5, 6, 7, 8, 9}
SYMMETRY Symm
INVARIANTS
  CheckfsSizeAsserted
CHECK_DEADLOCK FALSE
