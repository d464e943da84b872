SPECIFICATION Spec
CONSTANTS
  BlockSize = 2
  NDirect = 2
  NIndirect = 2
  NBits = 5
  NCsums = 5
  File = {f1, f2}
  Ops = {"owrite", "rm"}
  Sizes = {1, 2, 3, 4, 5, 6, 7, 8}
SYMMETRY Symm
INVARIANTS
  TruncateIndirectAsserted
CHECK_DEADLOCK FALSE
