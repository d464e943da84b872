SPECIFICATION Spec
CONSTANTS
  BlockSize = 2
  NDirect = 2
  NIndirect = 2
  NBits = 5
  NCsums = 5
  File = {f1, f2}
  Ops = {"write", "owrite", "import", "rm", "cat", "checkfs"}
  Sizes = {1, 4, 6, 9}
SYMMETRY Symm
INVARIANTS
  TypeOK
  NoSharedBlock
  RefsMarked
  NoHoles
  MappingAssertsHold
  IndirectFlushSafe
  FailedWriteRollsBack
  CheckfsClean
PROPERTIES
  ImplementsBlockOwner
CHECK_DEADLOCK FALSE
