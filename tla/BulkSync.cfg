SPECIFICATION Spec
CONSTANTS
  NInodes = 5
  MaxDirty = 2
  PerBlock = 2
  Request = {1, 2, 3, 4, 5, 6}
  Free = Free
  None = None
INVARIANTS
  TypeOK
  BulkSynced
  OthersUntouched
  OneRequestPerBlock
  CleanIsSaved
PROPERTIES
  NeverBack
CHECK_DEADLOCK FALSE
