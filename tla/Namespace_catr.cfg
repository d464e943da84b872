SPECIFICATION Spec
CONSTANTS
  a = a
  b = b
  c = c
  ShortName = {a, b}
  LongName = {c}
  NInodes = 3
  EntriesPerBlock = 2
  MaxEntries = 5
  CatrArgs = {".", a}
  MaxStack = 4
CHECK_DEADLOCK FALSE
PROPERTIES
  CatrKeepsCurDir
