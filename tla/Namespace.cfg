SPECIFICATION Spec
CONSTANTS
  a = a
  b = b
  c = c
  ShortName = {a, b}
  LongName = {c}
  NInodes = 3
  EntriesPerBlock = 2
  MaxEntries = 5
  CatrArgs = {"."}
  MaxStack = 4
SYMMETRY Symm
CHECK_DEADLOCK FALSE
INVARIANTS
  TypeOK
  NamesUnique
  FreemapIsTree
  CountsAreHolders
  HeldNotRemoved
  TreeAssertsHold
  NoReentry
PROPERTIES
  ImplementsNameTree
