CONSTANTS
  NBlocks = 4
  NInodes = 3
  PerGroup = 2
  PerBlock = 2
  WordBits = 3
  MaxCrashes = 2
SPECIFICATION Spec
INVARIANT CsumSurvivesQuit
