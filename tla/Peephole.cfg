SPECIFICATION FairSpec
CONSTANTS
  Symbols <- MCSymbols
  Emitted <- MCEmitted
  MaxRounds = 64
INVARIANTS
  TypeOK
  PatchesTrackCalls
  NothingLeftToDo
PROPERTIES
  RelayoutKeepsTargets
  Terminates
CHECK_DEADLOCK FALSE
