SPECIFICATION Spec
CONSTANTS
  Symbols <- MCSymbols
  Emitted <- MCEmitted
  MaxRounds = 64
PROPERTY EditsKeepTargets
CHECK_DEADLOCK FALSE
