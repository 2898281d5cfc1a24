SPECIFICATION Spec
CONSTANTS
  Symbols <- MCSymbols
  Emitted <- MCEmitted
  MaxRounds = 64
PROPERTY MergeKeepsValue
CHECK_DEADLOCK FALSE
