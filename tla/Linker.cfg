SPECIFICATION FairSpec
CONSTANTS
  Symbols <- MCSymbols
  Programs <- MCPrograms
  RelLimit = 30
INVARIANTS
  TypeOK
  OffsetsAreStarts
  CallsReachCallees
PROPERTIES
  ImplementsBinding
  LinkingEnds
CHECK_DEADLOCK FALSE
