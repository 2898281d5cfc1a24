SPECIFICATION Spec
CONSTANTS
  SlotLimit = 6
  Names <- MCNames
  ParamLists <- MCParamLists
  MaxDepth = 3
INVARIANTS
  TypeOK
  SlotsNotShared
  NamesAgree
PROPERTY BlocksRestoreNames InitializersAgree
CHECK_DEADLOCK FALSE
