SPECIFICATION PipelineFairSpec
CONSTANTS
  Sources <- WellBehaved
  Inputs <- MCInputs
  Structs <- MCStructs
  Contract = "Token"
  SlotLimit = 255
  MaxInt = 2047
  Names <- MCNames
  Arity <- MCArity
  VoidFunctions = {}
  Reply <- MCReply
INVARIANTS
  OutcomeAgrees
  TraceAgrees
  CodeBalanced
  CalleesExist
PROPERTIES
  Finishes
CHECK_DEADLOCK FALSE
