SPECIFICATION PipelineSpec
CONSTANTS
  Sources <- ReadAgain
  Inputs <- FewInputs
  Structs <- MCStructs
  Contract = "Token"
  SlotLimit = 255
  MaxInt = 2047
  Names <- MCNames
  Arity <- MCArity
  VoidFunctions = {}
  Reply <- MCReply
INVARIANTS
  TraceAgrees
CHECK_DEADLOCK FALSE
