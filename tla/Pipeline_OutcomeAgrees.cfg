SPECIFICATION PipelineSpec
CONSTANTS
  Sources <- TwoJoined
  Inputs <- FewInputs
  Structs <- MCStructs
  Contract = "Token"
  SlotLimit = 255
  MaxInt = 2047
  Names <- MCNames
  Arity <- MCArity
  VoidFunctions = {}
  Reply <- MCReply
INVARIANTS
  OutcomeAgrees
CHECK_DEADLOCK FALSE
