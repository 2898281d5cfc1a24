SPECIFICATION OptimizedFairSpec
CONSTANTS
  Sources <- Executed
  Optimizable <- Unpaired
  Inputs <- FewInputs
  Structs <- MCStructs
  Contract = "Token"
  SlotLimit = 255
  MaxRounds = 64
  Arity <- MCArity
  VoidFunctions = {"log"}
  Reply <- MCReply
INVARIANTS
  TypeOK
  OutcomeAgrees
  TraceAgrees
  HeightsAgree
  OperandsPresent
  ReturnsItsValue
  StaysInside
  CodeBalanced
PROPERTIES
  RunsEnd
CHECK_DEADLOCK FALSE
