SPECIFICATION Spec
CONSTANTS
  Sources <- ConditionalReturn
  Inputs <- MCInputs
  Structs <- MCStructs
  Contract = "Token"
  SlotLimit = 255
  Arity <- MCArity
  VoidFunctions = {"log"}
  Reply <- MCReply
INVARIANT
  StaysInside
CHECK_DEADLOCK FALSE
