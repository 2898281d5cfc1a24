SPECIFICATION FairSpec
CONSTANTS
  Functions <- MCFunctions
  MaxInt = 2047
INVARIANTS
  TypeOK
  UsesDefined
PROPERTIES
  ParamsStayLocal
  EffectsKept
  OptimizerEnds
CHECK_DEADLOCK FALSE
