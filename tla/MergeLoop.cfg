SPECIFICATION Spec
CONSTANTS
  outrankGap = 25
  NoID = NoID
  a = a
  b = b
  MaxLen = 3
  Unscored = TRUE
  Inputs <- MCInputs
INVARIANTS
  LoopComputesMerge
CHECK_DEADLOCK FALSE
