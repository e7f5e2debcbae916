SPECIFICATION Spec
CONSTANTS
  op1 = op1
  op2 = op2
  v1 = v1
  v2 = v2
  v3 = v3
  other = other
  Operators = {op1, op2}
  Results <- Incidents
  Templates = {v1, v2, v3}
  Initial <- History
  InitialSets <- Revisions
  Foreign = {other}
  HistoryLimit = 1
  MaxEdits = 2
  Nothing = Nothing
INVARIANTS
  TypeOK
  TrailIsTrue
PROPERTIES
  NoEditIsLost
  OnlyKnownTemplates
  SettledGoesBackOne
SYMMETRY OperatorSymmetry
CHECK_DEADLOCK FALSE
