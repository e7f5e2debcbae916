SPECIFICATION Spec
CONSTANTS
  App = "checkout"
  Pod = "checkout-5d8f"
  ReplicaSet = "checkout-5d"
  Claim = "data"
  Node = "node-1"
  Dns = "coredns"
  started = 50
  failed = 60
  maxRegressionAge = 30
  Overlapping <- MCOverlapping
  StartWorlds <- MCStartWorlds
  MaxShifts = 2
  MaxLost = 1
  outrankGap = 2500
  NoID = NoID
INVARIANTS
  TypeOK
  ClaimOutranksScheduling
  KillOutranksSymptoms
  QuietWhenHealthy
  FailureIsExplained
  OrderOnlyBreaksTies
  LoopLooksTheSame
  EachBlameHasAMoment
CHECK_DEADLOCK FALSE
