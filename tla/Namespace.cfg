SPECIFICATION Spec
CONSTANTS
  pod1 = pod1
  pod2 = pod2
  outrankGap = 25
  NoID = NoID
  NoReport = NoReport
  Pods = {pod1, pod2}
  PodOrder <- TwoPods
  Unlimited = {pod2}
  TargetKind = "namespace"
  TargetPod = pod1
  ScopeLogs = TRUE
  Recorded = {}
  Wirings <- KubernetesOnly
  CollectorIds <- MCCollectorIds
  Infallible <- MCInfallible
  AnalyzerList <- MCAnalyzerList
  Fallible = {}
  Worlds <- PodWorlds
  Shifts <- PodShifts
  InitialWorlds <- PairWorlds
  Obs <- PodObs
  Subjects = {pod1, pod2}
  Mentions <- PodMentions
  Answers <- PodAnswers
  Ids <- PodIds
  MissingIds <- PodMissing
  EvidenceIds <- PodEvidenceIds
  Emits <- PodEmits
  Finds <- PodFinds
  Needs <- PodNeeds
  Hints <- MCHints
  Label <- PodLabel
  Precedence <- PodPrecedence
  maxAdaptiveRounds = 2
  maxRequests = 5
  requestBudget = 3
INVARIANTS
  TypeOK
  RequestsBounded
CHECK_DEADLOCK FALSE
