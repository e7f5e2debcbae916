SPECIFICATION Spec
CONSTANTS
  pod1 = pod1
  pod2 = pod2
  outrankGap = 25
  NoID = NoID
  NoReport = NoReport
  Pods = {pod1}
  PodOrder <- OnePod
  Unlimited = {}
  TargetKind = "pod"
  TargetPod = pod1
  ScopeLogs = FALSE
  Recorded <- MCRecorded
  Wirings <- SomeWiring
  CollectorIds <- MCCollectorIds
  Infallible <- MCInfallible
  AnalyzerList <- MCAnalyzerList
  Fallible = {"oom"}
  Worlds <- PodWorlds
  Shifts <- PodShifts
  InitialWorlds <- AnyWorld
  Obs <- PodObs
  Subjects = {pod1}
  Mentions <- PodMentions
  Answers <- PodAnswers
  Ids <- PodIds
  MissingIds <- PodMissing
  EvidenceIds <- PodEvidenceIds
  Emits <- PodEmits
  Finds <- PodFinds
  Needs <- PodNeeds
  Hints <- MCHints
  Label <- PodLabel
  Precedence <- PodPrecedence
  maxAdaptiveRounds = 2
  maxRequests = 5
  requestBudget = 6
INVARIANTS
  FreshVerdict
  CascadeVisible
  AsksAreUnmet
PROPERTIES
  StopsForAReason
  KeepsPromise
  Termination
CHECK_DEADLOCK FALSE
