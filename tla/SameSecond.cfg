SPECIFICATION Spec
CONSTANTS
  first = first
  second = second
  reader1 = reader1
  reader2 = reader2
  elsewhere = elsewhere
  stub = stub
  Savers = {first, second}
  slug <- OneName
  NumObs <- One
  Readers = {reader1}
  Acting = {}
  Remote = {}
  Newer = {}
  Outside = {elsewhere}
  OutsideLines <- TwoLines
  namesake <- Stub
  MaxClock = 0
  NoFile = NoFile
  NoID = NoID
  NoSaver = NoSaver
  NoPath = NoPath
  NoAnswer = NoAnswer
  Failed = Failed
INVARIANTS
  EveryInvestigationIsRecorded
CHECK_DEADLOCK FALSE
