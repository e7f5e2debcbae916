SPECIFICATION Spec
CONSTANTS
  first = first
  second = second
  reader1 = reader1
  reader2 = reader2
  elsewhere = elsewhere
  stub = stub
  Savers = {first, second}
  slug <- OneName
  NumObs <- OneAndNone
  Readers = {reader1}
  Acting = {reader1}
  Remote = {}
  Newer = {}
  Outside = {elsewhere}
  OutsideLines <- TwoLines
  namesake <- Stub
  MaxClock = 1
  NoFile = NoFile
  NoID = NoID
  NoSaver = NoSaver
  NoPath = NoPath
  NoAnswer = NoAnswer
  Failed = Failed
INVARIANTS
  LoadsWhatWasSaved
  LoadIsAPrefix
PROPERTIES
  KeepsLog
CHECK_DEADLOCK FALSE
