SPECIFICATION Spec
CONSTANTS
  first = first
  second = second
  reader1 = reader1
  reader2 = reader2
  elsewhere = elsewhere
  stub = stub
  Savers = {first, second}
  slug <- TwoNames
  NumObs <- One
  Readers = {reader1, reader2}
  Acting = {reader1}
  Remote = {reader2}
  Newer = {second}
  Outside = {elsewhere}
  OutsideLines <- TwoLines
  namesake <- Stub
  MaxClock = 0
  NoFile = NoFile
  NoID = NoID
  NoSaver = NoSaver
  NoPath = NoPath
  NoAnswer = NoAnswer
  Failed = Failed
INVARIANTS
  TypeOK
  LoadsWhatWasSaved
PROPERTIES
  KeepsLog
CHECK_DEADLOCK FALSE
