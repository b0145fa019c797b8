SPECIFICATION FairSpec
CONSTANTS
  c1 = c1 c2 = c2
  Calls = {c1, c2}
  Specs = {"a", "b", "big", "t", "m"}
  Kind <- KindOf
  Size <- SizeOf
  Batch <- BatchOf
  MaxBatch = 2
  MaxBlob = 1
  MaxTotal = 3
  MaxFaults = 2
  None = None
CHECK_DEADLOCK FALSE
INVARIANTS
  AnswersMatch
  FailsOpen
PROPERTIES
  CallsEnd
