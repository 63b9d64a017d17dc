SPECIFICATION Spec
CONSTANTS
  Call = {c1, c2}
  Nobody = Nobody
  Chunk = 2
  FileSize = 3
  MaxAsked = 5
  MaxCalls = 3
  MaxFaults = 2
INVARIANTS
  AnswersAreExact
  AskedForOnce
PROPERTIES
  ChunksOnlyGrow
  CallsReturn
CHECK_DEADLOCK FALSE
