SPECIFICATION Inputs
CONSTANTS
  StripBlocks = 3
  CoalesceGap = 1
  MaxMerged = 4
  Cols = 5
  Rows = 2
  Offsets = {0, 1, 2, 3, 4, 5, 6}
  MaxRanges = 3
  IoConcurrencies = {1, 2, 3, 4}
INVARIANTS
  StripsKeepThePlan
  StripsAreLongestRuns
  RangesArePlaced
  RequestsAreTight
CHECK_DEADLOCK FALSE
