SPECIFICATION Spec
CONSTANTS
  CoalesceGap = 1
  MaxMerged = 5
  Call = {c1, c2}
  FileSize = 10
  BlockLists <- MCBlockLists
  MetaRanges <- MCMetaRanges
  Limit = 2
  Budgets = {0, 4}
  MaxCalls = 3
  NoBytes = NoBytes
INVARIANTS
  TypeOK
  PermitsConserved
  CacheTruthful
  AnswersAreExact
PROPERTIES
  CallsReturn
CHECK_DEADLOCK FALSE
