SPECIFICATION Spec
CONSTANTS
  StripBlocks = 2
  NoTile = NoTile
  Units <- MCUnits
  Tile <- MCTile
  NWorkers = 2
  IoConcurrency = 2
INVARIANTS
  TypeOK
  Conservation
  OkIsComplete
  UnreachableAnswers
  WorkerErrorsWin
  DrainedBeforeAnswer
PROPERTIES
  ContractSpec
  ReturnsUnlessFetchFails
  WorkersExit
CHECK_DEADLOCK FALSE
