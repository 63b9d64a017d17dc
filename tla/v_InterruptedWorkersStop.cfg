SPECIFICATION Spec
CONSTANTS
  StripBlocks = 2
  NoTile = NoTile
  Units <- MCUnits
  Tile <- MCTile
  NWorkers = 2
  IoConcurrency = 2
PROPERTY
  InterruptedWorkersStop
CHECK_DEADLOCK FALSE
