SPECIFICATION SampleSpec
CONSTANTS
  NoTile = NoTile
  NoSample = NoSample
  Width = 6
  Height = 6
  TileW = 4
  TileH = 4
  Interp = "bicubic"
  NOut = 2
  Bands <- MCBands
  Cells <- MCCells
  Centre <- MCCentre
  Value <- MCValue
  Units <- MCUnits
  Tile <- MCTile
  NWorkers <- MCWorkers
  Scenes <- MCScenes
  Others <- MCOthers
  Slots <- MCSlots
  IoConcurrency = 2
INVARIANTS
  SamplesAreWhole
PROPERTIES
  ImplementsRead
CHECK_DEADLOCK FALSE
