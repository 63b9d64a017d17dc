SPECIFICATION Spec
CONSTANTS
  MaxClasses = 1
  Cell = {1, 2}
  Class = {1, 2}
  Column = {1, 2}
  Part = {0, 1}
  PartOf <- MCPartOf
  Thread = {"full", "partial"}
  Cols <- MCCols
  Mapped = {"partial"}
  Lengths = {2}
  MaxPush <- MCMaxPush
  NoThread = NoThread
INVARIANTS
  MeansAreExact
  WeightConserved
  HoldersCanMove
CHECK_DEADLOCK FALSE
