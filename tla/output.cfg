SPECIFICATION Spec
CONSTANTS
  PixelUnits <- MCPixelUnits
  StripeRows = 2
  NoCell <- MCNoCell
  CellAt <- MCCellAt
  Direct = FALSE
  FaceOf <- MCFaceOf
  OnFace <- MCOnFace
  Vertices <- MCVertices
  ParentOf <- MCParentOf
  CellsBelow <- MCCellsBelow
  Projects <- MCProjects
  Approx <- MCApprox
  Ancestors <- MCAncestors
  Requests <- MCRequests
  Partitions = 2
  RowGroupRows = 2
INVARIANTS
  ValuesAreExact
  FractionsAreShares
  MaskIsEvenOdd
  FileHoldsTheRead
