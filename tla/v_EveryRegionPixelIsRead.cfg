CONSTANTS
  Half = 32
  Pole = 16
  EdgeSamples = 4
  PadUnit = 1
  Oversample = 2
  FactorTol = 150
  PixelSizeTol = 20
  Cases = {"seam"}
  Requests <- MCRequests
  Points <- MCPoints
  Margin = 1
SPECIFICATION Spec
INVARIANT EveryRegionPixelIsRead
