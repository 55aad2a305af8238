CONSTANTS
  Int32Max = 11
  SizeMod = 512
  MaxRank = 3
  DimValues <- MCDimValues
SPECIFICATION Spec
INVARIANTS
  CheckedProductExact
  FlatSizeExact
  PredictShapeAccepted
  OutputHandedOutWhole
  ReadersAgree
  SliceInsideTensor
