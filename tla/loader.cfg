CONSTANTS
  Int32Max = 16
  SizeMod = 32
  MaxRank = 2
  InputNames <- MCInputNames
  InputDims <- MCInputDims
  OutputNames <- MCOutputNames
  OutputDims <- MCOutputDims
  AskedNames <- MCAskedNames
  AskedShapes <- MCAskedShapes
  AskedRuns <- MCAskedRuns
  Payloads <- MCPayloads
  OutputShapes <- MCOutputShapes
  ProfileModes = {TRUE, FALSE}
  Caps = {1, 2, 8}
  OrtValues = {v1, v2, v3}
  Null = Null
  MaxGeneration = 2
  MaxAllocations = 2
  MaxReuses = 1
  MaxNames = 2
  MinCap = 2
  CapFactor = 2
SYMMETRY Handles
SPECIFICATION LoaderSpec
INVARIANTS
  ErrorReportsLatestCall
  NothingOutlivesItsModel
  FailedFittingRunLeavesNoOutput
PROPERTIES
  PredictionComplete
  PredictAnswersItsOwnInput
  LoaderImplementsContract
