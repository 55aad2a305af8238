CONSTANTS
  Int32Max = 8
  SizeMod = 16
  MaxRank = 2
  InputNames <- TwoInputNames
  InputDims <- TwoInputDims
  OutputNames <- TwoOutputNames
  AskedNames <- TwoAskedNames
  AskedShapes <- TwoAskedShapes
  AskedRuns <- TwoAskedRuns
  Payloads <- TwoPayloads
  OutputShapes <- PairShape
  ProfileModes = {FALSE}
  Caps = {2}
  OrtValues = {v1, v2, v3, v4, v5}
  Null = Null
  MaxGeneration = 2
  MaxAllocations = 3
  MaxReuses = 1
SYMMETRY Handles
SPECIFICATION NamedSpec
INVARIANTS
  TypeOK
  Ownership
  BoundTensorsFit
  GettersAnswerByName
PROPERTIES
  GenerationIdentifiesOutputs
  ImplementsContract
