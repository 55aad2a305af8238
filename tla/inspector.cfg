CONSTANTS
  Int32Max = 16
  SizeMod = 64
  MaxRank = 2
  Models <- MCModels
  TypedShapes <- MCTypedShapes
  TypedLengths = {2, 4}
  Contents = {"made up", "typed"}
  MadeUp = "made up"
  MaxVisible = 2
  BatchCounts = {1, 2}
  None = None
SPECIFICATION Spec
INVARIANTS
  PanelsMatchModel
  BindingsComplete
PROPERTY ShownAnswersEditors
