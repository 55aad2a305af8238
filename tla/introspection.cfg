CONSTANTS
  Names <- MCNames
  Cut <- MCCut
  Ranks = {1, 2}
  MaxRank = 1
  IOMax = 2
SPECIFICATION Spec
INVARIANTS
  AcceptsSupported
  NamesAddress
CHECK_DEADLOCK FALSE
