CONSTANTS
  Keys <- MCKeys
  Values <- MCValues
  CutKey <- MCCutKey
  CutValue <- MCCutValue
  Latin1 <- MCLatin1
  Empty = ""
  KeyCap = 2
  MaxEntries = 3
SPECIFICATION Spec
INVARIANTS
  ReleaseExact
  EntriesAreTheModels
  MetadataExact
