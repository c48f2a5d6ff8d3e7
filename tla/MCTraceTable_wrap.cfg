\* The pointers wrap, in a release build.
CONSTANTS
  Depth = 4
  PtrMod = 8
  NumWords = {3}
  MaxWords = 14
  DebugBuild = FALSE
  Setups <- Matching
  Timestamp = timestamp
  Foreign = foreign
SPECIFICATION TableSpec
INVARIANTS NoReadBeyond
