\* The analyzer has captured nothing yet.
CONSTANTS
  Depth = 4
  PtrMod = 16
  NumWords = {2}
  MaxWords = 6
  DebugBuild = TRUE
  Setups <- Matching
  Timestamp = timestamp
  Foreign = foreign
SPECIFICATION TableSpec
INVARIANTS WaitsForSamples
