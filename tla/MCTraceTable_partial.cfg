\* Traces that end within a sample, and a FIFO that overflows.
CONSTANTS
  Depth = 4
  PtrMod = 16
  NumWords = {2, 3, 4}
  MaxWords = 10
  DebugBuild = TRUE
  Setups <- Matching
  Timestamp = timestamp
  Foreign = foreign
SPECIFICATION TableSpec
INVARIANTS EveryTableRight
