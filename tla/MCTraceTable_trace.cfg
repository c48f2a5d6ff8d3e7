\* The analyzer drops or overwrites words when the FIFO is full; the pointers do not wrap.
CONSTANTS
  Depth = 4
  PtrMod = 16
  NumWords = {0, 2, 4, 5}
  MaxWords = 12
  DebugBuild = TRUE
  Setups <- Matching
  Timestamp = timestamp
  Foreign = foreign
SPECIFICATION TableFairSpec
INVARIANTS TypeOK SamplesInOrder NoReadBeyond CellsUnderTheirHeaders
PROPERTIES TraceEnds
