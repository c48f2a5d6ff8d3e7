\* Three words of the bus from the middle one, and the example of format_uncomp_trace.
CONSTANTS
  Depth = 4
  PtrMod = 16
  NumWords = {2, 3, 4}
  MaxWords = 10
  DebugBuild = TRUE
  Setups <- Others
  Timestamp = timestamp
  Foreign = foreign
SPECIFICATION TableSpec
INVARIANTS CellsUnderTheirHeaders
