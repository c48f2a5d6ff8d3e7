\* Two harts of one group, driven as the server drives them; they may stop answering.
CONSTANTS
  k1 = k1  k2 = k2
  Hart = {k1, k2}
  Op <- ServerOps
  ProgLen = 3
  Brk = 2
  MaxWord = 31
  LateCalls = {"read_rfpc_reg", "write_rfpc_reg"}
  StuckHarts = TRUE
SPECIFICATION FairSpec
INVARIANTS TypeOK NoCommandFails CauseIsRight
PROPERTIES CallsEnd ImplementsHartDebug
\* The process exits when a wait times out.
CHECK_DEADLOCK FALSE
