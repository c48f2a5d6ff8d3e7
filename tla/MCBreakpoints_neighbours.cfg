\* Breakpoints on neighbouring words of local memory.
CONSTANTS
  core1 = core1  core2 = core2  ctm = ctm  w1 = w1  w2 = w2
  Core = {core1}
  First = core1
  LastWord = 2
  Text = {w1, w2}
  Ebreak = ebreak
  ZeroWord = zero
  CTM = ctm
  Bp <- LmemNeighbours
  Write <- NoWrites
SPECIFICATION Spec
INVARIANTS BreakpointsArmed
