\* A breakpoint in local memory and two cores.
CONSTANTS
  core1 = core1  core2 = core2  ctm = ctm  w1 = w1  w2 = w2
  Core = {core1, core2}
  First = core1
  LastWord = 1
  Text = {w1, w2}
  Ebreak = ebreak
  ZeroWord = zero
  CTM = ctm
  Bp <- LmemBp
  Write <- NoWrites
SPECIFICATION Spec
INVARIANTS TextKept
