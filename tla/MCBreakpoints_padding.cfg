\* Writes of one word.
CONSTANTS
  core1 = core1  core2 = core2  ctm = ctm  w1 = w1  w2 = w2
  Core = {core1}
  First = core1
  LastWord = 3
  Text = {w1, w2}
  Ebreak = ebreak
  ZeroWord = zero
  CTM = ctm
  Bp <- NoBps
  Write <- WordWrites
SPECIFICATION Spec
INVARIANTS TextKept
