\* Breakpoints in CTM and in local memory while two cores take turns.
CONSTANTS
  core1 = core1  core2 = core2  ctm = ctm  w1 = w1  w2 = w2
  Core = {core1, core2}
  First = core1
  LastWord = 3
  Text = {w1, w2}
  Ebreak = ebreak
  ZeroWord = zero
  CTM = ctm
  Bp <- BothBps
  Write <- CtmWrites
SPECIFICATION Spec
INVARIANTS TypeOK MemoryIsPatchedText
CONSTRAINT NotStrayed
SYMMETRY Symmetry
