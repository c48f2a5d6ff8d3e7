\* The client goes on after a restart without loading the program again.
CONSTANTS
  core1 = core1  core2 = core2  ctm = ctm  w1 = w1  br = br
  Core = {core1, core2}
  First = core1
  LastWord = 3
  Text = {w1, br}
  Ebreak = ebreak
  ZeroWord = zero
  CTM = ctm
  Bp <- Bps
  Write <- Writes
  Branch = br
  Plan <- Plans
  Reloads = FALSE
SPECIFICATION SessionSpec
INVARIANTS PromptMemory
