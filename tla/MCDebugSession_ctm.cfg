\* Two cores that execute one program in CTM with breakpoints next to each other.
CONSTANTS
  core1 = core1  core2 = core2  ctm = ctm  w1 = w1  br = br
  Core = {core1, core2}
  First = core1
  LastWord = 3
  Text = {w1, br}
  Ebreak = ebreak
  ZeroWord = zero
  CTM = ctm
  Bp <- Bps
  Write <- Writes
  Branch = br
  Plan <- Plans
  Reloads = TRUE
SPECIFICATION SessionSpec
INVARIANTS SessionTypeOK StopsAsAsked PromptMemory
PROPERTIES ExecutesText BackAtPrompt
