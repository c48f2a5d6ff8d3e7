\* Three handles race for four bars, all by the scan: enough for one lock
\* file that fails.
CONSTANTS
  h1 = h1  h2 = h2  h3 = h3
  Free = Free
  Handle <- ThreeHandles
  Named = {}
  NumBars = 4
  Cfg0 = {1}
  Cfg1 = {0}
SPECIFICATION Spec
SYMMETRY Symmetric
INVARIANTS NoFalseExhaustion
