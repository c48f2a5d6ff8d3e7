\* One hart that steps: each step goes through CSR writes.
CONSTANTS
  k1 = k1  k2 = k2
  Hart = {k1}
  Op <- StepOps
  ProgLen = 3
  Brk = 2
  MaxWord = 31
  LateCalls = {}
  StuckHarts = FALSE
SPECIFICATION Spec
INVARIANTS A1Kept
