\* Two handles, one allocated by the scan and one built for a given bar.
CONSTANTS
  h1 = h1  h2 = h2  h3 = h3
  Free = Free
  Handle <- TwoHandles
  Named = {h2}
  NumBars = 2
  Cfg0 = {1, 2}
  Cfg1 = {0, 1}
SPECIFICATION Spec
INVARIANTS TypeOK LocksMatchHandles AccessUsesOwnConfig CacheMatchesRegisters
PROPERTIES ImplementsPool
