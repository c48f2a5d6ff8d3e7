\* One session after another, each asking for any of the units.
CONSTANTS
  Settings = {s}
  Zero = zero
  MaskUnits = 2
  DetectUnits = 1
  Transitions = 1
  TransitionNums = 2
  TcamUnits = 1
  TriggerCounters = 1
  TraceMasks = 1
  Groups = {g, h}
  Cores = {c, d}
  NoCore = none
SPECIFICATION Spec
SYMMETRY Symmetric
INVARIANTS TypeOK AppliedAsAsked
