\* Mask/compare units that are not configured, and traces of cores of two groups.
CONSTANTS
  Settings = {s}
  Zero = zero
  MaskUnits = 2
  DetectUnits = 1
  Transitions = 1
  TransitionNums = 2
  TcamUnits = 1
  TriggerCounters = 1
  TraceMasks = 1
  Groups = {g, h}
  Cores = {c}
  NoCore = none
SPECIFICATION Spec
SYMMETRY Symmetric
INVARIANTS OneGroupOnBus EveryUnitAsAsked
