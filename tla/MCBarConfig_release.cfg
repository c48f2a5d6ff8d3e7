SPECIFICATION Spec
CONSTANTS
  Sizes <- MCSizes
  Islands <- MCIslands
  CppAddrs <- MCCppAddrs
  XpbAddrs <- MCXpbAddrs
  DebugBuild = FALSE
INVARIANTS TypeOK DeviceDecodesRequest EveryAddressServed
