SPECIFICATION Spec
CONSTANTS
  Sizes <- ReadmeSizes
  Islands <- ReadmeIslands
  CppAddrs <- ReadmeCppAddrs
  XpbAddrs <- ReadmeXpbAddrs
  DebugBuild = TRUE
INVARIANT EveryAddressServed
