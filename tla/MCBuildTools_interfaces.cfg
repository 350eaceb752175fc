CONSTANTS
  Defs <- MCDefs
  Names <- MCNames
  Undefined = "none"
  Unset = "unset"
  Files = {0, 1, 2, 3}
  Porting = 0
  Additional = {3}
  FileOf <- MCFileOf
  Found <- MCFound
  Home <- MCHome
  Excluded = {"alloc"}
  Ignored = {"sin"}
  Roots <- MCRoots
  Programs <- MCGraphs
  Sources = {f1, f2}
  HostFiles = {f1}
  MaxVersion = 2
  MaxBuilds = 3
  SiteSets <- MCSiteSets
  Impls <- MCImpls
  Chosen <- MCChosen
  Address <- MCAddress
SPECIFICATION Spec
INVARIANT InterfaceReaches
CHECK_DEADLOCK FALSE
