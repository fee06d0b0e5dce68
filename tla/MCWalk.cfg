CONSTANTS
  r = r  s = s  m = m  mm = mm  q = q  f = f  g = g  h = h  i = i  k = k  disk = disk  usb = usb
  toRoot = toRoot  toS = toS  toFile = toFile  toM = toM  toNone = toNone
  Failed = Failed
  Paths <- MCPaths
  PathOf <- MCPathOf
  Kind <- MCKind
  Target <- MCTarget
  Dangling = "none"
  Dev <- MCDev
  IgnoredBy <- MCIgnoredBy
  Scenarios <- MCScenarios
SPECIFICATION Spec
INVARIANTS
  FindsAllRoutes
  FoundOnce
  CyclesCut
