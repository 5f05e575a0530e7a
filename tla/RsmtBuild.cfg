SPECIFICATION TreesSpec
CONSTANTS
  c1 = c1
  c2 = c2
  g1 = g1
  g2 = g2
  CpuThreads <- MCCpuThreads
  GpuThreads <- MCGpuThreads
  CHUNK = 2
  MaxNets = 5
  DEGREE = 5
  POWV <- MCPOWV
  POST <- MCPOST
  kThrustSortDegree = 9
  Designs <- MCDesigns
SYMMETRY Symmetry
INVARIANTS
  EveryTreeBuiltOnce
  TreesMatchFlute
  RsmtIsSteinerTree
CHECK_DEADLOCK FALSE
