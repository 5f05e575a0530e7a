\* labelled trees of two to six nodes, kernels of at most six branches
SPECIFICATION Spec
CONSTANTS
  X = 3
  Y = 2
  MaxNodes = 6
  MaxDeviceBranches = 5
  MaxDagNodes = 3
  MaxViewBranches = 2
  L = 2
  DIR = 1
  of_threshold = 0
  OF_COUNT = 1
  Loads <- MCLoads
  Leftovers <- MCLeftovers
  Routes <- MCRoutes
  Launches <- MCLaunches
  Garbage = {0, 7}
INVARIANTS
  PeelFindsCenter
  KernelAgreesWithHost
  OverflowIsFound
  DagIsSound
  TracebackIsATree
CHECK_DEADLOCK FALSE
