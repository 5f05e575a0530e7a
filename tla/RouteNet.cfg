CONSTANTS
  X = 3
  Y = 2
  L = 3
  DIR = 1
  Inf = 100000
  MaxN = 7
  Shapes <- MCShapes
  Trees <- MCTrees
  Costs <- MCCosts
SPECIFICATION RouteSpec
INVARIANTS
  PrefixSums
  StageOneIsOptimal
  StageTwoIsOptimal
  EvaluatorAccepts
  DemandAgrees
PROPERTY ImplementsDetourDag
CHECK_DEADLOCK FALSE
