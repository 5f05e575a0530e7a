\* MAX_PIN_SIZE = 2, nets of four to eight pins
SPECIFICATION Spec
CONSTANTS
  MAX_PIN_SIZE = 2
  Placements <- MCPlacements
INVARIANTS
  SubnetsFormATree
  ExcessIsLogarithmic
CHECK_DEADLOCK FALSE
