\* files of one to three nets with no, one or two subnets each
SPECIFICATION Spec
CONSTANTS
  MaxNets = 3
  MaxParts = 2
INVARIANTS
  SplitsReadyNets
  NothingLost
  OneUser
  WrittenIsFinal
  EveryNetWritten
PROPERTY Closes
CHECK_DEADLOCK FALSE
