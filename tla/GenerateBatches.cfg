\* three nets; the GPU may return any conflict-free placement, also a partial one
SPECIFICATION WrapSpec
CONSTANTS
  X = 3
  Y = 4
  NetCnt = 3
  Footprints <- MCFootprints
  MAX_BATCH_SIZE = 2
INVARIANTS
  EveryNetOnce
  ReplayAccepts
  PathsAgreeOnMarks
PROPERTIES
  KeepsPartition
  Returns
CHECK_DEADLOCK FALSE
