SPECIFICATION Spec
CONSTANTS
  NetCnt = 6
  Cell <- MCCell
  Footprints <- MCFootprints
  MaxBatchSize = 2
  Ring = 2
  MinWavefront = 1
  InitialWavefront = 2
  MaxWavefront = 3
  ShrinkRatio = 3
  MaxStalled = 4
INVARIANTS
  TypeOK
  ConflictFree
  NoOvertaking
  FirstFitAmongOpen
  BatchSizeBound
  EveryRoundPlaces
  WavefrontFitsBuffers
  IInv
  ResultComplete
PROPERTIES
  ImplementsPartition
  Terminates
CHECK_DEADLOCK FALSE
