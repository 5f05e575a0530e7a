\* one thread on either path: what is lost is lost between the paths
SPECIFICATION Spec
CONSTANTS
  CpuThreads = {c1}
  GpuThreads = {g1}
  CHUNK = 2
  MaxNets = 3
INVARIANTS
  TotalIsSum
CHECK_DEADLOCK FALSE
