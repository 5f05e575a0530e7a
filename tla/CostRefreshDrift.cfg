\* a via under another net's wire in the same batch
SPECIFICATION Spec
CONSTANTS
  Track = {"h", "v"}
  Len1 = 3
  Nets = {n1, n2}
  Routes <- MCCrossingRoutes
  Limit = 3
INVARIANT DemandNonNegative
CHECK_DEADLOCK FALSE
