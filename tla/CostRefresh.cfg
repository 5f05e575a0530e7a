\* two nets over both stages, all mixes of the three switches; a list of three
\* slots fills up in some batches and not in others
SPECIFICATION Spec
CONSTANTS
  Track = {"h", "v"}
  Len1 = 3
  Nets = {n1, n2}
  Routes <- MCRoutes
  Limit = 3
INVARIANTS
  CostsFresh
  DemandMatchesRoutes
CHECK_DEADLOCK FALSE
