SPECIFICATION IndexSpec
CONSTANTS
  Rows = {1, 2, 3}
  InitialCapacities = {2}
  MaxCrashes = 2
  MaxFailures = 1
CHECK_DEADLOCK FALSE
INVARIANT PairAlwaysMatches
