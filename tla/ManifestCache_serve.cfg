SPECIFICATION CacheSpec
CONSTANTS
  p1 = p1  p2 = p2
  Process = {p1, p2}
  MaxRev = 2
  MaxFaults = 1

SYMMETRY ProcessSymmetry
INVARIANTS CacheFresh ServedWhole RefreshReaches
CHECK_DEADLOCK FALSE
