SPECIFICATION FilesSpec
CONSTANTS
  p1 = p1  p2 = p2
  Process = {p1, p2}
  Seconds = 2
  Delay = 1
  MaxTime = 5
  MaxFaults = 1
  Path = {1, 2}
  MaxPubs = 2

SYMMETRY ProcessSymmetry
INVARIANTS UnpackedWhole FilesServed LeasesExclusive LockExpires LockInductive
CHECK_DEADLOCK FALSE
