SPECIFICATION SyncSpec
CONSTANTS
  p1 = p1  p2 = p2  dev = dev  ops = ops  None = None
  Proc = {p1, p2}
  User = {dev, ops}
  Admins = {}
  Version = {1, 2}
  Latest = {1, 2}
  Tag = {"latest", "next"}
  Calls = {}
  MaxCalls = 3
  Alone = 0
  MaxFaults = 2
  Tasks <- SomeTasks
  DeleteModes <- Modes

SYMMETRY Symmetry
INVARIANTS ListedServed
PROPERTIES SyncConverges SyncRecovers
CHECK_DEADLOCK FALSE
