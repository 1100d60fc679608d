SPECIFICATION Spec
CONSTANTS
  p1 = p1  p2 = p2  admin = admin  dev = dev  None = None
  Proc = {p1, p2}
  User = {admin}
  Admins = {admin}
  Version = {1, 2}
  Latest = {2}
  Tag = {"latest", "next"}
  Calls = {"publish", "remove", "tag", "deprecate", "owner", "block", "list"}
  MaxCalls = 3
  Alone = 1
  MaxFaults = 1

SYMMETRY ProcSymmetry
INVARIANTS TarballsKept NothingDangles DocumentsAgree
CHECK_DEADLOCK FALSE
