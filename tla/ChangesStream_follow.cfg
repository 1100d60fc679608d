SPECIFICATION StreamSpec
CONSTANTS
  e1 = e1  e2 = e2  npm = npm  other = other  self = self  a = a  b = b  sc = sc  None = None
  Executor = {e1, e2}
  Registry = {npm, other}
  Default = npm
  Self = self
  Package = {a, b}
  Scope = {sc}
  ScopeOf <- Scoped
  Kinds <- Upstreams
  Back = 1
  Limit = 1
  MaxLimit = 2
  MaxEvents = 3
  MaxFaults = 1

SYMMETRY ExecutorSymmetry
INVARIANTS NothingSkipped ExactlyOne
PROPERTIES HomeStays
CHECK_DEADLOCK FALSE
