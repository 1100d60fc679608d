SPECIFICATION Spec
CONSTANTS
  t1 = t1  t2 = t2  t3 = t3  v1 = v1  v2 = v2
  w1 = w1  w2 = w2  w3 = w3  c1 = c1  c2 = c2
  NoTask = NoTask  NoBizId = NoBizId
  TaskId = {t1}
  Version = {}
  Client = {c1}
  Worker = {w1, w2}
  Handler = {"h1"}
  Type = "sync_package"
  Target <- OneTarget
  BizId <- NoBizIds
  Request <- FullRequests
  HighWater = 1
  MaxAttempts = 2
  MaxRetries = 1
  MaxFaults = 1
SYMMETRY WorkerSymmetry
INVARIANTS TypeOK IdsResolve OneHolder StartsLimited Inductive
PROPERTIES VerdictFinal ImplementsLifecycle
CHECK_DEADLOCK FALSE
