SPECIFICATION FairSpec
CONSTANTS
  t1 = t1  t2 = t2  t3 = t3  v1 = v1  v2 = v2
  w1 = w1  w2 = w2  w3 = w3  c1 = c1  c2 = c2
  NoTask = NoTask  NoBizId = NoBizId
  TaskId = {t1, t2}
  Version = {}
  Client = {c1}
  Worker = {w1}
  Handler = {"h1"}
  Type = "trigger_hook"
  Target <- OneTarget
  BizId <- OneBizId
  Request <- FullRequests
  HighWater = 1
  MaxAttempts = 2
  MaxRetries = 0
  MaxFaults = 1

INVARIANTS IdsResolve
PROPERTIES EveryTaskFinishes
CHECK_DEADLOCK FALSE
