\* Both tables are new, and history_tasks gets a row before the first task is gone.
SPECIFICATION Spec
CONSTANTS
  Change = {"k1", "k2"}
  Details <- OneDetail
  Queries = 1
  MaxHook = 1
  Query <- OnFirstLookup
  InitialHooks = 1
  Others = {}
  PageSize = 1
  HooksLimit = 1
  Creator = {"c1"}
  Triggerer = {"t1"}
  Owner = {}
  MaxRow = 4
  HistoryStart = 1
  MaxUpdates = 0
  MaxFaults = 0

INVARIANTS IdsFound
CHECK_DEADLOCK FALSE
