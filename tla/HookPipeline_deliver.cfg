SPECIFICATION FairSpec
CONSTANTS
  Change = {"k1"}
  Details <- TwoDetails
  Queries = 2
  MaxHook = 2
  Query <- OnFirstLookup
  InitialHooks = 1
  Others = {1}
  PageSize = 1
  HooksLimit = 1
  Creator = {"c1"}
  Triggerer = {"t1"}
  Owner = {"o1"}
  MaxRow = 4
  HistoryStart = 1
  MaxUpdates = 1
  MaxFaults = 1

INVARIANTS TypeOK IdsResolve CalledOnce DeletedStaysDeleted PipelineHolds
PROPERTIES EveryTriggerEnds EveryHookCalled
CHECK_DEADLOCK FALSE
