CONSTANTS
  NJobs = 2
  KServers = 2
  Servers <- MCServers
  CanServe <- MCCanServe
  ArrivalRate <- MCArrivalRate
  TickRate = 1
  Mu <- MCMu
  CostRate <- MCCostRate
  DueTime <- MCDueTime
  Depth = 2
  SortDescending = TRUE
  PerEventMode = TRUE
  EnableSkipAll = FALSE
  ForceLateService = TRUE
  MaxAge = 2
SPECIFICATION FairSpec
INVARIANTS
  CounterReset
  LateNeverWaits
PROPERTIES
  EpochsEnd
