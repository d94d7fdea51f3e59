CONSTANTS
  NJobs = 2
  KServers = 2
  Servers <- MCServers
  CanServe <- MCCanServe
  ArrivalRate <- MCArrivalRate
  TickRate = 1
  Mu <- MCMu
  CostRate <- MCCostRate
  DueTime <- MCDueTime
  Depth = 1
  SortDescending = TRUE
  PerEventMode = FALSE
  EnableSkipAll = TRUE
  ForceLateService = FALSE
  MaxAge = 3
SPECIFICATION IdlingSpec
INVARIANTS
  IdlingCommitted
