CONSTANTS
  NJobs = 2
  KServers = 2
  Servers <- MCServers
  CanServe <- MCCanServe
  ArrivalRate <- MCArrivalRate
  TickRate = 1
  Mu <- MCMu
  CostRate <- MCCostRate
  DueTime <- MCDueTime
  Depth = 2
  SortDescending = TRUE
  PerEventMode = FALSE
  EnableSkipAll = FALSE
  ForceLateService = FALSE
  MaxAge = 3
SPECIFICATION Spec
PROPERTIES
  StoresOnlyPresentJobs
