CONSTANTS
  NJobs = 3
  KServers = 2
  Servers <- MCServers
  CanServe <- MCCanServe
  ArrivalRate <- MCArrivalRate
  TickRate = 1
  Mu <- MCMu
  CostRate <- MCCostRate
  DueTime <- MCDueTime
  Depth = 1
  SortDescending = TRUE
  EnableSkipAll = FALSE
  ForceLateService = TRUE
  MaxAge = 2
  Modes = {TRUE}
SPECIFICATION Spec
INVARIANTS
  PolicyLegal
