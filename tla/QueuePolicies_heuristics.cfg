CONSTANTS
  NJobs = 3
  KServers = 2
  Servers <- MCServers
  CanServe <- MCCanServe
  ArrivalRate <- MCArrivalRate
  TickRate = 1
  Mu <- MCMu
  CostRate <- MCCostRate
  DueTime <- MCDueTime
  Depth = 1
  SortDescending = TRUE
  EnableSkipAll = FALSE
  ForceLateService = FALSE
  MaxAge = 2
  Modes = {TRUE, FALSE}
SPECIFICATION Spec
INVARIANTS
  PolicyLegal
  WorkConserving
  EnforcedIsGreedy
PROPERTIES
  HonoursItsOrder
  FifoServesOldest
