CONSTANTS
  NJobs = 2
  KServers = 2
  Servers <- MCServers
  CanServe <- MCCanServe
  ArrivalRate <- MCArrivalRate
  TickRate = 1
  Mu <- MCMu
  CostRate <- MCCostRate
  DueTime <- MCDueTime
  Depth = 2
  SortDescending = FALSE
  PerEventMode = FALSE
  EnableSkipAll = TRUE
  ForceLateService = FALSE
  MaxAge = 2
SPECIFICATION Spec
INVARIANTS
  TypeOK
  PoolCapacity
  ArrivalRateExact
  UniformizationExact
  QueueFresh
  RefreshSound
  DecisionLegal
  LineInOrder
PROPERTIES
  ImplementsMultiSkillQueue
  RevealedIsYounger
