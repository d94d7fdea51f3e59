CONSTANTS
  WorldSize = 3
  HardwareThreads <- MCHardwareThreads
  N = 5
  num_gens = 2
  delete_samples_after_training = FALSE
  keep_samples_lastgen_only = TRUE
  MiniBatchSizes = {4, 64}
  DP_TORCH_AVAILABLE = TRUE
  SupportsGetStateFromVarGroup = TRUE
  MaxRuns = 2
SPECIFICATION Spec
INVARIANTS
  SampleFileExact
  SeedsNeverReused
  OnlyFaultsStopRanks
PROPERTIES
  BarriersAligned
  EveryRankFinishes
