CONSTANTS
  MDPs <- MCMDPs
  NumTrajectories = 4
  warmup_periods = 1
  periods_per_trajectory = 1
  max_periods_until_error = 2
SPECIFICATION Spec
INVARIANTS
  ReturnsAreOfOneTrajectory
