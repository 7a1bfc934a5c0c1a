SPECIFICATION BoundedSpec
CONSTANTS
  Modes = {"staged_full_cotrain", "failure_imagined_rl", "imagined_success_sft"}
  Bounded = TRUE
  MaxKl = 1
  Trajectories <- TwoWhenFull
  Tasks <- TwoTasksWhenFull
  TaskId = 1
  Capacity = 2
  MaxUpdates = 2
  EvalEvery = 2
  SaveEvery = 1
  PerLease = TRUE
  InitAgain = TRUE
  MaxSteps = 3
  MaxRestarts = 2
  FullSteps = 2
  FullRestarts = 1
INVARIANTS
  TypeOK
  LatentSpacesAgree
  OnPolicy
  WithinBudget
  OptimizerFollowsPolicy
  AppliedMatchesPolicy
  MetricOfSavedPolicy
  AnchorsFailed
  FrozenModelKept
CHECK_DEADLOCK FALSE
