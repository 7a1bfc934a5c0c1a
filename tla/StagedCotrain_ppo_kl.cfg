SPECIFICATION Spec
CONSTANTS
  Modes = {"staged_full_cotrain", "failure_imagined_rl"}
  Bounded = TRUE
  MaxKl = 1
  Trajectories <- OneEach
  Tasks <- OneTask
  TaskId = 1
  Capacity = 2
  MaxUpdates = 2
  EvalEvery = 1
  SaveEvery = 1
  PerLease = FALSE
  InitAgain = TRUE
  MaxSteps = 1
  MaxRestarts = 0
  FullSteps = 1
  FullRestarts = 0
INVARIANTS
  CommittedWithinBudget
CHECK_DEADLOCK FALSE
