SPECIFICATION Spec
CONSTANTS
  Modes = {"failure_imagined_rl", "imagined_success_sft"}
  Bounded = TRUE
  MaxKl = 1
  Trajectories <- OneEach
  Tasks <- OneTask
  TaskId = 1
  Capacity = 2
  MaxUpdates = 1
  EvalEvery = 1
  SaveEvery = 1
  PerLease = TRUE
  InitAgain = FALSE
  MaxSteps = 3
  MaxRestarts = 2
  FullSteps = 3
  FullRestarts = 2
INVARIANTS
  FrozenModelKept
CHECK_DEADLOCK FALSE
