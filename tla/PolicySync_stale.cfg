SPECIFICATION Spec
CONSTANTS
  Rollouts = {r1, r2}
  NumBuckets = 2
  MaxVersion = 4
  MaxPolicy = 1
  MaxRestarts = 1
  StorePersists = TRUE
  Archive <- OtherRun
INVARIANTS
  LatestApplied
CHECK_DEADLOCK FALSE
