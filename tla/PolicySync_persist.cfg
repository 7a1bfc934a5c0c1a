SPECIFICATION FairSpec
CONSTANTS
  Rollouts = {r1, r2}
  NumBuckets = 2
  MaxVersion = 4
  MaxPolicy = 1
  MaxRestarts = 1
  StorePersists = TRUE
  Archive <- OtherRun
INVARIANTS
  NeverBehind
PROPERTIES
  SyncEnds
CHECK_DEADLOCK FALSE
