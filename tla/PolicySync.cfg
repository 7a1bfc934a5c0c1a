SPECIFICATION Spec
CONSTANTS
  Rollouts = {r1, r2}
  NumBuckets = 2
  MaxVersion = 6
  MaxPolicy = 2
  MaxRestarts = 1
  StorePersists = FALSE
  Archive <- OtherRun
INVARIANTS
  TypeOK
  ServesPublished
  StoreConsistent
PROPERTIES
  ImplementsBroadcast
CHECK_DEADLOCK FALSE
