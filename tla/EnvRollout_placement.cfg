SPECIFICATION FairSpec
CONSTANTS
  NGpu = 2
  RealWorkers = 2
  WMWorkers <- PlacedWMWorkers
  Slots = {s1, s2}
  Recipes <- Placed
  Dynamic = FALSE
  LeaseEpochs = 1
  OneTrajectory = TRUE
  FinalBootstrap = FALSE
  Timeouts = FALSE
  MaxSteps = 1
PROPERTIES
  StepsComplete
CHECK_DEADLOCK FALSE
