SPECIFICATION FairSpec
CONSTANTS
  NGpu = 3
  RealWorkers = 2
  WMWorkers = 2
  Slots = {s1, s2}
  Recipes <- BothRunners
  Dynamic = TRUE
  LeaseEpochs = 2
  OneTrajectory = TRUE
  FinalBootstrap = TRUE
  Timeouts = TRUE
  MaxSteps = 2
INVARIANTS
  TypeOK
  OneDecisionPolicy
  EverySlotDelivers
  ChannelsDrained
  FailsOnlyOnFault
  LeasesConserved
PROPERTIES
  StepsComplete
  AnswersOnce
  InteractionEnds
CHECK_DEADLOCK FALSE
