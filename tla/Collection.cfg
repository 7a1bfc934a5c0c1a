SPECIFICATION FairSpec
CONSTANTS
  NumItems = 3
  NumEnvs = 2
  MaxDumps = 2
  NumInfer = 1
  Configs <- TwoConfigs
  Horizon = 2
  Chunk = 2
  MaxRespawns = 1
  MaxLaunches = 2
INVARIANTS
  TypeOK
  KeptOnDisk
  PairsAgree
  ManifestTruthful
  RunCollects
  OwnActions
PROPERTIES
  RunEnds
CHECK_DEADLOCK FALSE
