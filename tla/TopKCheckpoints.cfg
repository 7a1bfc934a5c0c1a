SPECIFICATION Spec
CONSTANTS
  Maximize = TRUE
  Ks = {2, 3}
  Values = {2, 4, 6}
  MidSave = TRUE
  MaxEpochs = 3
  MaxRestarts = 2
INVARIANTS
  TypeOK
  DirectoryTrue
  BestSurvives
CHECK_DEADLOCK FALSE
