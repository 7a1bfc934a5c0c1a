SPECIFICATION Spec
CONSTANTS
  Maximize = TRUE
  Ks = {2}
  Values = {3, 6}
  MidSave = FALSE
  MaxEpochs = 3
  MaxRestarts = 1
INVARIANTS
  TopKRetained
CHECK_DEADLOCK FALSE
