SPECIFICATION Spec
CONSTANTS
  NumTasks = 2
  Capacity = 5
  SeqLen = 2
  WindowEnv = 2
  Stride = 1
  RecentCount = 1
  Recipes <- Shipped
  Episodes <- TwoTasks
  Workers = {w1, w2}
  NumSlots = 4
  ActorRanks = 4
  PerStep = 2
  BatchSize = 2
  WindowBatch = 3
  NoRecord = NoRecord
  MaxSteps = 2
  MaxUpdates = 4
  MaxLeases = 3
  MaxAdds = 3
SYMMETRY Interchangeable
INVARIANTS
  TypeOK
  OnlyThisDataset
  LatestLeads
  DrawnEvenly
  StartsAligned
PROPERTIES
  EarlyNegativeFollows
CHECK_DEADLOCK FALSE
