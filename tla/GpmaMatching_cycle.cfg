SPECIFICATION GpmaSpec
CONSTANTS
  QV <- CycleQV
  QNei <- CycleQNei
  Directions <- CycleDirections
  QLabel <- CycleQLabel
  DV <- CycleDV
  GLabel <- CycleGLabel
  NoLabel = "none"
  InitNei <- CycleInitNei
  Batches <- CycleBatches
  MaxBatches = 2
  MAX_ECOUNT = 42
  EdgeOf <- CycleEdgeOf
  Order <- CycleOrder
  First <- CycleFirst
  IndexOrder <- CycleIndexOrder
  Rebuild <- CycleRebuild
INVARIANT MatchesCounted
CHECK_DEADLOCK FALSE
