SPECIFICATION MSpec
CONSTANTS
  QV <- DoubleQV
  QNei <- DoubleQNei
  Directions <- DoubleDirections
  QLabel <- DoubleQLabel
  DV <- DoubleDV
  GLabel <- DoubleGLabel
  NoLabel = "none"
  InitNei <- DoubleInitNei
  Batches <- DoubleBatches
  MaxBatches = 2
  MAX_ECOUNT = 42
  EdgeOf <- DoubleEdgeOf
  Order <- DoubleOrder
  First <- DoubleFirst
  IndexOrder <- DoubleIndexOrder
  Rebuild <- DoubleRebuild
INVARIANTS
  MatchesCounted
CHECK_DEADLOCK FALSE
