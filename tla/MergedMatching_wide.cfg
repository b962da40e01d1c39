SPECIFICATION MSpec
CONSTANTS
  QV <- WideQV
  QNei <- WideQNei
  Directions <- WideDirections
  QLabel <- WideQLabel
  DV <- WideDV
  GLabel <- WideGLabel
  NoLabel = "none"
  InitNei <- WideInitNei
  Batches <- WideBatches
  MaxBatches = 1
  MAX_ECOUNT = 42
  EdgeOf <- WideEdgeOf
  Order <- WideOrder
  First <- WideFirst
  IndexOrder <- WideIndexOrder
  Rebuild <- WideRebuild
INVARIANTS
  MatchesCounted
CHECK_DEADLOCK FALSE
