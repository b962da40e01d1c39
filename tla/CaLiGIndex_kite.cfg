SPECIFICATION FairSpec
CONSTANTS
  QV <- KiteQV
  QNei <- KiteQNei
  QLabel <- KiteQLabel
  DV <- KiteDV
  GLabel <- KiteGLabel
  NoLabel = "none"
  InitNei <- KiteInitNei
  Batches <- KiteBatches
  MaxBatches = 2
INVARIANTS
  TypeOK
  Sound
  Tight
  NoEdgeForgotten
  ListsInGraph
  ListsExact
PROPERTIES
  ImplementsIndexSpec
  BatchCompletes
CHECK_DEADLOCK FALSE
