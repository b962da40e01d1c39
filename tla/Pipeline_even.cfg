SPECIFICATION FairSpec
CONSTANTS
  NumLines = 4
  BatchSizes = {2, 4, 6, 9}
  MaxDV = 2
INVARIANTS
  StagedBeforeUse
  EveryLineIndexed
PROPERTIES
  PublishedIsStable
  AllBatchesMerged
