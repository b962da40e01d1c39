SPECIFICATION Spec
CONSTANTS
  capability = 40
  QV_COUNT = 5
  MIN_NRESULTS_TO_GPU = 6
  SIZE_SPACE = 8
  Searches <- SmallSearches
  NumBatches = 2
INVARIANTS
  LevelIntact
  CountedOnce
PROPERTIES
  LevelKept
  MasksCurrent
CHECK_DEADLOCK FALSE
