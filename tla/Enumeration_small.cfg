SPECIFICATION Spec
CONSTANTS
  QV_COUNT = 5
  DV_COUNT = 11
  Edges <- MCEdges
  IndexingOrders <- MCIndexingOrders
  Bits = {0, 1}
  computeSupportBit <- MCComputeSupportBit
  WARP_SIZE = 2
  Searches <- MCSearches
  Limits = {3, 40}
  Resident = 3
INVARIANTS
  NothingLost
  NothingTwice
  RegionKept
PROPERTIES
  LaunchEnds
CHECK_DEADLOCK FALSE
