CONSTANTS
  Indexes = {0, 1, 2, 3}
  QueryEdges = {0, 1}
  Directions <- MCDirections
  Scripts <- MCScripts
  WARP_SIZE = 2
  MIN_NBR_SIZE = 8
  NUM_WARPS = 2
SPECIFICATION Spec
INVARIANTS PoolRead MirrorRead
