SPECIFICATION Spec
CONSTANTS
  NumLines = 3
  BatchSizes = {1, 2, 3, 4}
  MaxDV = 0
INVARIANT EveryLineIndexed
