SPECIFICATION Spec
CONSTANTS
  NumLines = 2
  BatchSizes = {2}
  MaxDV = 2
INVARIANT AllocatedBeforeMerge
