SPECIFICATION StartupSpec
CONSTANTS
  MAX_ECOUNT = 10
  Jump = 4
  Inputs <- SmallInputs
  MAX_VCOUNT = 12
  BinLabels = {0, 1}
  Statistics <- SmallStatistics
  Variants = {"global", "gsi", "edge", "forced"}
INVARIANTS
  LoadersAgree
  DataLoaded
  PlanUsable
  FlagsAgree
  StartRebuilt
  ProductIndependent
  BackwardDecoded
CHECK_DEADLOCK FALSE
