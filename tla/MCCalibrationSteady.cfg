SPECIFICATION Spec
CONSTANTS
  Slots = {s1}
  Raws = {40}
  TrueRatios = {2000}
  Unit = 1000
  HostCounts = {}
  MaxSamples = 3
  Free = Free
INVARIANTS
  Conservative
CHECK_DEADLOCK FALSE
