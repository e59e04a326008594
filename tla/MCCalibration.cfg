SPECIFICATION Spec
CONSTANTS
  Slots = {s1, s2}
  Raws = {0, 7, 40}
  TrueRatios = {500, 1400, 3000}
  Unit = 1000
  HostCounts = {30}
  MaxSamples = 3
  Free = Free
INVARIANTS
  TypeOK
  EwmaWithinSamples
  MultiplierBounded
CHECK_DEADLOCK FALSE
