SPECIFICATION GateSpec
CONSTANTS
  Documents <- MCDocuments
  IntMax = 15
  Separators = 1
INVARIANTS
  ValidatedPrepares
  CompletedIsValid
CHECK_DEADLOCK FALSE
