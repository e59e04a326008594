SPECIFICATION Spec
CONSTANTS
  Threads = {t1, t2}
  MaxCalls = 2
  None = None
INVARIANTS
  FailedPrepareLeavesNothing
CHECK_DEADLOCK FALSE
