SPECIFICATION Spec
CONSTANTS
  Threads = {t1, t2}
  MaxCalls = 2
  None = None
INVARIANTS
  FailureReported
  SuccessCommitted
  CommittedSucceedsAlone
CHECK_DEADLOCK FALSE
