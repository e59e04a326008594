SPECIFICATION Spec
CONSTANTS
  Threads = {t1, t2, t3}
  None = None
  Kinds = {"go", "dotnet", "python"}
  MaxCounters = 3
INVARIANTS
  CallsUseLiveHandle
  CallsLiveCallback
  NothingLeftBehind
