SPECIFICATION StreamSpec
CONSTANTS
  Threads = {t1, t2}
  None = None
  Capacity = 3
  NativeCapacity = 4
  FetchLimit = 3
  NativeLimit = 3
  MaxTrace = 2
  MaxEvents = 5
  WaitLimit = 2
  PollLimit = 1
  MaxBreaks = 1
INVARIANTS
  StoreInOrder
  MirrorComplete
  SeenFaithful
  NoSilentGap
PROPERTIES
  StreamSettles
CHECK_DEADLOCK FALSE
