SPECIFICATION Spec
CONSTANTS
  Threads = {t1, t2}
  Models = {m1, m2}
  ExplicitIds <- MCExplicitIds
  NoId = NoId
  x = x
  donorA = donorA
  donorB = donorB
  LeaseIds = {donorA, donorB}
  LeaseOutcomes <- MCLeaseOutcomes
  MaxEvents = 5
  MaxRecent = 2
  MaxCompressed = 1
  MaxCalls = 3
  MaxReports = 2
  None = None
INVARIANTS
  EventLogWhole
  LeaseLedger
  NoSampleLost
  SnapshotMatchesState
  RecentFaithful
  CalibrateOncePerPrepare
  CalibratesPreparedModel
SYMMETRY Symmetry
CHECK_DEADLOCK FALSE
