CONSTANTS
  Threads = {t1, t2}
  FailureThreshold = 2
  HalfOpenMaxCalls = 2
  Burst = 1
  RetryMaxAttempts = 2
  MaxLeaks = 2
SPECIFICATION FairGovSpec
INVARIANTS
  ProbeCountExact
  OnePrefix
PROPERTIES
  TripsOnlyOnStreak
  OpenHoldsItsWindow
  BreakerRecovers
