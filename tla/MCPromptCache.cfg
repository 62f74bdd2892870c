CONSTANTS
  Threads = {t1, t2}
  Keys = {k1, k2, k3}
  MaxEntries = 2
  LocalTTL = 2
  RemoteTTL = 2
  MaxTime = 4
  MaxOps = 4

SPECIFICATION CSpec
CHECK_DEADLOCK FALSE
SYMMETRY Symmetric
INVARIANTS
  LruExact
  AgeBounded
  ClearedForGood
