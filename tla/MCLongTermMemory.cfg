CONSTANTS
  Parents <- McParents
  Listing <- McListing
  PathOf <- McPathOf
  Counts <- McCounts
  Memories <- McMemories
  ScopeOf <- McScopeOf
  Scopes <- McScopes
  Clients = {c1, c2}
  Sources = {"pool", "config", "conn"}
  Namespace = "a"
  TopK = 2
  TTL = 1
  MaxTime = 2
  MaxOps = 3
  MaxFaults = 1

SPECIFICATION LSpec
CHECK_DEADLOCK FALSE
SYMMETRY Symmetric
INVARIANTS
  RecallSound
  DeletedForGood
  PoolsAccounted
PROPERTIES
  StoreKeepsPromise
