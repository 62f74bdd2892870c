CONSTANTS
  r1 = r1
  p1 = p1
  p2 = p2
  f1 = f1
  Threads = {t1, t2}
  Roots <- OneRoot
  Under <- OneFile
  FilePaths = {f1}
  EmptyFiles = TRUE
  RawPaths = FALSE
  Failures = TRUE
  Crashes = TRUE
  MaxEdits = 2
  MaxOps = 2
SPECIFICATION FairKSpec
CHECK_DEADLOCK FALSE
INVARIANTS
  RetryRepairs
PROPERTIES
  ForgetsOnlyDeleted
  OperationsReturn
