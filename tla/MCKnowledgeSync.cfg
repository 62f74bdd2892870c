CONSTANTS
  r1 = r1
  p1 = p1
  p2 = p2
  f1 = f1
  Threads = {t1, t2}
  Roots <- OneRoot
  Under <- TwoFiles
  FilePaths = {f1}
  EmptyFiles = FALSE
  RawPaths = FALSE
  Failures = FALSE
  Crashes = FALSE
  MaxEdits = 2
  MaxOps = 3
SPECIFICATION KSpec
CHECK_DEADLOCK FALSE
SYMMETRY ThreadSymmetry
INVARIANTS
  MirrorsSource
  StaysSearchable
