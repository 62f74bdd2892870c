CONSTANTS
  Threads = {t1, t2, t3}
  ToolsMayClose = FALSE
  External = FALSE
  FailOpen = FALSE
  StoreFails = FALSE
  MaxRounds = 1
  MayPanic = FALSE
  MaxTurns = 1
SPECIFICATION Spec
SYMMETRY ThreadSymmetry
INVARIANTS
  StoreOutlivesOperations
  NoLostWakeup
  AdmittedNotCutShort
  ClosedForGood
