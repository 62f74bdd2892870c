CONSTANTS
  Threads = {t1, t2}
  External = TRUE
  FailOpen = FALSE
  StoreFails = TRUE
  MaxRounds = 1
  MayPanic = TRUE
  MaxTurns = 2
SPECIFICATION SessSpec
SYMMETRY ThreadSymmetry
INVARIANTS
  OneAtATime
  EmittingExact
  FailedTurnHonoursClear
