CONSTANTS
  Threads = {t1, t2}
  External = TRUE
  FailOpen = FALSE
  StoreFails = FALSE
  MaxRounds = 2
  MayPanic = FALSE
  MaxTurns = 2
SPECIFICATION SessSpec
INVARIANT ClearTakesEffect
