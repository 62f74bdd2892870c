CONSTANTS
  Threads = {t1, t2}
  External = FALSE
  FailOpen = FALSE
  StoreFails = FALSE
  MaxRounds = 2
  MayPanic = FALSE
  MaxTurns = 3
SPECIFICATION FairSessSpec
INVARIANTS
  HistoryIsRecentAnswers
PROPERTIES
  CloseIsFinal
  KeepsPromise
  CallsReturn
