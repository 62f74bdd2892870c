CONSTANTS
  Threads = {t1, t2}
  ToolsMayClose = FALSE
  External = TRUE
  FailOpen = FALSE
  StoreFails = TRUE
  MaxRounds = 1
  MayPanic = TRUE
  MaxTurns = 1
SPECIFICATION FairSpec
PROPERTY AgentCloses
