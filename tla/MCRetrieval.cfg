CONSTANTS
  Chunks = {1, 2, 3}
  TopK = 2
  Multiplier = 1
  RRFK = 60
  Shortlist = 1
  TextLength <- McTextLength
  PrefixLength = 1
  MaxChars = 8
  Budget <- McBudget
  Similarities <- McSimilarities
  Words = {0, 1}
  Threshold = 0
  Outside = {3}
  Lengths = {2, 3}
  MaxTurns = 2
  MaxAnswer = 3
  MaxMissing = 1
  MaxChanges = 2
  MaxFaults = 1

SPECIFICATION RSpec
CHECK_DEADLOCK FALSE
INVARIANTS
  HitsSound
  FusionRespects
  DegradesHonestly
  PromptWithinBudget
