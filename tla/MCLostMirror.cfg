SPECIFICATION ReplSpec
CONSTANTS
  Mode = "trio"
  LagLimit = 0
  Prompt = TRUE
  MaxLog = 2
  MaxBreaks = 2
  MaxLosses = 1
  MaxRestarts = 0
INVARIANTS ConfirmedSurvives
CHECK_DEADLOCK FALSE
