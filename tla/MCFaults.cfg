SPECIFICATION FaultsSpec
CONSTANTS
  A = A
  B = B
  None = None
  Kinds = {"rolling", "sequential", "swap"}
  MaxFaults = 1
  MaxWrites = 1
  MaxRepeats = 1
  Mode = "trio"
  LagLimit = 1
  Prompt = TRUE
  MaxLog = 2
  MaxBreaks = 2
  MaxLosses = 0
  MaxRestarts = 1
  MaxWork = 1
  MaxRefusals = 1
  MaxKills = 1
  MaxUnsaved = 1
  MaxRelaunches = 1
INVARIANTS NothingLost FallbackKept ConfirmedSurvives WritesKept
PROPERTIES EndsWhole
CHECK_DEADLOCK FALSE
