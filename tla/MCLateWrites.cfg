SPECIFICATION SingleSpec
CONSTANTS
  MaxWork = 1
  MaxRefusals = 1
  MaxKills = 1
  MaxUnsaved = 0
  MaxRelaunches = 0
PROPERTIES LateStays
CHECK_DEADLOCK FALSE
