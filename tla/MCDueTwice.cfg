SPECIFICATION MaintSpec
CONSTANTS
  Staff = {w1, w2}
  Hourly = hourly
  Unheld = unheld
  Every = 1
  Days = 0
  Ops = {"complete", "skip"}
  MaxOrders = 2
  MaxBreakOffs = 1
INVARIANTS DueOnce
CHECK_DEADLOCK FALSE
