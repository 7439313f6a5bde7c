SPECIFICATION ApplicationSpec
CONSTANTS
  Shelf = {n1, n2}
  Stocked = {n1}
  Opening = 2
  Clerk = {c1, c2}
  Nobody = nobody
  MaxCalls = 2
  Staff = {w1, w2}
  Hourly = hourly
  Unheld = unheld
  Every = 1
  Days = 0
  Ops = {"complete", "skip", "wait", "edit", "rest", "wake", "delete"}
  MaxOrders = 2
  MaxBreakOffs = 1
  Job = {j1, j2}
  Unlocked = unlocked
  Keep = 1
  Slow = TRUE
  Deletable = {"manual"}
  MaxRuns = 4
  MaxWrites = 1
  MaxTroubles = 1
SYMMETRY Symmetry
INVARIANTS ApplicationTypeOK LedgerAdds PiecesAccounted OneOpenTask ClosedByOne KeptOnDisk SafetyCopyKept
PROPERTIES NeverOverdrawn
CHECK_DEADLOCK FALSE
