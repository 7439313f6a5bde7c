SPECIFICATION SystemSpec
CONSTANTS
  A = A
  B = B
  None = None
  Kinds = {"rolling", "swap"}
  MaxFaults = 1
  MaxWrites = 0
  MaxRepeats = 0
  Mode = "trio"
  LagLimit = 0
  Prompt = TRUE
  MaxLog = 1
  MaxBreaks = 2
  MaxLosses = 0
  MaxRestarts = 0
  MaxTurns = 2
  MaxCrashes = 1
  MaxAside = 2
  Host = {h1, h2}
  Addresses = {v1, v2}
  Off = off
  MaxMoves = 1
  MaxSettings = 2
  MaxSlips = 1
  QueueSize = 2
  MaxDecisions = 3
  MaxFailures = 1
  MaxWork = 1
  MaxRefusals = 1
  MaxKills = 1
  MaxUnsaved = 0
  MaxRelaunches = 0
  Staff = {w1}
  Hourly = hourly
  Unheld = unheld
  Every = 1
  Days = 1
  Ops = {"complete", "skip", "rest", "wake", "delete"}
  MaxOrders = 2
  MaxBreakOffs = 1
INVARIANTS SystemTypeOK DivergedKept CopyNeverWritable IdleAgrees OldOnOld
PROPERTIES LockEnds MirrorReturns AddressSettles DevicesFollow OthersStop TickGoesOn SingleEnds PlanServed
CHECK_DEADLOCK FALSE
