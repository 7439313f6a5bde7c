SPECIFICATION FairSpec
CONSTANTS
  Node = {a, b}
  Witness = w
  Nobody = nobody
  Gateway = gateway
  Mode = "trio"
  Reals = {TRUE}
  SeenTicks = 1
  FenceAfter = 1
  Takeover = 5
  DemoteWait = 1
  DemoteTicks = 1
  VoteRepeat = 1
  HandoverRepeat = 1
  HandoverQuiet = 3
  MaxPerDay = 3
  Commands = {"swap"}
  Brakes = {TRUE}
  Env = {"crash", "demote", "save", "witness"}
  MaxTerm = 3
  MaxSeq = 1
  MaxDemotes = 1
  MaxFaults = 1
  Phases <- SingleOrder
  Breakdowns <- Unbroken
PROPERTIES SurvivorTakesOver SwapEnds
