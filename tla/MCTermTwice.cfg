SPECIFICATION Spec
CONSTANTS
  Node = {a, b}
  Witness = w
  Nobody = nobody
  Gateway = gateway
  Mode = "trio"
  Reals = {TRUE}
  SeenTicks = 3
  FenceAfter = 1
  Takeover = 9
  DemoteWait = 1
  DemoteTicks = 1
  VoteRepeat = 5
  HandoverRepeat = 5
  HandoverQuiet = 5
  MaxPerDay = 3
  Commands = {"swap"}
  Brakes = {TRUE}
  Env = {"crash"}
  MaxTerm = 2
  MaxSeq = 1
  MaxDemotes = 1
  MaxFaults = 2
  Phases <- SingleOrder
  Breakdowns <- OneIsolated
INVARIANTS OneOwnerPerTerm
