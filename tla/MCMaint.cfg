SPECIFICATION FairSpec
CONSTANTS
  Node = {a, b}
  Witness = w
  Nobody = nobody
  Gateway = gateway
  Mode = "trio"
  Reals = {TRUE}
  SeenTicks = 1
  FenceAfter = 1
  Takeover = 5
  DemoteWait = 1
  DemoteTicks = 2
  VoteRepeat = 1
  HandoverRepeat = 1
  HandoverQuiet = 3
  MaxPerDay = 1
  Commands = {"maint_on", "maint_off"}
  Brakes = {TRUE}
  Env = {"midnight"}
  MaxTerm = 2
  MaxSeq = 2
  MaxDemotes = 1
  MaxFaults = 1
  Phases <- SingleOrder
  Breakdowns <- OneIsolated
INVARIANTS AtMostOneActive
PROPERTIES ClusterSettles
