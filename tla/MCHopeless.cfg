SPECIFICATION Spec
CONSTANTS
  Node = {a, b}
  Witness = w
  Nobody = nobody
  Gateway = gateway
  Mode = "trio"
  Reals = {TRUE}
  SeenTicks = 3
  FenceAfter = 1
  Takeover = 4
  DemoteWait = 1
  DemoteTicks = 20
  VoteRepeat = 5
  HandoverRepeat = 5
  HandoverQuiet = 5
  MaxPerDay = 3
  Commands = {"swap"}
  Brakes = {TRUE}
  Env = {}
  MaxTerm = 3
  MaxSeq = 1
  MaxDemotes = 1
  MaxFaults = 1
  Phases <- FixedOrder
  Breakdowns <- Broken
SYMMETRY Symmetry
INVARIANTS AtMostOneActive
