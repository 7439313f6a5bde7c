SPECIFICATION Spec
CONSTANTS
  Node = {a, b}
  Witness = w
  Nobody = nobody
  Gateway = gateway
  Mode = "trio"
  Reals = {TRUE}
  SeenTicks = 3
  FenceAfter = 1
  Takeover = 9
  DemoteWait = 1
  DemoteTicks = 2
  VoteRepeat = 2
  HandoverRepeat = 5
  HandoverQuiet = 5
  MaxPerDay = 3
  Commands = {}
  Brakes = {TRUE}
  Env = {}
  MaxTerm = 2
  MaxSeq = 1
  MaxDemotes = 1
  MaxFaults = 2
  Phases <- FixedOrder
  Breakdowns <- Broken
SYMMETRY Symmetry
INVARIANTS AtMostOneActive OneOwnerPerTerm
