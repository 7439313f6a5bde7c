SPECIFICATION Spec
CONSTANTS
  Node = {a, b}
  Witness = w
  Nobody = nobody
  Gateway = gateway
  Mode = "trio"
  Reals = {TRUE}
  SeenTicks = 3
  FenceAfter = 1
  Takeover = 6
  DemoteWait = 1
  DemoteTicks = 2
  VoteRepeat = 5
  HandoverRepeat = 5
  HandoverQuiet = 5
  MaxPerDay = 3
  Commands = {"swap"}
  Brakes = {TRUE}
  Env = {}
  MaxTerm = 2
  MaxSeq = 1
  MaxDemotes = 2
  MaxFaults = 0
  Phases <- FixedOrder
  Breakdowns <- Broken
SYMMETRY Symmetry
INVARIANTS OfferedAfterDemote
