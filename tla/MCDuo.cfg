SPECIFICATION Spec
CONSTANTS
  Node = {a, b}
  Witness = w
  Nobody = nobody
  Gateway = gateway
  Mode = "duo"
  Reals = {TRUE}
  SeenTicks = 1
  FenceAfter = 2
  Takeover = 6
  DemoteWait = 1
  DemoteTicks = 2
  VoteRepeat = 1
  HandoverRepeat = 1
  HandoverQuiet = 3
  MaxPerDay = 3
  Commands = {"swap", "maint_on"}
  Brakes = {TRUE}
  Env = {"crash", "save"}
  MaxTerm = 3
  MaxSeq = 1
  MaxDemotes = 2
  MaxFaults = 1
  Phases <- AnyOrder
  Breakdowns <- Isolated
SYMMETRY Symmetry
INVARIANTS AtMostOneActive OneOwnerPerTerm
