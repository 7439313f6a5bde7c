SPECIFICATION Spec
CONSTANTS
  Node = {a, b}
  Witness = w
  Nobody = nobody
  Gateway = gateway
  Mode = "trio"
  Reals = {TRUE, FALSE}
  SeenTicks = 1
  FenceAfter = 1
  Takeover = 5
  DemoteWait = 1
  DemoteTicks = 2
  VoteRepeat = 1
  HandoverRepeat = 1
  HandoverQuiet = 3
  MaxPerDay = 3
  Commands = {"force_takeover", "auto"}
  Brakes = {TRUE, FALSE}
  Env = {}
  MaxTerm = 2
  MaxSeq = 1
  MaxDemotes = 1
  MaxFaults = 1
  Phases <- OneOrder
  Breakdowns <- Isolated
SYMMETRY Symmetry
PROPERTIES TakeoverIsVoted
