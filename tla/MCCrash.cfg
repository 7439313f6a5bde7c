SPECIFICATION Spec
CONSTANTS
  Node = {a, b}
  Witness = w
  Nobody = nobody
  Gateway = gateway
  Mode = "trio"
  Reals = {TRUE}
  SeenTicks = 1
  FenceAfter = 1
  Takeover = 5
  DemoteWait = 1
  DemoteTicks = 0
  VoteRepeat = 1
  HandoverRepeat = 2
  HandoverQuiet = 3
  MaxPerDay = 3
  Commands = {"swap"}
  Brakes = {TRUE}
  Env = {"crash", "witness", "save"}
  MaxTerm = 3
  MaxSeq = 1
  MaxDemotes = 1
  MaxFaults = 2
  Phases <- SingleOrder
  Breakdowns <- Direct
INVARIANTS TypeOK AtMostOneActive OneVotePerTerm
PROPERTIES TermsNeverFall ElectionsInOrder
