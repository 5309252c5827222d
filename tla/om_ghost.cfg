SPECIFICATION FairSpec
CONSTANTS
  up = up
  down = down
  None = None
  Tokens = {up, down}
  Sides = {"buy"}
  MaxLevel = 0
  RepriceMinTicks = 1
  ResizeMinPct = 10
  MinUpdateInterval = 0
  LadderStep = 1
  Commands <- PairStop
  RejectKinds = {}
  Faults = {}
  RateLimited = FALSE
  LimiterAnswers = {TRUE}
  SelectiveCancel = TRUE
  NearTicks = 2
  RepairMaxLevel = 0
  MinQuotePx = 1
  BatchSize = 2
  BackoffBase = 1
  BackoffMax = 2
  Cutoff = 9
  MaxPerKey = 2
  MaxCmds = 1
  MaxSeeds = 0
  MaxFaults = 0
  MaxTime = 1
PROPERTIES GhostsLeaveTheCache
CHECK_DEADLOCK FALSE
