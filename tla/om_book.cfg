SPECIFICATION FairSpec
CONSTANTS
  up = up
  down = down
  None = None
  Tokens = {up, down}
  Sides = {"buy"}
  MaxLevel = 0
  RepriceMinTicks = 1
  ResizeMinPct = 10
  MinUpdateInterval = 0
  LadderStep = 1
  Commands <- PairStop
  RejectKinds = {"error"}
  Faults = {"cancel_fail", "post_err", "sweep_fail", "ws_lost", "swept"}
  RateLimited = FALSE
  LimiterAnswers = {TRUE}
  SelectiveCancel = TRUE
  NearTicks = 2
  RepairMaxLevel = 0
  MinQuotePx = 1
  BatchSize = 2
  BackoffBase = 1
  BackoffMax = 2
  Cutoff = 2
  MaxPerKey = 2
  MaxCmds = 2
  MaxSeeds = 0
  MaxFaults = 1
  MaxTime = 2
INVARIANTS NoOrphanedOrder OneOrderPerKey
PROPERTIES StopEmptiesBook PendingGetsItsTurn
CHECK_DEADLOCK FALSE
