SPECIFICATION Spec
CONSTANTS
  up = up
  down = down
  None = None
  Tokens = {up, down}
  Sides = {"buy"}
  MaxLevel = 0
  RepriceMinTicks = 1
  ResizeMinPct = 10
  MinUpdateInterval = 0
  LadderStep = 1
  Commands <- PairStop
  RejectKinds = {"postonly", "error"}
  Faults = {"cancel_fail", "cancel_err", "post_err", "post_err_applied", "revert_fail", "sweep_fail", "ws_lost", "swept"}
  RateLimited = TRUE
  LimiterAnswers = {TRUE}
  SelectiveCancel = TRUE
  NearTicks = 2
  RepairMaxLevel = 0
  MinQuotePx = 1
  BatchSize = 2
  BackoffBase = 1
  BackoffMax = 2
  Cutoff = 9
  MaxPerKey = 2
  MaxCmds = 2
  MaxSeeds = 1
  MaxFaults = 1
  MaxTime = 1
SYMMETRY Swap
INVARIANTS TypeOK CacheConsistent BusyMeansOneStage PostsLandOnFreeKeys
PROPERTIES ForgetsOnlyDeadOrders
CHECK_DEADLOCK FALSE
