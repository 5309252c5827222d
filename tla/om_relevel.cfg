SPECIFICATION Spec
CONSTANTS
  up = up
  down = down
  None = None
  Tokens = {up}
  Sides = {"buy"}
  MaxLevel = 1
  RepriceMinTicks = 1
  ResizeMinPct = 10
  MinUpdateInterval = 1
  LadderStep = 1
  Commands <- RelevelCommands
  RejectKinds = {"postonly"}
  Faults = {"cancel_fail", "cancel_err", "post_err_applied"}
  RateLimited = FALSE
  LimiterAnswers = {TRUE, FALSE}
  SelectiveCancel = TRUE
  NearTicks = 2
  RepairMaxLevel = 0
  MinQuotePx = 1
  BatchSize = 2
  BackoffBase = 1
  BackoffMax = 2
  Cutoff = 9
  MaxPerKey = 2
  MaxCmds = 2
  MaxSeeds = 1
  MaxFaults = 1
  MaxTime = 1
INVARIANTS CancelsHitOwnOrder

CHECK_DEADLOCK FALSE
