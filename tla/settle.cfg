SPECIFICATION FairSpec
CONSTANTS
  Markets = {m1}
  m1 = m1
  Start <- MCStart
  MinSets = 1
  Interval = 1
  Minute = 2
  MaxOps = 1
  QueueCap = 1
  Ttl = 1
  Hold = 1
  MaxLag = 1
  Buys <- MCBuys
  Ending = {m1}
  MaxFills = 1
  Faults = {"fill", "rpc", "revert", "report", "dropped"}
  MaxFaults = 1
INVARIANTS OperationsAreBudgeted MarketsFollowTheChain
PROPERTIES ResolvedMarketsSettle DesyncIsCaught
CHECK_DEADLOCK FALSE
