SPECIFICATION WarmSpec
CONSTANTS
  Markets = {m1, m2}
  RawCap = 2
  StrategyCap = 2
  ExecCap = 1
  CompletionCap = 1
  MaxBreaks = 1
PROPERTIES BlockedMarketsAreStopped
CHECK_DEADLOCK FALSE
