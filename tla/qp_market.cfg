SPECIFICATION LiveSpec
CONSTANTS
  Markets = {m1}
  RawCap = 1
  StrategyCap = 1
  ExecCap = 1
  CompletionCap = 1
  MaxBreaks = 1
INVARIANTS TypeOK SnapshotsAreSound OnlyOpenMarketsAreQuoted
PROPERTIES BlockedMarketsAreStopped OpenMarketsAreOffered
CHECK_DEADLOCK FALSE
