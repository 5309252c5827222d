SPECIFICATION Spec
CONSTANTS
  Up = up
  Down = down
  PerToken = 1
  Size = 2
  Sells <- NoSells
  Initial = 0
  MinSets = 1
  BatchSets = 2
  Replays = TRUE
  Faults = {"merge_dropped", "lost_receipt", "slow_chain", "resync_skipped"}
  MaxEpoch = 2
  MaxMerges = 2
SYMMETRY Swap
INVARIANTS TypeOK NoFillTwice InventoryIsExact
CHECK_DEADLOCK FALSE
