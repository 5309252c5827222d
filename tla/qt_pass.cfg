SPECIFICATION QuotingSpec
CONSTANTS
  Configs <- MCConfigs
  Snapshots <- MCSnapshots
  Books <- MCBooks
  Delays = {0, 100, 400}
  MaxPasses = 2
INVARIANTS CombinedCapHolds BidsStayOffTheAsk RepairPays PairedOrRepair
PROPERTIES ClimbIsBounded
CHECK_DEADLOCK FALSE
