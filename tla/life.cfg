SPECIFICATION FairSpec
CONSTANTS
  Orders = {1, 2}
  Odd = {2}
  Interval = 1
  Grace = 2
  CallMax = 1
  ExchangeGrace = 4
  MaxRuns = 2
INVARIANTS TypeOK StartKnowsWhatRests SupervisorActsFirst
PROPERTIES NothingOutlivesTheProcess HeartbeatLossEndsTrading
