SPECIFICATION FairSpec
CONSTANTS
  Interval = 3
  Grace = 1
  FirstNow = 5
  MaxNow = 8
  EventCap = 1
  CmdCap = 1
  MaxSessions = 2
  Faults = {"gamma", "seed", "connect", "subscribe", "break"}
  MaxFaults = 1
INVARIANTS IdentitiesAreCurrent SubscriptionsFollow
PROPERTIES FeedSettles ClosureIsLearned
CHECK_DEADLOCK FALSE
