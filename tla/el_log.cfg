SPECIFICATION FairSpec
CONSTANTS
  Sizes = {3, 7}
  ChannelCap = 2
  MaxEvents = 2
  MaxBytes = 6
  FlushEvents = 2
  FlushBytes = 5
  RotateBytes = 4
  TotalBytes = 8
  SampleAnswers = {TRUE, FALSE}
  Faults = {"init", "open", "write", "flush", "rename", "tie", "list", "remove"}
  MaxFaults = 1
  MaxOffers = 4
  MaxRuns = 3
INVARIANTS BufferBytesCoverBuffer LossesAreCounted
PROPERTIES ImplementsRecordLog AcceptedEventsLeave
CHECK_DEADLOCK FALSE
