SPECIFICATION FairSpec
CONSTANTS
  Names <- OneName
  RuneErrors = {2}
  BufferSize = 1
  DropModes = {TRUE, FALSE}
  Closers = {1}
  Servants = {2}
  MaxSubs = 2
  MaxEvents = 3
INVARIANTS
  NoSilentLoss
  PanicsNeedClose
  EverySubscriberReachable
PROPERTIES
  ImplementsFeed
  UnsubscribeReturns
  StopEndsReaders
CHECK_DEADLOCK FALSE
