SPECIFICATION FairSpec
CONSTANTS
  Workers = {w1, w2}
  AllowedCIDRs = {"lan", "typo"}
  Sources = {"lan", "wan"}
  Kinds = {"malformed", "valid"}
  QueueCap = 1
  OutputCap = 1
  MaxBuffers = 4
  MaxPackets = 2
INVARIANTS
  BuffersHeldOnce
  PacketsAccounted
  EventsAreOwn
PROPERTIES
  ShutdownReturns
CHECK_DEADLOCK FALSE
