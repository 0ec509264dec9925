SPECIFICATION FairSpec
CONSTANTS
  TelemetryCap = 2
  MuxReplaces = TRUE
  InFile = {}
  MaxEvents = 0
INVARIANTS
  ShutdownIsGraceful
CHECK_DEADLOCK FALSE
