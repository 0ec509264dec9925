SPECIFICATION FairSpec
CONSTANTS
  TelemetryCap = 2
  MuxReplaces = FALSE
  InFile = {}
  MaxEvents = 1
PROPERTIES
  HealthReplaced
CHECK_DEADLOCK FALSE
