SPECIFICATION FairSpec
CONSTANTS
  TelemetryCap = 2
  MuxReplaces = TRUE
  InFile = {}
  MaxEvents = 1
PROPERTIES
  EachEventReachesBoth
CHECK_DEADLOCK FALSE
