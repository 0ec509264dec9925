SPECIFICATION FairAPISpec
CONSTANTS
  d1 = d1
  d2 = d2
  Drones = {d1, d2}
  SystemOf <- OneSystem
  Payloads <- Mixed
  HistorySize = 2
  StaleThreshold = 0
  UpdatesCap = 1
  MaxDelay = 1
  MaxClock = 1
  MaxEvents = 3
INVARIANTS
  AlertsMatchState
  MirrorIsCurrent
  HistoryInOrder
  TrackEndsAtPosition
PROPERTIES
  OnlyOvertakenMisjudged
  SilentIsNoticed
  StatsHangTogether
CHECK_DEADLOCK FALSE
