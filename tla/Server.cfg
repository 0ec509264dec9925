SPECIFICATION FairDashSpec
CONSTANTS
  TelemetryCap = 1
  MuxReplaces = TRUE
  InFile = {"broadcast_interval", "packet_queue_size", "read_buffer_size",
            "subscriber_buffer_size"}
  MaxEvents = 2
INVARIANTS
  EventsHandledOnce
  PanicsHaveACause
  HealthAddsUp
PROPERTIES
  ShutdownEnds
  DashboardGetsThrough
CHECK_DEADLOCK FALSE
