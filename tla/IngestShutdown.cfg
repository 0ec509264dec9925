SPECIFICATION Spec
CONSTANTS
  Workers = {w1, w2}
  AllowedCIDRs = {}
  Sources = {"wan"}
  Kinds = {"valid"}
  QueueCap = 1
  OutputCap = 1
  MaxBuffers = 4
  MaxPackets = 3
INVARIANTS
  ShutdownIsGraceful
CHECK_DEADLOCK FALSE
