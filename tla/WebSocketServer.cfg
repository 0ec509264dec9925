SPECIFICATION FairSpec
CONSTANTS
  Conns = {c1, c2}
  Choosy = {c1}
  Systems = {1, 2}
  Filters = {{1}, {2}}
  MaxClients = 1
  QueueCap = 1
  MaxBroadcasts = 2
INVARIANTS
  LimitUnlessRaced
PROPERTIES
  MessagesFollowFilters
  OnlyClientsGetMessages
  DepartedAreRemoved
  StopReturnsUnlessLate
CHECK_DEADLOCK FALSE
