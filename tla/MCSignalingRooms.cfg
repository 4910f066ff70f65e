\* Isolation and liveness: two connections from one address and one from another,
\* queues of one.
SPECIFICATION FairSpec
CONSTANTS
  a = a
  b = b
  c = c
  home = home
  away = away
  Conns = {a, b, c}
  Rooms = {home, away}
  RoomOf <- TwoRooms
  MaxPeersPerRoom = 2
  SendQueue = 1
  MaxSignals = 1
INVARIANTS RoomIsolation
PROPERTIES Teardown DepartureHeard
CHECK_DEADLOCK FALSE
