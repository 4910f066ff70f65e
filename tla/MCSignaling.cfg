\* Safety: three connections of one room that has space for two, queues of two.
SPECIFICATION Spec
CONSTANTS
  a = a
  b = b
  c = c
  home = home
  away = away
  Conns = {a, b, c}
  Rooms = {home}
  RoomOf <- OneRoom
  MaxPeersPerRoom = 2
  SendQueue = 2
  MaxSignals = 2
SYMMETRY Interchangeable
INVARIANTS TypeOK Membership KnownSenders NoGhostPeers NoInvisiblePeers
CHECK_DEADLOCK FALSE
