SPECIFICATION FairSpec
CONSTANTS
  BUFFER_SIZE = 128
  INT_MAX = 32767
  hello_world_udp = hello_world_udp
  address_book_udp = address_book_udp
  Mods <- MCMods
  LoopMods <- MCLoopMods
  Sockets = {s1, s2}
  Frames <- MCFrames
  EMPTY = EMPTY
  RCVBUF = 2
  MaxSent = 3
  NULL = NULL
INVARIANTS
  TypeOK
  PortOwnership
  HandledInOrder
PROPERTIES
  StopsInTime
  LeakOnlyWhenBindFails
  InitReturns
CHECK_DEADLOCK FALSE
