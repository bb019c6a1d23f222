SPECIFICATION FairSpec
CONSTANTS
  Nobody = Nobody
  c1 = c1
  c2 = c2
  c3 = c3
  Clients <- ThreeClients
  Messages <- OneTalks
  ADDRESSES = 2
  QUEUE_SIZE = 2
  SNDBUF = 1
  FD_SETSIZE = 6
  Limits <- Full
  Programs <- Both
INVARIANTS
  WatchedExactly
  OwnEcho
PROPERTIES
  Served
