SPECIFICATION FairSpec
CONSTANTS
  Client <- ThreeClients
  None = "none"
  Limits = {1, 2}
  Ends <- OneSpeaks
  Capacity = 1
CHECK_DEADLOCK FALSE
INVARIANTS
  TypeOK
  FdsMatch
  ReadsReady
  PointersLive
  AtMostOneOver
PROPERTIES
  ImplementsChatRoom
  Responds
