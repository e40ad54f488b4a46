CONSTANTS
  n1 = n1
  n2 = n2
  n3 = n3
  Nodes <- ThreeNodes
  GossipPeers <- Lists
  None = None
  Closed = Closed
  MaxMessages = 1
  MaxCrashes = 1
  MaxFaults = 1
SPECIFICATION FairSpec
CHECK_DEADLOCK FALSE
INVARIANTS
  TypeOK
  DeliveredOnceToItsRecipients
PROPERTY
  NodesFindEachOther
