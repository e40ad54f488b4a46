CONSTANTS
  Nodes = {n1, n2, n3}
  Leader = n1
  None = None
  Slots = {1, 2}
  AcceptableUnsynced = 1
  MaxHeight = 2
  MaxBlocks = 3
  MaxFaults = 1
  MaxInFlight = 0
SPECIFICATION StubFairSpec
INVARIANTS
  StubTypeOK
  ForkOnlyByMishap
  WrongStateOnlyIfNotAdded
  BuilderFollowsStorage
PROPERTIES
  
  AllNodesCatchUp
