CONSTANTS
  Nodes = {n1, n2}
  None = None
  Slots = {1, 2}
  Runs = {1, 2}
  MaxHeight = 2
  MaxBlocks = 3
  MaxFaults = 1
  MaxElections = 1
SPECIFICATION FairSpec
INVARIANTS
  TypeOK
  NoEntrySkipped
  
  
  
PROPERTY
  NodesGetInSync
CHECK_DEADLOCK FALSE
