CONSTANTS
  Nodes = {n1, n2}
  Leader = n1
  None = None
  BatchSize = 2
  BatchesPerInterval = 2
  Pollers = {n2}
  MaxHeight = 3
  MaxInFlight = 1
  MaxFaults = 1
SPECIFICATION FairSpec
INVARIANTS
  TypeOK
  NoGapBelowLastBlock
PROPERTY
  Converges
