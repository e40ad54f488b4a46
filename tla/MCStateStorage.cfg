CONSTANTS
  Keys = {k1}
  Values = {v1, v2}
  NoValue = NoValue
  ScrollLimit = 2
  MaxChecks = 2
  MaxHeight = 4
  MaxFaults = 1
SPECIFICATION FairSpec
INVARIANTS
  TypeOK
  StoreIsStateOfPrefix
  ReadsAreFresh
PROPERTY
  CatchesUp
