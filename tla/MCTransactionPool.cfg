CONSTANTS
  t1 = t1
  t2 = t2
  bad = bad
  Txs <- MCTxs
  ValidTxs <- MCValidTxs
  Timestamp <- MCTimestamp
  PendingLifespan = 2
  CommittedLifespan = 3
  MaxSkew = 1
  VerifySubscription = TRUE
  BlockSizeLimit = 1
  MaxTime = 7
SPECIFICATION FairSpec
INVARIANTS
  TypeOK
  
PROPERTIES
  CommittedStaysCommitted
  PendingPoolDrains
