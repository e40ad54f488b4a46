CONSTANTS
  t1 = t1
  t2 = t2
  bad = bad
  Txs <- MCTxs
  ValidTxs <- MCValidTxs
  Timestamp <- MCTimestamp
  PendingLifespan = 8
  CommittedLifespan = 1
  MaxSkew = 0
  VerifySubscription = FALSE
  BlockSizeLimit = 1
  MaxTime = 10
SPECIFICATION Spec
INVARIANT
  NeverCommittedTwice
