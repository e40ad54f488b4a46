CONSTANTS
  t1 = t1
  t2 = t2
  t3 = t3
  k1 = k1
  Requests = {r1, r2}
  Txs <- ThreeTxs
  BadVersion <- Versions
  BadAddress <- Addresses
  Keys = {k1}
  Key <- KeyOf
  Data <- Subscriptions
  Rates <- Profiles
  None = None
  MonthLength = 4
  DayLength = 2
  CacheTimeout = 1
  MaxDelay = 1
  MaxTime = 4
SPECIFICATION FairSpec
INVARIANTS
  TypeOK
  ValidOnRecentData
  FreeOnlyOnTheLastDay
PROPERTY
  DecodedRequestsAreAnswered
