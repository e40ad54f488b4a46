CONSTANTS
  Accounts <- MCAccounts
  Short <- MCShort
  Transactions <- MCTransactions
  DefaultBalance = 2
  Allocations = 1
  MaxSafeInteger = 2
  NoValue = NoValue
  None = None
  BlockSizeLimit = 2
  MaxSent = 3
  MaxForeign = 1
  MaxFaults = 1
SPECIFICATION FairSpec
INVARIANTS
  TypeOK
  BlocksAreAtomicExecutions
  
  

  
