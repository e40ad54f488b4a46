CONSTANTS
  Blocks <- MCBlocks
  GenesisBlock <- MCGenesis
  Limits <- MCLimits
  NoBlock = NoBlock
  Callers = {c1}
  VerifySignature = TRUE
SPECIFICATION Spec
INVARIANTS
  TypeOK
  ChainLinked
  TipIsDurable
  GetBlocksConsistent
PROPERTY
  ImplementsLedger
