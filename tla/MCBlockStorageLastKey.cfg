CONSTANTS
  Blocks <- MCBlocks
  GenesisBlock <- MCGenesis
  Limits <- MCLimits
  NoBlock = NoBlock
  Callers = {c1}
  VerifySignature = TRUE
SPECIFICATION Spec
INVARIANT
  LastKeyNamesABlock
