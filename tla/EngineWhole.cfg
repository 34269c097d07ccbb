SPECIFICATION FairSpec
CONSTANTS
  t1 = t1
  t2 = t2
  Token = {t1, t2}
  Block = {b1, b2, b3}
  BlockSize = 2
  PrefixCaching = TRUE
  Lora = {0, 1}
  MaxRequests = 2
  MaxBatchedTokens = 3
  MaxNumSeqs = 2
  ChunkedPrefill = FALSE
  Shape <- Resuming
  Faults = {TRUE, FALSE}
INVARIANTS
  EngineInv
  SamplesAtEnd
PROPERTIES
  AllServed
CHECK_DEADLOCK FALSE
