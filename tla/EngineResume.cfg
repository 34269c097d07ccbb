SPECIFICATION Spec
CONSTANTS
  t1 = t1
  t2 = t2
  Token = {t1, t2}
  Block = {b1, b2, b3}
  BlockSize = 2
  PrefixCaching = TRUE
  Lora = {0, 1}
  MaxRequests = 2
  MaxBatchedTokens = 2
  MaxNumSeqs = 3
  ChunkedPrefill = TRUE
  Shape <- Growing
  Faults = {FALSE}
SYMMETRY BlockSymmetry
INVARIANTS
  SamplesAtEnd
CHECK_DEADLOCK FALSE
