SPECIFICATION Spec
CONSTANTS
  t1 = t1
  t2 = t2
  Token = {t1, t2}
  Block = {b1, b2, b3, b4}
  BlockSize = 2
  PrefixCaching = TRUE
  Lora = {0, 1}
  MaxRequests = 4
  MaxBatchedTokens = 3
  MaxNumSeqs = 3
  ChunkedPrefill = TRUE
  Shape <- Mixed
  Faults = {FALSE}
SYMMETRY BlockSymmetry
INVARIANTS
  EngineInv
  KVFaithful
  NoStall
  NoOvertaking
CHECK_DEADLOCK FALSE
