SPECIFICATION SpecSpec
CONSTANTS
  t1 = t1
  t2 = t2
  Token = {t1, t2}
  Block = {b1, b2, b3, b4}
  BlockSize = 3
  PrefixCaching = TRUE
  Lora = {0}
  MaxRequests = 2
  MaxBatchedTokens = 16
  MaxNumSeqs = 3
  ChunkedPrefill = TRUE
  Shape <- Pair
  Faults = {FALSE}
  K = 3
  Methods = {"model", "ngram"}
  MaxSpecBatch = 0
  DraftBlocks = 4
  DraftMaxLen = 8
  MinNgram = 1
  MaxNgram = 2
  GreedyPrompt <- GreedyPrompts
  TargetNext <- AfterTwo
SYMMETRY BlockSymmetry
INVARIANTS
  SpecBlocksInv
  BothCachesFaithful
  PlainDecoding
CHECK_DEADLOCK FALSE
