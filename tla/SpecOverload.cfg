SPECIFICATION SpecSpec
CONSTANTS
  t1 = t1
  t2 = t2
  Token = {t1, t2}
  Block = {b1,b2,b3,b4,b5}
  BlockSize = 4
  PrefixCaching = FALSE
  Lora = {0}
  MaxRequests = 2
  MaxBatchedTokens = 16
  MaxNumSeqs = 3
  ChunkedPrefill = TRUE
  Shape <- Overload
  Faults = {FALSE}
  K = 3
  Methods = {"model"}
  MaxSpecBatch = 1
  DraftBlocks = 6
  DraftMaxLen = 12
  MinNgram = 1
  MaxNgram = 2
  GreedyPrompt = {}
  TargetNext <- AfterTwo
SYMMETRY BlockSymmetry
INVARIANTS
  MirrorSound
CHECK_DEADLOCK FALSE
