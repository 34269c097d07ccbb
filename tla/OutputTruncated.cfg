SPECIFICATION BackendsSpec
CONSTANTS
  Parts = {"path"}
  Bytes <- SomeBytes
  Window = 2
  Eos = {6}
  Requests <- SomeRequests
  MaxPings = 0
  Vocab = {1, 2, 3}
  Rows <- SomeRows
  MaxBatch = 1
  BlockSize = 2
  Shapes <- SomeShapes
  Triton = {FALSE}
  InitialCapacity = 1
  MinTable = 1
  Caller = {"c1"}
  Configs <- SomeConfigs
  MockTokens = 4
  PerEvent = 2
  Loads <- SomeLoads
  Slos <- SomeSlos
  Gaps = {0, 1}
  MaxClock = 3
  MaxSent = 2
  Saver = {"s1", "s2", "s3"}
  Target <- SomeTargets
  Asked <- SomeAsked
  Says <- SomeSays
  Baselines <- SomeBaselines
  PadToken = 3
  MaxAsked = 3
  Client = {"r1"}
  Wrapped <- SomeWrapped
  Runs <- SomeRuns
  Scenario = 5
  MaxRuns = 0
  MaxAdapters = 4
  NumSlots = 2
  NumLayers = 2
  MaxRank = 2
  Rank <- MixedRanks
  Targets <- MixedTargets
  MaxTokens = 3
  Faults = TRUE
  Tenant = {1, 2, 3}
  Cost <- Weights
  MaxCost = 4
  MaxBacklog = 3
  MaxNow = 12
INVARIANT NoSilentTruncation
CHECK_DEADLOCK FALSE
