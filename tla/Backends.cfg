SPECIFICATION BackendsSpec
CONSTANTS
  Parts = {"path", "sampler", "paged", "local", "load", "results", "baseline", "driver", "page", "lora", "queue"}
  Bytes <- SomeBytes
  Window = 2
  Eos = {6}
  Requests <- SomeRequests
  MaxPings = 1
  Vocab = {1, 2, 3}
  Rows <- SomeRows
  MaxBatch = 2
  BlockSize = 2
  Shapes <- SomeShapes
  Triton = {TRUE, FALSE}
  InitialCapacity = 1
  MinTable = 1
  Caller = {"c1", "c2", "c3"}
  Configs <- SomeConfigs
  MockTokens = 4
  PerEvent = 2
  Loads <- SomeLoads
  Slos <- SomeSlos
  Gaps = {0, 1}
  MaxClock = 3
  MaxSent = 2
  Saver = {"s1", "s2", "s3"}
  Target <- SomeTargets
  Asked <- SomeAsked
  Says <- SomeSays
  Baselines <- SomeBaselines
  PadToken = 3
  MaxAsked = 3
  Client = {"r1", "r2", "r3"}
  Wrapped <- SomeWrapped
  Runs <- SomeRuns
  Scenario = 5
  MaxRuns = 3
  MaxAdapters = 4
  NumSlots = 2
  NumLayers = 2
  MaxRank = 2
  Rank <- MixedRanks
  Targets <- MixedTargets
  MaxTokens = 3
  Faults = TRUE
  Tenant = {1, 2, 3}
  Cost <- Weights
  MaxCost = 4
  MaxBacklog = 3
  MaxNow = 12
INVARIANTS
  PathTrue
  SamplerSound
  PagedSound
  DeviceShared
  BenchTrue
  IndexSound
  SameAnswer
  DriverServes
  LoRAInv
  LagBounded
  WaitBounded
CHECK_DEADLOCK FALSE
