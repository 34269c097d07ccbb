SPECIFICATION RuntimeSpec
CONSTANTS
  Parts = {"async", "pool"}
  Call = {1, 2}
  RequestId = {1, 2}
  Uses <- BothUses
  Steps = 3
  Faults = TRUE
  Closes = TRUE
  NumBlocks = 3
  Hash = {h1, h2, h3}
  PrefixCaching = TRUE
  MaxRefs = 2
INVARIANTS
  StreamsInv
  NoOrphan
  NoZombie
  KVPoolInv
PROPERTIES
  StreamsEnd
  EvictsOnlyUnderPressure
  ImplementsContract
CHECK_DEADLOCK FALSE
