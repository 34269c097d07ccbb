SPECIFICATION Spec
CONSTANTS
  Fleet <- TwoReplicas
  Duration = 3
  Requests = {r1, r2}
  Schedules <- SomeSchedules
  Steady = TRUE
  MaxAttempts = 2
  MaxTokens = 2
  MaxTime = 5
  MaxTrouble = 1
INVARIANTS
  ChaosInv
  ReportTrue
PROPERTIES
  FleetReturns
CHECK_DEADLOCK FALSE
