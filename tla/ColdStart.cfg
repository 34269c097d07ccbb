SPECIFICATION Spec
CONSTANTS
  Steps <- TwoSteps
  StepHold = 1
  Window = 1
  MinRequests = 1
  MaxErrorPct = 50
  MaxRatioPct = 125
  MaxMs = 0
  StallTimeout = 2
  MaxSamples = 2
  Modes <- TwoModes
  Deadline = 3
  MaxMetricFailures = 2
  MaxVersion = 2
  MaxTime = 4
  Traffic <- FewOutcomes
PROPERTIES
  WarmBaseline
CHECK_DEADLOCK FALSE
