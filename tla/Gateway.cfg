SPECIFICATION Spec
CONSTANTS
  NumReplicas = 2
  LaneOf <- TwoLanes
  CanaryWeight = 50
  HealthTTL = 1
  MaxAttempts = 2
  MaxTime = 1
  Request = {1, 2}
  Tenant <- BothTenants
  Owners <- OneOwner
  Streamed = {1}
  Prompt <- Prompts
  MaxTokens = 1
  Rpm <- Requests
  Tpm <- Tokens
  MaxConcurrency <- Slots
  Rate = 2
INVARIANTS
  LimitsInv
  OneCompletion
  BilledOnce
  ToldTrue
PROPERTIES
  EjectionHolds
