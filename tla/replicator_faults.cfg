CONSTANTS
  local1 = local1
  s3a = s3a
  Paths = {p1}
  Destinations = {local1, s3a}
  Local = {local1}
  Configs <- ChangingConfig
  MaxRetries <- FiniteLocal
  Faults <- AllFaults
  OperatorRetries = TRUE
  MaxVersion = 3
  ClaimLimit = 2
  U32Max = 2
SPECIFICATION Spec
CHECK_DEADLOCK FALSE
INVARIANTS
  TypeOK
  ClaimedCopyFresh
  SegmentCovered
PROPERTIES
  RetryBudgetKept
  ImplementsDelivery
