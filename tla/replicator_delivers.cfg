CONSTANTS
  local1 = local1
  s3a = s3a
  Paths = {p1}
  Destinations = {local1, s3a}
  Local = {local1}
  Configs <- SameConfig
  MaxRetries <- FiniteLocal
  Faults = {"copy"}
  OperatorRetries = FALSE
  MaxVersion = 2
  ClaimLimit = 4
  U32Max = 2
SPECIFICATION FairSpec
CHECK_DEADLOCK FALSE
INVARIANTS
  ReplicaCurrent
PROPERTIES
  BacklogClears
