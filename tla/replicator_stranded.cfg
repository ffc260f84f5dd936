CONSTANTS
  local1 = local1
  s3a = s3a
  Paths = {p1}
  Destinations = {local1, s3a}
  Local = {local1}
  Configs <- SameConfig
  MaxRetries <- FiniteLocal
  Faults = {"crash"}
  OperatorRetries = FALSE
  MaxVersion = 1
  ClaimLimit = 2
  U32Max = 2
SPECIFICATION Spec
CHECK_DEADLOCK FALSE
INVARIANTS
  NoJobStranded
