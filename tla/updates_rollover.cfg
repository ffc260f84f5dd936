CONSTANTS
  Callers = {r1, r2}
  MaxBucket = 1
  IntervalSecs = 900
  Delayed = FALSE
  Rollovers = TRUE
  MaxFaults = 0
SPECIFICATION Spec
INVARIANTS
  AckedRetained
