CONSTANTS
  Callers = {r1, r2}
  MaxBucket = 3
  IntervalSecs = 900
  Delayed = TRUE
  Rollovers = TRUE
  MaxFaults = 2
SPECIFICATION FairSpec
INVARIANTS
  TypeOK
  NotBeforeItsTime
  AckedRetainedInTime
  WrittenOnce
  NeverUninitialized
PROPERTIES
  FinalizedKept
  CatchesUp
