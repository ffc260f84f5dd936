CONSTANTS
  Scheduler = sched
  Operators = {op1}
  NoTask = none
  MaxCrashes = 2
  MaxFaults = 2
SPECIFICATION FairSpec
CHECK_DEADLOCK FALSE
INVARIANTS
  TypeOK
  FinalIsWhole
  ManifestMatchesInTurn
  LastIsPublished
PROPERTIES
  SchedulerSucceeds
