SPECIFICATION Spec
CONSTANTS
  None = None
  Files <- MCFiles
  Instants <- MCInstants
INVARIANTS
  AcceptedStarts
  ArchiveIntact
  SnapshotsOnBoundary
  ReplicasServed
CHECK_DEADLOCK FALSE
