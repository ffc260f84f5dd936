CONSTANTS
  HoldTimeSecs = 12
  ConnectRetry = 1
  NumPrefixes = 1
  RemoteHolds = {3}
  RemoteMay = {}
  MaxTroubles = 0
  Fragmented = FALSE
  MaxDelay = 0
  MaxInFlight = 2
  SendBuffer = 3
SPECIFICATION Spec
INVARIANTS
  SessionSurvives
