CONSTANTS
  HoldTimeSecs = 6
  ConnectRetry = 1
  NumPrefixes = 3
  RemoteHolds = {0, 3, 6}
  RemoteMay <- AnyTrouble
  MaxTroubles = 1
  Fragmented = TRUE
  MaxDelay = 1
  MaxInFlight = 2
  SendBuffer = 3
SPECIFICATION FairSpec
INVARIANTS
  TypeOK
  GoodSessionSurvives
  EstablishedIsReal
PROPERTIES
  ImplementsFsm
  DeadPeerNoticed
  ComesBack
