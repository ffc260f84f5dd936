CONSTANTS
  Daemons = {"first", "second"}
  NoDaemon = "none"
  Clients = {"client"}
  Capacity = 1
  MaxEvents = 2
  Faults = TRUE
  Scripts <- MCScripts
SPECIFICATION FairSpec
INVARIANTS RepliesInOrder SocketInTurn EventsInOrder
PROPERTIES Answered StopStops EventReaches
CHECK_DEADLOCK FALSE
