SPECIFICATION FairSpec
CONSTANTS
  PortMapping = TRUE
  Patience = 1
  MaxSessions = 3
  MaxMoves = 1
  MaxFaults = 2
  MaxEvents = 1
PROPERTIES Republished
CHECK_DEADLOCK FALSE
