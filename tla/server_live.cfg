\* server_live
SPECIFICATION FairSpec
CONSTANTS
  LocalThreadCount = 2  MaxSessions = 1  QueueSize = 2
  Sockets = {k1, k2}
  None = None
PROPERTIES
  StopEnds 
\* the server has stopped
CHECK_DEADLOCK FALSE
