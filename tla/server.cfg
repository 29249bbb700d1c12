\* server
SPECIFICATION Spec
CONSTANTS
  LocalThreadCount = 2  MaxSessions = 2  QueueSize = 2
  Sockets = {k1, k2, k3}
  None = None
SYMMETRY Symmetry
INVARIANTS
  TypeOK ActiveAreUsed EachVisitedOnce   
\* the server has stopped
CHECK_DEADLOCK FALSE
