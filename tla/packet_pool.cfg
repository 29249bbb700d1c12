\* packet_pool
SPECIFICATION Spec
CONSTANTS
  t1 = t1  t2 = t2  t3 = t3
  Threads = {t1, t2, t3}
  PageSize = 3  CacheCapacity = 1  BatchSize = 2  Retries = 1  MaxPages = 2
  Shared = {1}
  NoBuffer = NoBuffer  NoThread = NoThread
INVARIANTS
  TypeOK OnePlace LostPerExpansion 
PROPERTIES
  AllocatesExclusively
SYMMETRY Symmetry
\* nothing runs after Shutdown
CHECK_DEADLOCK FALSE
