\* send_lost_wakeup
SPECIFICATION FairSpec
CONSTANTS
  Senders = {p1, p2}
  Strand = Strand
  BatchSize = 2  Limit = 3  StoreBuffer = TRUE  MaxCalls = 2
PROPERTIES
  EveryPacketIsWritten
\* the senders stop at MaxCalls
CHECK_DEADLOCK FALSE
