\* send_path
SPECIFICATION FairSpec
CONSTANTS
  Senders = {p1, p2}
  Strand = Strand
  BatchSize = 2  Limit = 3  StoreBuffer = FALSE  MaxCalls = 2
INVARIANTS
  TypeOK OneWriter PacketAttended WrittenInOrder
PROPERTIES
  EveryPacketIsWritten
\* the senders stop at MaxCalls
CHECK_DEADLOCK FALSE
