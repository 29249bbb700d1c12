\* receive_path
SPECIFICATION FairSpec
CONSTANTS
  Header = 2  MaxPacket = 3  Capacity = 5  RingSize = 2  MaxFrames = 3
INVARIANTS
  TypeOK RoomToRead WholeInOrder BuffersAccounted
PROPERTIES
  IncomingQueueIsFifo FrameIsSettled
\* the client may be silent for ever, or gone
CHECK_DEADLOCK FALSE
