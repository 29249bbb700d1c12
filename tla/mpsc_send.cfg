\* mpsc_send
SPECIFICATION FairSpec
CONSTANTS
  Producers = {p1, p2}
  Capacity = 4  Limit = 3  Word = 1000  MaxPushes = 3
  NoItem = NoItem
INVARIANTS
  TypeOK NeverFull NothingLost PoppedOnce
PROPERTIES
  IsFifo EveryItemArrives
\* the producers stop at MaxPushes
CHECK_DEADLOCK FALSE
