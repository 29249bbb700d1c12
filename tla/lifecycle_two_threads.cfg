\* lifecycle_two_threads
SPECIFICATION Spec
CONSTANTS
  t1 = t1  t2 = t2  s1 = s1  s2 = s2
  Threads = {t1, t2}
  Slots = {s1, s2}
  Owner <- TwoThreads
  Sockets = {k1, k2}
  Users = {u1}
  NoSlot = NoSlot  NoSocket = NoSocket  NoUser = NoUser
  MsgKinds = {"move"}
  MaxId = 3  MaxOpen = 2  MaxMsgs = 1  MaxWrites = 1  CmdCapacity = 1
INVARIANTS
  TypeOK OneHolder  
SYMMETRY SymmetryTwo
\* the clients may all be silent or gone
CHECK_DEADLOCK FALSE
