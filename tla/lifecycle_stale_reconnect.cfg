\* lifecycle_stale_reconnect
SPECIFICATION Spec
CONSTANTS
  t1 = t1  t2 = t2  s1 = s1  s2 = s2
  Threads = {t1, t2}
  Slots = {s1, s2}
  Owner <- TwoThreads
  Sockets = {k1, k2, k3}
  Users = {u1, u2}
  NoSlot = NoSlot  NoSocket = NoSocket  NoUser = NoUser
  MsgKinds = {}
  MaxId = 3  MaxOpen = 2  MaxMsgs = 1  MaxWrites = 0  CmdCapacity = 2
INVARIANTS
  RestoresRequestedSession
SYMMETRY SymmetryTwo
\* the clients may all be silent or gone
CHECK_DEADLOCK FALSE
