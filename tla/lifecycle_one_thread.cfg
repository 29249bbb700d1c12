\* lifecycle_one_thread
SPECIFICATION Spec
CONSTANTS
  t1 = t1  t2 = t2  s1 = s1  s2 = s2
  Threads = {t1}
  Slots = {s1, s2}
  Owner <- OneThread
  Sockets = {k1, k2, k3}
  Users = {u1, u2}
  NoSlot = NoSlot  NoSocket = NoSocket  NoUser = NoUser
  MsgKinds = {"silent"}
  MaxId = 3  MaxOpen = 2  MaxMsgs = 1  MaxWrites = 0  CmdCapacity = 2
INVARIANTS
  OneHolder RegisteredIsLive  RestoresRequestedSession
SYMMETRY SymmetryOne
\* the clients may all be silent or gone
CHECK_DEADLOCK FALSE
