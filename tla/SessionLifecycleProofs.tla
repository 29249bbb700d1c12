----------------------- MODULE SessionLifecycleProofs -----------------------
(***************************************************************************)
(* Proofs about SessionLifecycle for any number of local threads, slots,   *)
(* sockets and users, every order of their steps and every bound: type     *)
(* correctness, that the registry points at live sessions only, that no    *)
(* two sessions hold one socket, what a reconnection restores, and that a  *)
(* client's token is never the token of another user's session.            *)
(***************************************************************************)
EXTENDS SessionLifecycle, TLAPS

USE OwnerAssumption, NullAssumption, KindAssumption, BoundAssumption

-------------------------------------------------------------------------------
(* Type correctness.  TypeOK is not inductive: that the local variables of a   *)
(* thread have meaningful values depends on where the thread is.               *)

LoginPc  == {"find", "check", "kick", "login", "recheck", "take", "strip", "bind", "activate"}
TargetPc == {"check", "kick", "recheck", "take", "strip", "bind", "activate"}
SocketPc == {"start", "strip", "bind", "release"}

\* A thread works on a slot of its own that is in use, and has the request, the found
\* session and the socket that its place in the code supposes.
WorkOK ==
  \A t \in Threads :
    /\ pc[t] # "tick" => cur[t] \in used /\ Owner[cur[t]] = t
    /\ pc[t] \in LoginPc => req[t] \in Login
    /\ pc[t] \in TargetPc => target[t] \in Slots
    /\ pc[t] \in SocketPc => carried[t] \in Sockets

Typing == TypeOK /\ WorkOK

LEMMA InitTyping == Init => Typing
  BY DEF Init, Typing, TypeOK, SessionTypeOK, TableTypeOK, ThreadTypeOK, SocketTypeOK,
         ClientTypeOK, WorkOK, SlotOrNone, SocketOrNone, SessionState, LinkState, ThreadPc,
         HandlerPc, Ids, LoginPc, TargetPc, SocketPc

\* Appending to one of a family of queues.
LEMMA AppendTyping ==
  ASSUME NEW S, NEW M, NEW f \in [S -> Seq(M)], NEW s \in S, NEW m \in M
  PROVE  [f EXCEPT ![s] = Append(@, m)] \in [S -> Seq(M)]
<1>1. Append(f[s], m) \in Seq(M)
  OBVIOUS
<1> QED
  BY <1>1

\* A command posted to a thread is added to the queue of that thread or is lost, and the
\* queue never grows over its capacity.
LEMMA PostTyping ==
  ASSUME TableTypeOK, NEW t \in Threads, NEW c \in Command
  PROVE  /\ Post(t, c) \in [Threads -> Seq(Command)]
         /\ \A v \in Threads : Len(Post(t, c)[v]) <= CmdCapacity
<1>1. Append(cmds[t], c) \in Seq(Command) /\ Len(Append(cmds[t], c)) = Len(cmds[t]) + 1
  BY DEF TableTypeOK
<1>2. Len(cmds[t]) \in Nat
  BY DEF TableTypeOK
<1> QED
  BY <1>1, <1>2 DEF Post, TableTypeOK

LEMMA ClientTyping ==
  ASSUME Typing, NEW u \in Users, ClientStep(u) PROVE Typing'
<1> USE DEF Typing, TypeOK, WorkOK, sessionVars, tableVars, threadVars, handlerVars, lifeVars,
            LoginPc, TargetPc, SocketPc
<1>1. ASSUME NEW k \in Sockets, NEW t \in Threads, Accept(u, k, t) PROVE Typing'
  <2>1. [op |-> "create", socket |-> k] \in Command
    BY DEF Command
  <2>2. cmds' \in [Threads -> Seq(Command)] /\ \A v \in Threads : Len(cmds'[v]) <= CmdCapacity
    <3>1. cmds' = cmds \/ cmds' = Post(t, [op |-> "create", socket |-> k])
      BY <1>1 DEF Accept
    <3> QED
      BY <2>1, <3>1, PostTyping DEF TableTypeOK
  <2>3. [kind |-> "login", usn |-> u, token |-> token[u]] \in Message
    BY DEF Message, Login, ClientTypeOK
  <2>4. wire' \in [Sockets -> Seq(Message)]
    <3> DEFINE m == [kind |-> "login", usn |-> u, token |-> token[u]]
    <3> HIDE DEF m
    <3>1. wire' = wire \/ wire' = [wire EXCEPT ![k] = <<m>>]
      BY <1>1 DEF Accept, m, clientVars
    <3>2. <<m>> \in Seq(Message)
      BY <2>3 DEF m
    <3> QED
      BY <3>1, <3>2 DEF ClientTypeOK
  <2>5. ClientTypeOK'
    <3>1. /\ conn' = [conn EXCEPT ![u] = k]
          /\ gone' = gone \/ gone' = [gone EXCEPT ![k] = TRUE]
          /\ token' = token /\ sent' = sent
      BY ONLY <1>1 DEF Accept
    <3>2. conn' \in [Users -> SocketOrNone]
      BY <3>1 DEF SocketOrNone, ClientTypeOK
    <3>3. gone' \in [Sockets -> BOOLEAN]
      BY <3>1 DEF ClientTypeOK
    <3> QED
      BY <2>4, <3>1, <3>2, <3>3 DEF ClientTypeOK
  <2>6. SocketTypeOK'
    BY <1>1 DEF Accept, SocketTypeOK, LinkState
  <2> QED
    BY <1>1, <2>2, <2>5, <2>6 DEF Accept, SessionTypeOK, TableTypeOK, ThreadTypeOK
<1>2. CASE ClientSend(u)
  <2>1. wire' \in [Sockets -> Seq(Message)]
    <3>1. PICK m \in Message : wire' = [wire EXCEPT ![conn[u]] = Append(@, m)]
      BY <1>2 DEF ClientSend, Message
    <3> QED
      BY <1>2, <3>1 DEF ClientSend, ClientTypeOK, SocketOrNone
  <2> QED
    BY <1>2, <2>1 DEF ClientSend, SessionTypeOK, TableTypeOK, ThreadTypeOK, SocketTypeOK, ClientTypeOK
<1>3. CASE Leave(u)
  BY <1>3 DEF Leave, SessionTypeOK, TableTypeOK, ThreadTypeOK, SocketTypeOK, ClientTypeOK, SocketOrNone
<1> QED
  BY <1>1, <1>2, <1>3 DEF ClientStep

LEMMA HandlerTyping ==
  ASSUME Typing, NEW k \in Sockets, HandlerStep(k) \/ RunDestroy(k) PROVE Typing'
<1> USE DEF Typing, TypeOK, SessionTypeOK, TableTypeOK, ThreadTypeOK, SocketTypeOK, ClientTypeOK,
            WorkOK, sessionVars, tableVars, threadVars, handlerVars, lifeVars, clientVars,
            SlotOrNone, SocketOrNone, HandlerPc, SessionState, LinkState
<1>1. CASE ReadMessage(k)
  <2>1. Head(wire[k]) \in Message /\ wire' \in [Sockets -> Seq(Message)]
    BY <1>1 DEF ReadMessage
  <2>2. inbox' \in [Slots -> Seq(Message)]
    <3>1. \/ inbox' = inbox
          \/ /\ sessionOf[k] \in Slots
             /\ inbox' = [inbox EXCEPT ![sessionOf[k]] = Append(@, Head(wire[k]))]
      BY <1>1 DEF ReadMessage
    <3>2. inbox \in [Slots -> Seq(Message)]
      OBVIOUS
    <3>3. ASSUME NEW s \in Slots
          PROVE  [inbox EXCEPT ![s] = Append(@, Head(wire[k]))] \in [Slots -> Seq(Message)]
      <4>1. s \in Slots /\ Head(wire[k]) \in Message
        BY <2>1, <3>3
      <4> QED
        BY ONLY <3>2, <4>1, AppendTyping
    <3> QED
      BY ONLY <3>1, <3>2, <3>3
  <2>3. link' \in [Sockets -> LinkState]
    BY <1>1 DEF ReadMessage, Closing
  <2> QED
    BY <1>1, <2>1, <2>2, <2>3 DEF ReadMessage
<1>2. CASE DoRead(k)
  BY <1>2 DEF DoRead
<1>3. CASE ReadError(k)
  BY <1>3 DEF ReadError
<1>4. CASE HandlerUnbind(k)
  <2>1. socketOf' \in [Slots -> SocketOrNone] /\ sessionOf' \in [Sockets -> SlotOrNone]
    BY <1>4 DEF HandlerUnbind, UnbindSocket
  <2>2. posted' \in [Sockets -> Nat]
    BY <1>4 DEF HandlerUnbind
  <2> QED
    BY <1>4, <2>1, <2>2 DEF HandlerUnbind
<1>5. CASE HandlerLoad(k)
  BY <1>5 DEF HandlerLoad
<1>6. CASE HandlerTimer(k)
  BY <1>6 DEF HandlerTimer
<1>7. CASE HandlerStore(k)
  BY <1>7 DEF HandlerStore
<1>8. CASE HandlerClose(k)
  BY <1>8 DEF HandlerClose, Closing
<1>9. CASE RunDestroy(k)
  BY <1>9 DEF RunDestroy, Delete, Closing
<1>10. CASE WriteDone(k)
  BY <1>10 DEF WriteDone
<1>11. CASE WriteError(k)
  BY <1>11 DEF WriteError
<1> QED
  BY <1>1, <1>2, <1>3, <1>4, <1>5, <1>6, <1>7, <1>8, <1>9, <1>10, <1>11 DEF HandlerStep

\* The steps with which a local thread creates, visits and removes sessions.
LEMMA PoolTyping ==
  ASSUME Typing, NEW t \in Threads,
         \/ CreateSession(t) \/ StartSocket(t) \/ RemoveCommand(t)
         \/ (\E s \in Slots : VisitSession(t, s)) \/ EndPackets(t) \/ RemoveSession(t)
  PROVE  Typing'
<1> USE DEF Typing, TypeOK, SessionTypeOK, TableTypeOK, ThreadTypeOK, SocketTypeOK, ClientTypeOK,
            WorkOK, sessionVars, tableVars, threadVars, handlerVars, lifeVars, clientVars,
            SlotOrNone, SocketOrNone, Goto, ThreadPc, LoginPc, TargetPc, SocketPc
<1>1. CASE CreateSession(t)
  <2>1. Head(cmds[t]) \in Command
    BY <1>1 DEF CreateSession
  <2>2. Head(cmds[t]).socket \in Sockets
    BY <1>1, <2>1 DEF CreateSession, Command
  <2> DEFINE k == Head(cmds[t]).socket
  <2>k. k \in Sockets
    BY <2>2
  <2> HIDE DEF k
  <2>3. cmds' \in [Threads -> Seq(Command)] /\ \A v \in Threads : Len(cmds'[v]) <= CmdCapacity
    BY <1>1, SMTT(40) DEF CreateSession
  <2>4. CASE \E s \in Slots \ used : Owner[s] = t
    <3>1. PICK s \in Slots \ used :
            /\ Owner[s] = t
            /\ used' = used \cup {s} /\ registry' = registry \cup {s}
            /\ id' = [id EXCEPT ![s] = nextId] /\ nextId' = nextId + 1
            /\ timer' = [timer EXCEPT ![s] = "off"]
            /\ socketOf' = [socketOf EXCEPT ![s] = k]
            /\ sessionOf' = [sessionOf EXCEPT ![k] = s]
            /\ state' = [state EXCEPT ![s] = "Active"]
            /\ cur' = [cur EXCEPT ![t] = s] /\ carried' = [carried EXCEPT ![t] = k]
            /\ pc' = [pc EXCEPT ![t] = "start"]
            /\ UNCHANGED <<link, lifeVars, gone>>
      BY <1>1, <2>4 DEF CreateSession, k
    <3>2. nextId \in Ids /\ nextId + 1 \in 1 .. MaxId + 1 /\ "Active" \in SessionState
      <4>1. nextId <= MaxId /\ nextId \in 1 .. MaxId + 1
        BY <1>1 DEF CreateSession
      <4> QED
        BY <4>1, BoundAssumption DEF Ids, SessionState
    <3>3. UNCHANGED <<usn, inbox, req, target, handlerVars, conn, token, sent, wire>>
      BY <1>1 DEF CreateSession
    <3>4. SessionTypeOK'
      BY <2>k, <3>1, <3>2, <3>3
    <3>5. SocketTypeOK'
      BY <2>k, <3>1, <3>3
    <3>6. ThreadTypeOK' /\ ClientTypeOK'
      BY <2>k, <3>1, <3>3
    <3>7. TableTypeOK'
      BY <2>3, <3>1, <3>2
    <3>8. WorkOK'
      BY <2>k, <3>1, <3>3
    <3> QED
      BY <3>4, <3>5, <3>6, <3>7, <3>8
  <2>5. CASE ~ \E s \in Slots \ used : Owner[s] = t
    <3>1. /\ Delete(k)
          /\ gone' = [gone EXCEPT ![k] = TRUE]
          /\ UNCHANGED <<used, registry, id, nextId, timer, socketOf, sessionOf, state, cur,
                         carried, pc, posted, usn, inbox, req, target, handlerVars, conn,
                         token, sent, wire>>
      BY <1>1, <2>5 DEF CreateSession, k
    <3>2. SocketTypeOK' /\ ClientTypeOK'
      BY <2>k, <3>1 DEF Delete, Closing, LinkState
    <3>3. SessionTypeOK' /\ ThreadTypeOK' /\ WorkOK'
      BY <3>1
    <3>4. TableTypeOK'
      BY <2>3, <3>1
    <3> QED
      BY <3>2, <3>3, <3>4
  <2> QED
    BY <2>4, <2>5
<1>2. CASE StartSocket(t)
  BY <1>2 DEF StartSocket, LinkState
<1>3. CASE RemoveCommand(t)
  <2>1. cmds' \in [Threads -> Seq(Command)] /\ \A v \in Threads : Len(cmds'[v]) <= CmdCapacity
    BY <1>3 DEF RemoveCommand
  <2>2. CASE UNCHANGED <<cur, pc>>
    BY <1>3, <2>1, <2>2 DEF RemoveCommand
  <2>3. ASSUME NEW s \in used, Owner[s] = t, cur' = [cur EXCEPT ![t] = s],
               pc' = [pc EXCEPT ![t] = "unregister"]
        PROVE  Typing'
    BY <1>3, <2>1, <2>3 DEF RemoveCommand
  <2> QED
    BY <1>3, <2>2, <2>3 DEF RemoveCommand
<1>4. ASSUME NEW s \in Slots, VisitSession(t, s) PROVE Typing'
  <2>1. PICK w \in {"packets", "unregister"} : pc' = [pc EXCEPT ![t] = w]
    BY <1>4 DEF VisitSession
  <2> QED
    BY <1>4, <2>1 DEF VisitSession
<1>5. CASE EndPackets(t)
  BY <1>5 DEF EndPackets
<1>6. CASE Unregister(t)
  BY <1>6 DEF Unregister, Unregistered
<1>7. CASE ReleaseSocket(t)
  BY <1>7 DEF ReleaseSocket, UnbindSocket, Delete, Closing, LinkState
<1>8. CASE FreeSession(t)
  BY <1>8 DEF FreeSession, UnbindSocket, SessionState, Ids
<1> QED
  BY <1>1, <1>2, <1>3, <1>4, <1>5, <1>6, <1>7, <1>8 DEF RemoveSession

\* The steps with which a local thread handles a packet.
LEMMA PacketTyping ==
  ASSUME Typing, NEW t \in Threads,
         \/ HandleMove(t) \/ HandleLogin(t) \/ FindByUsn(t) \/ CheckReconnect(t)
         \/ KickSession(t) \/ NewLogin(t) \/ Restore(t)
  PROVE  Typing'
<1> USE DEF Typing, TypeOK, SessionTypeOK, TableTypeOK, ThreadTypeOK, SocketTypeOK, ClientTypeOK,
            WorkOK, sessionVars, tableVars, threadVars, handlerVars, lifeVars, clientVars,
            SlotOrNone, SocketOrNone, Goto, ThreadPc, LoginPc, TargetPc, SocketPc
<1>1. CASE HandleMove(t)
  <2>1. cur[t] \in Slots
    BY <1>1 DEF HandleMove
  <2>2. inbox' \in [Slots -> Seq(Message)]
    BY <1>1, <2>1 DEF HandleMove
  <2>3. link' \in [Sockets -> LinkState] /\ writing' \in [Sockets -> BOOLEAN]
    BY <1>1 DEF HandleMove, StartWrites, LinkState
  <2> QED
    BY <1>1, <2>2, <2>3 DEF HandleMove
<1>2. CASE HandleLogin(t)
  <2>1. cur[t] \in Slots
    BY <1>2 DEF HandleLogin
  <2>2. Head(inbox[cur[t]]) \in Message /\ Tail(inbox[cur[t]]) \in Seq(Message)
    BY <1>2, <2>1 DEF HandleLogin
  <2>3. Head(inbox[cur[t]]) \in Login
    BY <1>2, <2>2 DEF HandleLogin, Message, Request, Login
  <2>4. PICK w \in {"find", "login"} : pc' = [pc EXCEPT ![t] = w]
    BY <1>2 DEF HandleLogin
  <2> QED
    BY <1>2, <2>1, <2>2, <2>3, <2>4 DEF HandleLogin
<1>3. CASE FindByUsn(t)
  <2>1. CASE pc' = [pc EXCEPT ![t] = "login"] /\ UNCHANGED target
    BY <1>3, <2>1 DEF FindByUsn
  <2>2. ASSUME NEW s \in registry, target' = [target EXCEPT ![t] = s],
               pc' = [pc EXCEPT ![t] = "check"]
        PROVE  Typing'
    BY <1>3, <2>2 DEF FindByUsn
  <2> QED
    BY <1>3, <2>1, <2>2 DEF FindByUsn
<1>4. CASE CheckReconnect(t)
  <2>1. PICK w \in {"recheck", "kick"} : pc' = [pc EXCEPT ![t] = w]
    BY <1>4 DEF CheckReconnect
  <2>2. link' \in [Sockets -> LinkState]
    BY <1>4 DEF CheckReconnect, Closing, LinkState
  <2> QED
    BY <1>4, <2>1, <2>2 DEF CheckReconnect
<1>5. CASE KickSession(t)
  BY <1>5 DEF KickSession, Unregistered, SessionState
<1>6. CASE NewLogin(t)
  BY <1>6 DEF NewLogin, UsnSet, Respond, StartWrites, Login
<1>7. CASE Recheck(t)
  <2>1. CASE UNCHANGED <<socketOf, sessionOf, posted, link>>
    BY <1>7, <2>1 DEF Recheck
  <2>2. ASSUME socketOf[target[t]] \in Sockets, UnbindSocket(target[t]),
               posted' = [posted EXCEPT ![socketOf[target[t]]] = @ + 1],
               link' = Closing(socketOf[target[t]])
        PROVE  Typing'
    <3>1. socketOf' \in [Slots -> SocketOrNone] /\ sessionOf' \in [Sockets -> SlotOrNone]
      BY <2>2 DEF UnbindSocket
    <3>2. posted' \in [Sockets -> Nat] /\ link' \in [Sockets -> LinkState]
      BY <2>2, SMTT(40) DEF Closing, LinkState
    <3>3. SessionTypeOK' /\ SocketTypeOK'
      BY <1>7, <3>1, <3>2 DEF Recheck
    <3>4. TableTypeOK' /\ ClientTypeOK'
      BY <1>7 DEF Recheck
    <3>5. ThreadTypeOK' /\ WorkOK'
      BY <1>7 DEF Recheck
    <3> QED
      BY <3>3, <3>4, <3>5
  <2>3. target[t] \in Slots
    BY <1>7 DEF Recheck
  <2> QED
    <3>1. \/ UNCHANGED <<socketOf, sessionOf, posted, link>>
          \/ /\ socketOf[target[t]] # NoSocket
             /\ UnbindSocket(target[t])
             /\ posted' = [posted EXCEPT ![socketOf[target[t]]] = @ + 1]
             /\ link' = Closing(socketOf[target[t]])
      BY <1>7 DEF Recheck
    <3>2. CASE UNCHANGED <<socketOf, sessionOf, posted, link>>
      BY <2>1, <3>2
    <3>3. CASE /\ socketOf[target[t]] # NoSocket
               /\ UnbindSocket(target[t])
               /\ posted' = [posted EXCEPT ![socketOf[target[t]]] = @ + 1]
               /\ link' = Closing(socketOf[target[t]])
      <4>1. socketOf[target[t]] \in Sockets
        BY <2>3, <3>3
      <4> QED
        BY <2>2, <3>3, <4>1
    <3> QED
      BY <3>1, <3>2, <3>3
<1>8. CASE TakeSocket(t)
  <2>1. CASE socketOf[cur[t]] = NoSocket
    <3>1. /\ pc' = [pc EXCEPT ![t] = "packets"] /\ target' = [target EXCEPT ![t] = NoSlot]
          /\ req' = [req EXCEPT ![t] = NoLogin] /\ carried' = carried
          /\ UNCHANGED <<sessionVars, tableVars, cmds, cur, link, sessionOf, handlerVars,
                         lifeVars, clientVars>>
      BY <1>8, <2>1 DEF TakeSocket
    <3>2. pc[t] = "take"
      BY <1>8 DEF TakeSocket
    <3>3. ThreadTypeOK' /\ WorkOK'
      BY <3>1, <3>2
    <3> QED
      BY <3>1, <3>3
  <2>2. CASE socketOf[cur[t]] # NoSocket
    <3>1. /\ pc' = [pc EXCEPT ![t] = "strip"]
          /\ carried' = [carried EXCEPT ![t] = socketOf[cur[t]]]
          /\ UNCHANGED <<sessionVars, tableVars, cmds, cur, target, req, link, sessionOf,
                         handlerVars, lifeVars, clientVars>>
      BY <1>8, <2>2 DEF TakeSocket
    <3>2. pc[t] = "take" /\ socketOf[cur[t]] \in Sockets
      BY <1>8, <2>2 DEF TakeSocket
    <3>3. ThreadTypeOK' /\ WorkOK'
      BY <3>1, <3>2
    <3> QED
      BY <3>1, <3>3
  <2> QED
    BY <2>1, <2>2
<1>9. CASE StripSession(t)
  BY <1>9 DEF StripSession, UnbindSocket
<1>10. CASE BindOldSession(t)
  <2>1. target[t] \in Slots /\ carried[t] \in Sockets
    BY <1>10 DEF BindOldSession
  <2>2. /\ socketOf' \in [Slots -> SocketOrNone] /\ sessionOf' \in [Sockets -> SlotOrNone]
        /\ timer' \in [Slots -> {"off", "running", "expired"}]
    <3>1. \/ UNCHANGED <<socketOf, sessionOf, timer>>
          \/ /\ socketOf' = [socketOf EXCEPT ![target[t]] = carried[t]]
             /\ sessionOf' = [sessionOf EXCEPT ![carried[t]] = target[t]]
             /\ timer' = [timer EXCEPT ![target[t]] = "off"]
      BY <1>10 DEF BindOldSession
    <3>2. CASE UNCHANGED <<socketOf, sessionOf, timer>>
      BY <3>2
    <3>3. CASE /\ socketOf' = [socketOf EXCEPT ![target[t]] = carried[t]]
               /\ sessionOf' = [sessionOf EXCEPT ![carried[t]] = target[t]]
               /\ timer' = [timer EXCEPT ![target[t]] = "off"]
      BY <2>1, <3>3, SMTT(40)
    <3> QED
      BY <3>1, <3>2, <3>3, SMTT(40)
  <2>3. SessionTypeOK' /\ SocketTypeOK'
    BY <1>10, <2>2 DEF BindOldSession
  <2>4. TableTypeOK' /\ ClientTypeOK'
    BY <1>10 DEF BindOldSession
  <2>5. ThreadTypeOK' /\ WorkOK'
    BY <1>10 DEF BindOldSession
  <2> QED
    BY <2>3, <2>4, <2>5
<1>11. CASE ActivateOldSession(t)
  <2>1. target[t] \in Slots /\ cur[t] \in Slots
    BY <1>11 DEF ActivateOldSession
  <2>2. [op |-> "remove", id |-> id[cur[t]]] \in Command
    BY <2>1 DEF Command
  <2>3. /\ cmds' \in [Threads -> Seq(Command)]
        /\ \A v \in Threads : Len(cmds'[v]) <= CmdCapacity
    <3>1. cmds' = Post(t, [op |-> "remove", id |-> id[cur[t]]])
      BY ONLY <1>11 DEF ActivateOldSession
    <3> QED
      BY <2>2, <3>1, PostTyping DEF TableTypeOK
  <2>4. writing' \in [Sockets -> BOOLEAN] /\ token' \in [Users -> Ids]
    BY <1>11, <2>1 DEF ActivateOldSession, Respond, StartWrites
  <2>5. SessionTypeOK'
    BY <1>11, <2>1 DEF ActivateOldSession, SessionState
  <2>6. TableTypeOK' /\ SocketTypeOK' /\ ClientTypeOK'
    BY <1>11, <2>3, <2>4 DEF ActivateOldSession
  <2>7. ThreadTypeOK' /\ WorkOK'
    BY <1>11 DEF ActivateOldSession
  <2> QED
    BY <2>5, <2>6, <2>7
<1> QED
  BY <1>1, <1>2, <1>3, <1>4, <1>5, <1>6, <1>7, <1>8, <1>9, <1>10, <1>11 DEF Restore

LEMMA TypingStep == Typing /\ [Next]_vars => Typing'
<1> SUFFICES ASSUME Typing, [Next]_vars PROVE Typing'
  OBVIOUS
<1>1. CASE UNCHANGED vars
  BY <1>1 DEF vars, sessionVars, tableVars, threadVars, handlerVars, lifeVars, clientVars, Typing,
              TypeOK, SessionTypeOK, TableTypeOK, ThreadTypeOK, SocketTypeOK, ClientTypeOK, WorkOK
<1>2. ASSUME NEW s \in Slots, Expire(s) PROVE Typing'
  BY <1>2 DEF Expire, tableVars, threadVars, handlerVars, lifeVars, clientVars, Typing, TypeOK,
              SessionTypeOK, TableTypeOK, ThreadTypeOK, SocketTypeOK, ClientTypeOK, WorkOK
<1>3. ASSUME NEW t \in Threads, LocalThreadStep(t) PROVE Typing'
  BY <1>3, PoolTyping, PacketTyping DEF LocalThreadStep
<1> QED
  BY <1>1, <1>2, <1>3, ClientTyping, HandlerTyping DEF Next

\* The state of the server keeps its types: in particular a thread never handles a
\* request, a found session or a socket that is not there.
THEOREM TypeCorrectness == Spec => []TypeOK
<1>1. Init => Typing
  BY InitTyping
<1>2. Typing /\ [Next]_vars => Typing'
  BY TypingStep
<1>3. Typing => TypeOK
  BY DEF Typing
<1> QED
  BY <1>1, <1>2, <1>3, PTL DEF Spec

-------------------------------------------------------------------------------
(* The registry.  A slot is freed two steps after it was unregistered, so the  *)
(* invariant says of the threads on the way that their session is not in it.   *)

RegistryInv ==
  /\ RegisteredIsLive
  /\ \A t \in Threads : pc[t] \in {"release", "free"} => cur[t] \notin registry

LEMMA RegistryStep == Typing /\ RegistryInv /\ [Next]_vars => RegistryInv'
<1> SUFFICES ASSUME Typing, RegistryInv, [Next]_vars PROVE RegistryInv'
  OBVIOUS
<1> USE DEF RegistryInv, RegisteredIsLive, sessionVars, tableVars, threadVars, handlerVars, lifeVars, clientVars
<1>1. CASE UNCHANGED <<registry, used, id, pc, cur>>
  BY <1>1
<1>2. ASSUME NEW t \in Threads, CreateSession(t) PROVE RegistryInv'
  <2>1. CASE UNCHANGED <<registry, used, id, cur, pc>>
    BY <1>1, <2>1
  <2>2. ASSUME NEW s \in Slots \ used, used' = used \cup {s}, registry' = registry \cup {s},
               id' = [id EXCEPT ![s] = nextId], cur' = [cur EXCEPT ![t] = s],
               pc' = [pc EXCEPT ![t] = "start"]
        PROVE  RegistryInv'
    <3>1. nextId # 0 /\ id'[s] = nextId
      BY <2>2 DEF Typing, TypeOK, TableTypeOK, SessionTypeOK
    <3>2. RegisteredIsLive'
      BY <2>2, <3>1 DEF Typing, TypeOK, SessionTypeOK, TableTypeOK
    <3>3. ASSUME NEW v \in Threads, pc'[v] \in {"release", "free"} PROVE cur'[v] \notin registry'
      BY <2>2, <3>3 DEF Typing, TypeOK, ThreadTypeOK, WorkOK
    <3> QED
      BY <3>2, <3>3
  <2> QED
    BY <1>2, <2>1, <2>2 DEF CreateSession, Goto
<1>3. ASSUME NEW t \in Threads, pc[t] \notin {"release", "free"},
             NEW w \in ThreadPc \ {"release", "free"}, pc' = [pc EXCEPT ![t] = w],
             \A v \in Threads \ {t} : cur'[v] = cur[v],
             registry' \subseteq registry, UNCHANGED <<used, id>>
      PROVE  RegistryInv'
  BY <1>3 DEF Typing, TypeOK, ThreadTypeOK
<1>4. ASSUME NEW t \in Threads, Unregister(t) PROVE RegistryInv'
  BY <1>4 DEF Unregister, Unregistered, Goto, Typing, TypeOK, SessionTypeOK, TableTypeOK, ThreadTypeOK, WorkOK
<1>5. ASSUME NEW t \in Threads, ReleaseSocket(t) PROVE RegistryInv'
  BY <1>5 DEF ReleaseSocket, Goto, Typing, TypeOK, SessionTypeOK, TableTypeOK, ThreadTypeOK, WorkOK
<1>6. ASSUME NEW t \in Threads, FreeSession(t) PROVE RegistryInv'
  BY <1>6 DEF FreeSession, Goto, Typing, TypeOK, SessionTypeOK, TableTypeOK, ThreadTypeOK, WorkOK
<1>7. ASSUME NEW t \in Threads, StartSocket(t) \/ RemoveCommand(t) \/ EndPackets(t)
             \/ \E s \in Slots : VisitSession(t, s)
      PROVE  RegistryInv'
  BY <1>1, <1>3, <1>7 DEF StartSocket, RemoveCommand, VisitSession, EndPackets, Goto, ThreadPc,
     Typing, TypeOK, ThreadTypeOK
<1>8. ASSUME NEW t \in Threads, HandleMove(t) \/ HandleLogin(t) \/ FindByUsn(t)
             \/ CheckReconnect(t) \/ KickSession(t) \/ NewLogin(t)
      PROVE  RegistryInv'
  BY <1>1, <1>3, <1>8 DEF HandleMove, HandleLogin, FindByUsn, CheckReconnect, KickSession,
     Unregistered, NewLogin, Goto, ThreadPc
<1>9. ASSUME NEW t \in Threads, Restore(t) PROVE RegistryInv'
  BY <1>1, <1>3, <1>9 DEF Restore, Recheck, TakeSocket, StripSession, BindOldSession,
     ActivateOldSession, Goto, ThreadPc
<1>10. ASSUME NEW u \in Users, ClientStep(u) PROVE RegistryInv'
  BY <1>1, <1>10 DEF ClientStep, Accept, ClientSend, Leave
<1>11. ASSUME NEW k \in Sockets, HandlerStep(k) \/ RunDestroy(k) PROVE RegistryInv'
  BY <1>1, <1>11 DEF HandlerStep, ReadMessage, DoRead, ReadError, WriteDone, WriteError, HandlerUnbind,
     HandlerLoad, HandlerTimer, HandlerStore, HandlerClose, RunDestroy
<1>12. ASSUME NEW s \in Slots, Expire(s) PROVE RegistryInv'
  BY <1>1, <1>12 DEF Expire
<1>13. CASE UNCHANGED vars
  BY <1>1, <1>13 DEF vars
<1> QED
  BY <1>2, <1>4, <1>5, <1>6, <1>7, <1>8, <1>9, <1>10, <1>11, <1>12, <1>13
     DEF Next, LocalThreadStep, RemoveSession

\* The registry never points at a slot that has been given back to its pool, so a search
\* by USN returns a session that its owner still runs (CSessionManager, RemoveSession).
THEOREM RegistryLive == Spec => []RegisteredIsLive
<1>1. Init => Typing /\ RegistryInv
  BY InitTyping DEF Init, RegistryInv, RegisteredIsLive
<1>2. Typing /\ RegistryInv /\ [Next]_vars => (Typing /\ RegistryInv)'
  BY TypingStep, RegistryStep
<1>3. RegistryInv => RegisteredIsLive
  BY DEF RegistryInv
<1> QED
  BY <1>1, <1>2, <1>3, PTL DEF Spec

-------------------------------------------------------------------------------
(* One holder per socket.  A socket is handed from the command queue to a new  *)
(* session and, in a reconnection, from one session to another by way of the   *)
(* local variable of the thread; the invariant follows it all the way.         *)

IsCreate(c, k) == c.op = "create" /\ c.socket = k
Moving(t) == pc[t] \in {"strip", "bind"}

\* Some session holds the socket, or a thread is about to give it to one.
InUse(k) ==
  \/ \E s \in Slots : socketOf[s] = k
  \/ \E t \in Threads : Moving(t) /\ carried[t] = k

QueuedOnce ==
  \A t, v \in Threads : \A i \in 1 .. Len(cmds[t]), j \in 1 .. Len(cmds[v]) : \A k \in Sockets :
    IsCreate(cmds[t][i], k) /\ IsCreate(cmds[v][j], k) => t = v /\ i = j
QueuedIsNew ==
  \A t \in Threads : \A i \in 1 .. Len(cmds[t]) : \A k \in Sockets :
    IsCreate(cmds[t][i], k) => ~InUse(k) /\ link[k] # "unborn"
UnbornIsNew == \A k \in Sockets : link[k] = "unborn" => ~InUse(k)
MovingIsHeld ==
  \A t \in Threads : Moving(t) =>
    /\ \A s \in Slots : socketOf[s] = carried[t] => pc[t] = "strip" /\ s = cur[t]
    /\ \A v \in Threads \ {t} : Moving(v) => carried[t] # carried[v]
Exclusive == OneHolder /\ QueuedOnce /\ QueuedIsNew /\ UnbornIsNew /\ MovingIsHeld

\* Most steps take sockets away from sessions at most, begin no move, queue no socket
\* and unmake none.
Quiet ==
  /\ \A s \in Slots : socketOf'[s] \in {socketOf[s], NoSocket}
  /\ \A t \in Threads : Moving(t)' =>
       Moving(t) /\ pc'[t] = pc[t] /\ carried'[t] = carried[t] /\ cur'[t] = cur[t]
  /\ \A t \in Threads : \E d \in {0, 1} : \A i \in 1 .. Len(cmds'[t]) : \A k \in Sockets :
       IsCreate(cmds'[t][i], k) => i + d \in 1 .. Len(cmds[t]) /\ IsCreate(cmds[t][i + d], k)
  /\ \A k \in Sockets : link'[k] = "unborn" => link[k] = "unborn"

LEMMA QuietStep ==
  ASSUME Typing, Exclusive, Quiet PROVE Exclusive'
<1>1. \A k \in Sockets : InUse(k)' => InUse(k)
  BY DEF Quiet, InUse
<1>2. OneHolder'
  BY DEF Quiet, Exclusive, OneHolder
<1>3. QueuedOnce'
  <2> SUFFICES ASSUME NEW t \in Threads, NEW v \in Threads, NEW i \in 1 .. Len(cmds'[t]),
                      NEW j \in 1 .. Len(cmds'[v]), NEW k \in Sockets,
                      IsCreate(cmds'[t][i], k), IsCreate(cmds'[v][j], k)
               PROVE  t = v /\ i = j
    BY DEF QueuedOnce, IsCreate
  <2>1. PICK d \in {0, 1} : \A h \in 1 .. Len(cmds'[t]) : \A l \in Sockets :
          IsCreate(cmds'[t][h], l) => h + d \in 1 .. Len(cmds[t]) /\ IsCreate(cmds[t][h + d], l)
    BY DEF Quiet
  <2>2. PICK e \in {0, 1} : \A h \in 1 .. Len(cmds'[v]) : \A l \in Sockets :
          IsCreate(cmds'[v][h], l) => h + e \in 1 .. Len(cmds[v]) /\ IsCreate(cmds[v][h + e], l)
    BY DEF Quiet
  <2>3. t = v
    BY <2>1, <2>2 DEF Exclusive, QueuedOnce
  <2>4. i + d = j + d
    BY <2>1, <2>3 DEF Exclusive, QueuedOnce
  <2> QED
    BY <2>3, <2>4
<1>4. QueuedIsNew'
  BY <1>1 DEF Quiet, Exclusive, QueuedIsNew
<1>5. UnbornIsNew'
  BY <1>1 DEF Quiet, Exclusive, UnbornIsNew
<1>6. MovingIsHeld'
  BY DEF Quiet, Exclusive, MovingIsHeld, Moving, Typing, WorkOK, SocketPc, NullAssumption
<1> QED
  BY <1>2, <1>3, <1>4, <1>5, <1>6 DEF Exclusive

\* A step that leaves the queues alone queues no socket, nor does one that takes the head
\* of a queue or posts a removal.
LEMMA QueueQuiet ==
  ASSUME Typing, NEW t \in Threads,
         \/ cmds' = cmds
         \/ cmds[t] # <<>> /\ cmds' = [cmds EXCEPT ![t] = Tail(@)]
         \/ \E n \in Ids : cmds' = Post(t, [op |-> "remove", id |-> n])
  PROVE  \A v \in Threads : \E d \in {0, 1} : \A i \in 1 .. Len(cmds'[v]) : \A k \in Sockets :
           IsCreate(cmds'[v][i], k) => i + d \in 1 .. Len(cmds[v]) /\ IsCreate(cmds[v][i + d], k)
<1> SUFFICES ASSUME NEW v \in Threads
             PROVE  \E d \in {0, 1} : \A i \in 1 .. Len(cmds'[v]) : \A k \in Sockets :
                      IsCreate(cmds'[v][i], k) => i + d \in 1 .. Len(cmds[v]) /\ IsCreate(cmds[v][i + d], k)
  OBVIOUS
<1>0. cmds \in [Threads -> Seq(Command)]
  BY DEF Typing, TypeOK, TableTypeOK
<1>1. CASE cmds'[v] = cmds[v]
  BY <1>0, <1>1
<1>2. CASE cmds[v] # <<>> /\ cmds'[v] = Tail(cmds[v])
  <2>1. \A i \in 1 .. Len(cmds'[v]) : i + 1 \in 1 .. Len(cmds[v]) /\ cmds'[v][i] = cmds[v][i + 1]
    BY <1>0, <1>2
  <2> QED
    BY <2>1
<1>3. ASSUME NEW n \in Ids, cmds'[v] = Append(cmds[v], [op |-> "remove", id |-> n])
      PROVE  \E d \in {0, 1} : \A i \in 1 .. Len(cmds'[v]) : \A k \in Sockets :
               IsCreate(cmds'[v][i], k) => i + d \in 1 .. Len(cmds[v]) /\ IsCreate(cmds[v][i + d], k)
  <2> DEFINE c == [op |-> "remove", id |-> n]
  <2>1. \A k \in Sockets : ~IsCreate(c, k)
    BY DEF IsCreate
  <2> HIDE DEF c
  <2>2. Len(cmds'[v]) = Len(cmds[v]) + 1 /\ cmds'[v][Len(cmds[v]) + 1] = c
        /\ \A i \in 1 .. Len(cmds[v]) : cmds'[v][i] = cmds[v][i]
    BY <1>0, <1>3 DEF c
  <2>3. Len(cmds[v]) \in Nat
    BY <1>0
  <2> QED
    BY <2>1, <2>2, <2>3
<1> QED
  BY <1>0, <1>1, <1>2, <1>3 DEF Post

LEMMA HandlerExclusive ==
  ASSUME Typing, Exclusive, NEW k \in Sockets, HandlerStep(k) \/ RunDestroy(k) PROVE Exclusive'
<1>1. \A s \in Slots : socketOf'[s] \in {socketOf[s], NoSocket}
  BY DEF HandlerStep, ReadMessage, DoRead, ReadError, WriteDone, WriteError, HandlerUnbind,
     HandlerLoad, HandlerTimer, HandlerStore, HandlerClose, RunDestroy, UnbindSocket, sessionVars, Typing, TypeOK, SessionTypeOK
<1>2. \/ link' = link
      \/ link' = Closing(k)
  BY DEF HandlerStep, ReadMessage, DoRead, ReadError, WriteDone, WriteError, HandlerUnbind,
     HandlerLoad, HandlerTimer, HandlerStore, HandlerClose, RunDestroy, Delete
<1>3. \A j \in Sockets : link'[j] = "unborn" => link[j] = "unborn"
  BY <1>2 DEF Closing
<1>4. UNCHANGED threadVars /\ UNCHANGED cmds
  BY DEF HandlerStep, ReadMessage, DoRead, ReadError, WriteDone, WriteError, HandlerUnbind,
     HandlerLoad, HandlerTimer, HandlerStore, HandlerClose, RunDestroy
<1>5. Quiet
  BY <1>1, <1>3, <1>4, QueueQuiet DEF Quiet, Moving, threadVars
<1> QED
  BY <1>5, QuietStep

LEMMA AcceptExclusive ==
  ASSUME Typing, Exclusive, NEW u \in Users, NEW k \in Sockets, NEW t \in Threads, Accept(u, k, t)
  PROVE  Exclusive'
<1> DEFINE c == [op |-> "create", socket |-> k]
<1>1. /\ link[k] = "unborn" /\ link' = [link EXCEPT ![k] = "None"]
      /\ UNCHANGED <<socketOf, pc, carried, cur>>
      /\ cmds' = cmds \/ cmds' = [cmds EXCEPT ![t] = Append(@, c)]
  BY DEF Accept, Post, sessionVars, threadVars
<1>2. \A j \in Sockets : IsCreate(c, j) <=> j = k
  BY DEF IsCreate
<1>t. c \in Command /\ cmds \in [Threads -> Seq(Command)]
  BY DEF Command, Typing, TypeOK, TableTypeOK
<1> HIDE DEF c
<1>3. ~InUse(k) /\ \A j \in Sockets : InUse(j)' <=> InUse(j)
  BY <1>1 DEF Exclusive, UnbornIsNew, InUse, Moving
<1>4. \A v \in Threads : \A i \in 1 .. Len(cmds[v]) : ~IsCreate(cmds[v][i], k)
  BY <1>1 DEF Exclusive, QueuedIsNew
<1>5. ASSUME NEW v \in Threads, NEW i \in 1 .. Len(cmds'[v])
      PROVE  \/ i \in 1 .. Len(cmds[v]) /\ cmds'[v][i] = cmds[v][i]
             \/ v = t /\ i = Len(cmds[t]) + 1 /\ cmds'[v][i] = c
  <2>1. CASE cmds'[v] = cmds[v]
    BY <2>1
  <2>2. CASE v = t /\ cmds'[t] = Append(cmds[t], c)
    BY <1>t, <2>2
  <2> QED
    BY <1>1, <1>t, <2>1, <2>2
<1>6. \A v \in Threads : Len(cmds'[v]) \in Nat /\ Len(cmds[v]) \in Nat
  BY <1>1 DEF Typing, TypeOK, TableTypeOK
<1>7. OneHolder' /\ MovingIsHeld'
  BY <1>1 DEF Exclusive, OneHolder, MovingIsHeld, Moving
<1>8. \A j \in Sockets : link'[j] = "unborn" => link[j] = "unborn"
  BY <1>1 DEF Typing, TypeOK, SocketTypeOK
<1>w. link'[k] # "unborn" /\ \A j \in Sockets : link[j] # "unborn" => link'[j] # "unborn"
  BY <1>1 DEF Typing, TypeOK, SocketTypeOK
<1>9. UnbornIsNew'
  BY <1>3, <1>8 DEF Exclusive, UnbornIsNew
<1>10. QueuedIsNew'
  BY <1>2, <1>3, <1>5, <1>6, <1>w DEF Exclusive, QueuedIsNew
<1>11. QueuedOnce'
  BY <1>2, <1>4, <1>5, <1>6 DEF Exclusive, QueuedOnce
<1> QED
  BY <1>7, <1>9, <1>10, <1>11 DEF Exclusive

LEMMA CreateExclusive ==
  ASSUME Typing, Exclusive, NEW t \in Threads, CreateSession(t) PROVE Exclusive'
<1> DEFINE k == Head(cmds[t]).socket
<1>0. cmds \in [Threads -> Seq(Command)] /\ cmds[t] # <<>>
  BY DEF CreateSession, Typing, TypeOK, TableTypeOK
<1>1. cmds[t][1] \in Command /\ cmds[t][1] = Head(cmds[t]) /\ 1 \in 1 .. Len(cmds[t])
  BY <1>0
<1>2. k \in Sockets /\ IsCreate(cmds[t][1], k)
  BY <1>1 DEF CreateSession, Command, IsCreate
<1>3. ~InUse(k) /\ link[k] # "unborn"
  BY <1>1, <1>2 DEF Exclusive, QueuedIsNew
<1>4. cmds' = [cmds EXCEPT ![t] = Tail(@)] /\ pc[t] = "tick"
  BY DEF CreateSession
<1>5. \A v \in Threads : \A i \in 1 .. Len(cmds'[v]) :
        IF v = t THEN i + 1 \in 1 .. Len(cmds[v]) /\ cmds'[v][i] = cmds[v][i + 1]
                 ELSE i \in 1 .. Len(cmds[v]) /\ cmds'[v][i] = cmds[v][i]
  BY <1>0, <1>4
<1>6. \A v \in Threads : cmds[v] \in Seq(Command) /\ cmds'[v] \in Seq(Command)
  BY <1>0, <1>4
<1>7. CASE \E s \in Slots \ used : Owner[s] = t
  <2>1. PICK s \in Slots \ used : socketOf' = [socketOf EXCEPT ![s] = k]
    BY <1>7 DEF CreateSession
  <2>2. /\ cur'[t] \notin used /\ cur' = [cur EXCEPT ![t] = cur'[t]]
        /\ carried' = [carried EXCEPT ![t] = k] /\ pc' = [pc EXCEPT ![t] = "start"]
        /\ link' = link
    BY <1>7 DEF CreateSession, Goto, Typing, TypeOK, ThreadTypeOK
  <2> HIDE DEF k
  <2>3. \A v \in Threads : Moving(v)' =>
          v # t /\ Moving(v) /\ carried'[v] = carried[v] /\ cur'[v] = cur[v] /\ pc'[v] = pc[v]
    BY <2>2 DEF Moving, Typing, TypeOK, ThreadTypeOK
  <2>4. \A x \in Slots : socketOf'[x] = IF x = s THEN k ELSE socketOf[x]
    BY <2>1 DEF Typing, TypeOK, SessionTypeOK
  <2>5. \A j \in Sockets \ {k} : InUse(j)' => InUse(j)
    BY <2>3, <2>4 DEF InUse
  <2>6. OneHolder'
    BY <1>3, <2>4 DEF Exclusive, OneHolder, InUse
  <2>7. MovingIsHeld'
    BY <1>3, <2>3, <2>4 DEF Exclusive, MovingIsHeld, InUse
  <2>8. UnbornIsNew'
    BY <1>3, <2>2, <2>5 DEF Exclusive, UnbornIsNew
  <2>9. \A v \in Threads : \A i \in 1 .. Len(cmds'[v]) : ~IsCreate(cmds'[v][i], k)
    <3> SUFFICES ASSUME NEW v \in Threads, NEW i \in 1 .. Len(cmds'[v]), IsCreate(cmds'[v][i], k)
                 PROVE  FALSE
      OBVIOUS
    <3>1. CASE v = t
      <4>1. i + 1 \in 1 .. Len(cmds[t]) /\ IsCreate(cmds[t][i + 1], k)
        BY <1>5, <3>1
      <4>2. i + 1 = 1
        BY <1>1, <1>2, <4>1 DEF Exclusive, QueuedOnce
      <4> QED
        BY <1>6, <4>2
    <3>2. CASE v # t
      BY <1>1, <1>2, <1>5, <3>2 DEF Exclusive, QueuedOnce
    <3> QED
      BY <3>1, <3>2
  <2>10. QueuedIsNew'
    <3> SUFFICES ASSUME NEW v \in Threads, NEW i \in 1 .. Len(cmds'[v]), NEW j \in Sockets,
                        IsCreate(cmds'[v][i], j)
                 PROVE  ~InUse(j)' /\ link'[j] # "unborn"
      BY DEF QueuedIsNew, IsCreate
    <3>1. j # k
      BY <2>9
    <3>2. ~InUse(j) /\ link[j] # "unborn"
      BY <1>5 DEF Exclusive, QueuedIsNew
    <3> QED
      BY <2>2, <2>5, <3>1, <3>2
  <2>11. QueuedOnce'
    <3> SUFFICES ASSUME NEW v \in Threads, NEW w \in Threads, NEW i \in 1 .. Len(cmds'[v]),
                        NEW h \in 1 .. Len(cmds'[w]), NEW j \in Sockets,
                        IsCreate(cmds'[v][i], j), IsCreate(cmds'[w][h], j)
                 PROVE  v = w /\ i = h
      BY DEF QueuedOnce, IsCreate
    <3>1. v = w
      BY <1>5 DEF Exclusive, QueuedOnce
    <3>2. CASE v = t
      <4>1. i + 1 = h + 1
        BY <1>5, <3>1, <3>2 DEF Exclusive, QueuedOnce
      <4> QED
        BY <3>1, <4>1
    <3>3. CASE v # t
      BY <1>5, <3>1, <3>3 DEF Exclusive, QueuedOnce
    <3> QED
      BY <3>1, <3>2, <3>3
  <2> QED
    BY <2>6, <2>7, <2>8, <2>10, <2>11 DEF Exclusive
<1>8. CASE ~ \E s \in Slots \ used : Owner[s] = t
  <2>1. link' = Closing(k) /\ UNCHANGED <<socketOf, cur, carried, pc>>
    BY <1>8 DEF CreateSession, Delete
  <2>2. \A j \in Sockets : link'[j] = "unborn" => link[j] = "unborn"
    BY <2>1 DEF Closing
  <2>3. Quiet
    BY <1>0, <1>4, <2>1, <2>2, QueueQuiet DEF Quiet, Moving
  <2> QED
    BY <2>3, QuietStep
<1> QED
  BY <1>7, <1>8

LEMMA PoolExclusive ==
  ASSUME Typing, Exclusive, NEW t \in Threads,
         \/ StartSocket(t) \/ RemoveCommand(t) \/ (\E s \in Slots : VisitSession(t, s))
         \/ EndPackets(t) \/ RemoveSession(t)
  PROVE  Exclusive'
<1>1. \A s \in Slots : socketOf'[s] \in {socketOf[s], NoSocket}
  BY DEF StartSocket, RemoveCommand, VisitSession, EndPackets, RemoveSession, Unregister,
     ReleaseSocket, FreeSession, UnbindSocket, sessionVars, Typing, TypeOK, SessionTypeOK
<1>2. \A k \in Sockets : link'[k] = "unborn" => link[k] = "unborn"
  BY DEF StartSocket, RemoveCommand, VisitSession, EndPackets, RemoveSession, Unregister,
     ReleaseSocket, FreeSession, Delete, Closing, Typing, TypeOK, SocketTypeOK
<1>3. \/ cmds' = cmds
      \/ cmds[t] # <<>> /\ cmds' = [cmds EXCEPT ![t] = Tail(@)]
  BY DEF StartSocket, RemoveCommand, VisitSession, EndPackets, RemoveSession, Unregister,
     ReleaseSocket, FreeSession
<1>4. \A v \in Threads : Moving(v)' =>
       Moving(v) /\ pc'[v] = pc[v] /\ carried'[v] = carried[v] /\ cur'[v] = cur[v]
  BY DEF StartSocket, RemoveCommand, VisitSession, EndPackets, RemoveSession, Unregister,
     ReleaseSocket, FreeSession, Goto, Moving, Typing, TypeOK, ThreadTypeOK
<1>5. Quiet
  BY <1>1, <1>2, <1>3, <1>4, QueueQuiet DEF Quiet
<1> QED
  BY <1>5, QuietStep

\* The steps of a packet that move no socket.
LEMMA PacketExclusive ==
  ASSUME Typing, Exclusive, NEW t \in Threads,
         \/ HandleMove(t) \/ HandleLogin(t) \/ FindByUsn(t) \/ CheckReconnect(t)
         \/ KickSession(t) \/ NewLogin(t) \/ Recheck(t) \/ ActivateOldSession(t)
  PROVE  Exclusive'
<1>1. \A s \in Slots : socketOf'[s] \in {socketOf[s], NoSocket}
  BY DEF HandleMove, HandleLogin, FindByUsn, CheckReconnect, KickSession, NewLogin, Recheck,
     ActivateOldSession, UnbindSocket, sessionVars, Typing, TypeOK, SessionTypeOK
<1>2. \A k \in Sockets : link'[k] = "unborn" => link[k] = "unborn"
  <2>1. CASE HandleMove(t)
    <3>1. \A k \in Sockets : link'[k] \in {"Closed", link[k]}
      BY <2>1 DEF HandleMove
    <3> QED
      BY <3>1
  <2>2. CASE ~HandleMove(t)
    BY <2>2 DEF HandleLogin, FindByUsn, CheckReconnect, KickSession, NewLogin, Recheck,
       ActivateOldSession, Closing
  <2> QED
    BY <2>1, <2>2
<1>3. \/ cmds' = cmds
      \/ \E n \in Ids : cmds' = Post(t, [op |-> "remove", id |-> n])
  BY DEF HandleMove, HandleLogin, FindByUsn, CheckReconnect, KickSession, NewLogin, Recheck,
     ActivateOldSession, Typing, TypeOK, SessionTypeOK, TableTypeOK, WorkOK
<1>4. \A v \in Threads : Moving(v)' =>
       Moving(v) /\ pc'[v] = pc[v] /\ carried'[v] = carried[v] /\ cur'[v] = cur[v]
  BY DEF HandleMove, HandleLogin, FindByUsn, CheckReconnect, KickSession, NewLogin, Recheck,
     ActivateOldSession, Goto, Moving, threadVars, Typing, TypeOK, ThreadTypeOK
<1>5. Quiet
  BY <1>1, <1>2, <1>3, <1>4, QueueQuiet DEF Quiet
<1> QED
  BY <1>5, QuietStep

\* The three steps in which a reconnection moves the socket of the temporary session.
LEMMA MoveExclusive ==
  ASSUME Typing, Exclusive, NEW t \in Threads, TakeSocket(t) \/ StripSession(t) \/ BindOldSession(t)
  PROVE  Exclusive'
<1> USE DEF Typing, TypeOK, SessionTypeOK, TableTypeOK, ThreadTypeOK, WorkOK, SocketPc, TargetPc
<1>1. UNCHANGED <<cmds, link, cur>>
  BY DEF TakeSocket, StripSession, BindOldSession
<1>2. ASSUME OneHolder', MovingIsHeld', \A k \in Sockets : InUse(k)' => InUse(k)
      PROVE  Exclusive'
  <2>1. QueuedOnce' /\ QueuedIsNew' /\ UnbornIsNew'
    BY ONLY Exclusive, <1>1, <1>2 DEF Exclusive, QueuedOnce, QueuedIsNew, UnbornIsNew
  <2> QED
    BY ONLY <1>2, <2>1 DEF Exclusive
<1>3. CASE TakeSocket(t)
  <2>1. pc[t] = "take" /\ cur[t] \in Slots /\ UNCHANGED socketOf
    BY <1>3 DEF TakeSocket, sessionVars
  <2>2. CASE socketOf[cur[t]] = NoSocket
    <3>1. pc' = [pc EXCEPT ![t] = "packets"] /\ carried' = carried
      BY <1>3, <2>2 DEF TakeSocket, Goto
    <3>2. \A v \in Threads : Moving(v)' => Moving(v) /\ v # t /\ pc'[v] = pc[v]
      BY <3>1 DEF Moving
    <3>3. OneHolder' /\ MovingIsHeld' /\ \A k \in Sockets : InUse(k)' => InUse(k)
      BY <1>1, <2>1, <3>1, <3>2 DEF Exclusive, OneHolder, MovingIsHeld, InUse
    <3> QED
      BY <1>2, <3>3
  <2>3. CASE socketOf[cur[t]] # NoSocket
    <3>1. pc' = [pc EXCEPT ![t] = "strip"] /\ carried' = [carried EXCEPT ![t] = socketOf[cur[t]]]
      BY <1>3, <2>3 DEF TakeSocket, Goto
    <3>2. pc'[t] = "strip" /\ carried'[t] = socketOf[cur[t]]
      BY <3>1
    <3>3. \A v \in Threads \ {t} : pc'[v] = pc[v] /\ carried'[v] = carried[v]
      BY <3>1
    <3>4. \A v \in Threads \ {t} : Moving(v) => carried[v] # socketOf[cur[t]]
      <4> SUFFICES ASSUME NEW v \in Threads \ {t}, Moving(v), carried[v] = socketOf[cur[t]]
                   PROVE  FALSE
        OBVIOUS
      <4>1. cur[v] = cur[t]
        BY <2>1 DEF Exclusive, MovingIsHeld
      <4>2. Owner[cur[v]] = v /\ Owner[cur[t]] = t
        BY <2>1 DEF Moving
      <4> QED
        BY <4>1, <4>2
    <3>5. \A s \in Slots : socketOf[s] = socketOf[cur[t]] => s = cur[t]
      BY <2>1, <2>3 DEF Exclusive, OneHolder
    <3>6. MovingIsHeld'
      BY ONLY Exclusive, <1>1, <2>1, <3>2, <3>3, <3>4, <3>5 DEF Exclusive, MovingIsHeld, Moving
    <3>7. OneHolder' /\ \A k \in Sockets : InUse(k)' => InUse(k)
      <4>1. OneHolder'
        BY ONLY Exclusive, <2>1 DEF Exclusive, OneHolder
      <4>2. \A k \in Sockets : InUse(k)' => InUse(k)
        BY ONLY <2>1, <3>2, <3>3 DEF InUse, Moving
      <4> QED
        BY ONLY <4>1, <4>2
    <3> QED
      BY ONLY <1>2, <3>6, <3>7
  <2> QED
    BY <2>2, <2>3
<1>4. CASE StripSession(t)
  <2>1. /\ pc[t] = "strip" /\ cur[t] \in Slots /\ UNCHANGED carried
        /\ socketOf' = [socketOf EXCEPT ![cur[t]] = NoSocket]
        /\ pc' = [pc EXCEPT ![t] = "bind"]
    BY <1>4 DEF StripSession, UnbindSocket, Goto
  <2>2. pc'[t] = "bind" /\ \A v \in Threads \ {t} : pc'[v] = pc[v]
    BY <2>1
  <2>3. \A s \in Slots : socketOf'[s] = IF s = cur[t] THEN NoSocket ELSE socketOf[s]
    BY <2>1
  <2>4. carried[t] \in Sockets /\ \A v \in Threads : Moving(v) => carried[v] # NoSocket
    BY <2>1, NullAssumption DEF Moving
  <2>5. MovingIsHeld'
    BY <1>1, <2>1, <2>2, <2>3, <2>4, NullAssumption DEF Exclusive, MovingIsHeld, Moving
  <2>6. OneHolder' /\ \A k \in Sockets : InUse(k)' => InUse(k)
    BY <2>1, <2>2, <2>3, NullAssumption DEF Exclusive, OneHolder, InUse, Moving
  <2> QED
    BY <1>2, <2>5, <2>6
<1>5. CASE BindOldSession(t)
  <2>1. /\ pc[t] = "bind" /\ target[t] \in Slots /\ carried[t] \in Sockets
        /\ pc' = [pc EXCEPT ![t] = "activate"]
        /\ carried' = [carried EXCEPT ![t] = NoSocket]
        /\ \/ socketOf' = socketOf
           \/ socketOf' = [socketOf EXCEPT ![target[t]] = carried[t]]
    BY <1>5 DEF BindOldSession, Goto
  <2>2. pc'[t] = "activate" /\ \A v \in Threads \ {t} : pc'[v] = pc[v] /\ carried'[v] = carried[v]
    BY <2>1
  <2>3. \A s \in Slots : socketOf[s] # carried[t]
    BY <2>1 DEF Exclusive, MovingIsHeld, Moving
  <2>4. \A v \in Threads \ {t} : Moving(v) => carried[v] # carried[t]
    BY <2>1 DEF Exclusive, MovingIsHeld, Moving
  <2>5. \A s \in Slots : socketOf'[s] = socketOf[s] \/ (s = target[t] /\ socketOf'[s] = carried[t])
    BY <2>1
  <2>6. OneHolder'
    <3> SUFFICES ASSUME NEW x \in Slots, NEW y \in Slots, socketOf'[x] = socketOf'[y],
                        socketOf'[x] # NoSocket
                 PROVE  x = y
      BY DEF OneHolder
    <3>1. CASE socketOf'[x] = carried[t]
      BY <2>3, <2>5, <3>1
    <3>2. CASE socketOf'[x] # carried[t]
      <4>1. OneHolder /\ socketOf[x] = socketOf[y] /\ socketOf[x] # NoSocket
        BY ONLY Exclusive, <2>5, <3>2, socketOf'[x] = socketOf'[y], socketOf'[x] # NoSocket
           DEF Exclusive
      <4> QED
        BY ONLY <4>1 DEF OneHolder
    <3> QED
      BY <3>1, <3>2
  <2>7. MovingIsHeld'
    <3>1. \A v \in Threads : Moving(v)' =>
            v # t /\ Moving(v) /\ pc'[v] = pc[v] /\ carried'[v] = carried[v] /\ cur'[v] = cur[v]
      BY <1>1, <2>2 DEF Moving
    <3>2. \A v \in Threads \ {t}, s \in Slots :
            Moving(v) /\ socketOf'[s] = carried[v] => socketOf[s] = carried[v]
      BY <2>4, <2>5
    <3> QED
      BY ONLY Exclusive, <3>1, <3>2 DEF Exclusive, MovingIsHeld
  <2>8. \A k \in Sockets : InUse(k)' => InUse(k)
    BY <2>1, <2>2, <2>5 DEF InUse, Moving
  <2> QED
    BY <1>2, <2>6, <2>7, <2>8
<1> QED
  BY <1>3, <1>4, <1>5

LEMMA ExclusiveStep == Typing /\ Exclusive /\ [Next]_vars => Exclusive'
<1> SUFFICES ASSUME Typing, Exclusive, [Next]_vars PROVE Exclusive'
  OBVIOUS
<1>1. CASE UNCHANGED vars
  BY <1>1 DEF vars, sessionVars, threadVars, Exclusive, OneHolder, QueuedOnce, QueuedIsNew,
     UnbornIsNew, MovingIsHeld, InUse, Moving
<1>2. ASSUME UNCHANGED <<socketOf, pc, carried, cur, cmds, link>> PROVE Exclusive'
  BY <1>2 DEF Exclusive, OneHolder, QueuedOnce, QueuedIsNew, UnbornIsNew, MovingIsHeld, InUse, Moving
<1>3. ASSUME NEW u \in Users, ClientStep(u) PROVE Exclusive'
  BY <1>2, <1>3, AcceptExclusive DEF ClientStep, ClientSend, Leave, sessionVars, threadVars
<1>4. ASSUME NEW s \in Slots, Expire(s) PROVE Exclusive'
  BY <1>2, <1>4 DEF Expire, threadVars
<1>5. ASSUME NEW t \in Threads, LocalThreadStep(t) PROVE Exclusive'
  BY <1>5, CreateExclusive, PoolExclusive, PacketExclusive, MoveExclusive DEF LocalThreadStep, Restore
<1> QED
  BY <1>1, <1>3, <1>4, <1>5, HandlerExclusive DEF Next

\* Two sessions never hold one socket, whatever the local threads and the IO threads do
\* to each other's sessions while sockets move between them (HandlePacket, BindSocket).
THEOREM SocketExclusion == Spec => []OneHolder
<1>1. Init => Typing /\ Exclusive
  BY InitTyping DEF Init, Exclusive, OneHolder, QueuedOnce, QueuedIsNew, UnbornIsNew,
     MovingIsHeld, InUse, Moving
<1>2. Typing /\ Exclusive /\ [Next]_vars => (Typing /\ Exclusive)'
  BY TypingStep, ExclusiveStep
<1>3. Exclusive => OneHolder
  BY DEF Exclusive
<1> QED
  BY <1>1, <1>2, <1>3, PTL DEF Spec
-------------------------------------------------------------------------------
(* What a reconnection restores.  With one local thread nothing that decides   *)
(* it changes between the check and SetState(Active): the strand handlers and  *)
(* the clients touch neither the USN nor the id of a session nor its slot.     *)

OneLocalThread == \A t, v \in Threads : t = v

FoundPc == {"recheck", "take", "strip", "bind", "activate"}
FoundInv ==
  /\ RestoresRequestedSession
  /\ \A t \in Threads : pc[t] = "check" => target[t] \in used /\ usn[target[t]] = req[t].usn


LEMMA FoundStep ==
  ASSUME OneLocalThread, Typing, RegistryInv, FoundInv, [Next]_vars PROVE FoundInv'
<1> USE DEF FoundInv, RestoresRequestedSession
<1>1. CASE UNCHANGED <<pc, target, req, used, usn, id>>
  BY <1>1
<1>2. ASSUME NEW u \in Users, ClientStep(u) PROVE FoundInv'
  BY <1>1, <1>2 DEF ClientStep, Accept, ClientSend, Leave, sessionVars, tableVars, threadVars
<1>3. ASSUME NEW k \in Sockets, HandlerStep(k) \/ RunDestroy(k) PROVE FoundInv'
  BY <1>1, <1>3 DEF HandlerStep, ReadMessage, DoRead, ReadError, WriteDone, WriteError, HandlerUnbind,
     HandlerLoad, HandlerTimer, HandlerStore, HandlerClose, RunDestroy, sessionVars, tableVars, threadVars
<1>4. ASSUME NEW s \in Slots, Expire(s) PROVE FoundInv'
  BY <1>1, <1>4 DEF Expire, tableVars, threadVars
<1>5. ASSUME NEW t \in Threads, LocalThreadStep(t) PROVE FoundInv'
  <2>1. \A v \in Threads : v = t
    BY DEF OneLocalThread
  <2>2. pc \in [Threads -> ThreadPc] /\ target \in [Threads -> SlotOrNone]
    BY DEF Typing, TypeOK, ThreadTypeOK
  <2>3. CASE pc'[t] \notin FoundPc \cup {"check"}
    BY <2>1, <2>3 DEF FoundPc
  <2>4. CASE FindByUsn(t)
    BY <2>1, <2>2, <2>4 DEF FindByUsn, Goto, sessionVars, tableVars, RegistryInv, RegisteredIsLive
  <2>5. CASE CheckReconnect(t)
    <3>1. pc'[t] = "recheck" => id[target[t]] = req[t].token
      BY <2>2, <2>5 DEF CheckReconnect, Goto, MayRestore
    <3>2. pc[t] = "check" /\ pc'[t] # "check" /\ UNCHANGED <<target, req, used, usn, id>>
      BY <2>2, <2>5 DEF CheckReconnect, Goto, sessionVars, tableVars
    <3>3. pc'[t] \in {"recheck", "kick"}
      BY <2>2, <2>5 DEF CheckReconnect, Goto
    <3> QED
      BY <2>1, <3>1, <3>2, <3>3
  <2>6. CASE Restore(t)
    <3>1. pc[t] \in FoundPc /\ UNCHANGED <<used, usn, id>>
      BY <2>6 DEF Restore, Recheck, TakeSocket, StripSession, BindOldSession, ActivateOldSession,
         FoundPc, sessionVars, tableVars
    <3>2. pc'[t] \in FoundPc => target' = target /\ req' = req
      BY <2>2, <2>6 DEF Restore, Recheck, TakeSocket, StripSession, BindOldSession,
         ActivateOldSession, FoundPc, Goto
    <3>3. pc'[t] # "check"
      BY <2>2, <2>6 DEF Restore, Recheck, TakeSocket, StripSession, BindOldSession,
         ActivateOldSession, Goto
    <3> QED
      BY <2>1, <3>1, <3>2, <3>3 DEF FoundPc
  <2> QED
    <3>1. ASSUME CreateSession(t) \/ StartSocket(t) \/ RemoveCommand(t)
                 \/ (\E s \in Slots : VisitSession(t, s)) \/ EndPackets(t) \/ RemoveSession(t)
          PROVE  pc'[t] \notin FoundPc \cup {"check"}
      BY <2>2, <3>1 DEF CreateSession, StartSocket, RemoveCommand, VisitSession, EndPackets,
         RemoveSession, Unregister, ReleaseSocket, FreeSession, Goto, FoundPc
    <3>2. ASSUME HandleMove(t) \/ HandleLogin(t) \/ KickSession(t) \/ NewLogin(t)
          PROVE  pc'[t] \notin FoundPc \cup {"check"}
      BY <2>2, <3>2 DEF HandleMove, HandleLogin, KickSession, NewLogin, Goto, FoundPc, threadVars
    <3> QED
      BY <1>5, <2>3, <2>4, <2>5, <2>6, <3>1, <3>2 DEF LocalThreadStep
<1>6. CASE UNCHANGED vars
  BY <1>1, <1>6 DEF vars, sessionVars, tableVars, threadVars
<1> QED
  BY <1>2, <1>3, <1>4, <1>5, <1>6 DEF Next

\* With one local thread (the server's -local 1) a reconnection restores the session the
\* search validated, with the user's USN and the token of the request, in a slot that is
\* still in use.  With two it may not: the owner of the session can free and reuse its
\* slot in between (FindSessionByUsn, HandlePacket).
THEOREM RestoresWhatWasAsked ==
  ASSUME OneLocalThread PROVE Spec => []RestoresRequestedSession
<1>1. Init => Typing /\ RegistryInv /\ FoundInv
  BY InitTyping DEF Init, RegistryInv, RegisteredIsLive, FoundInv, RestoresRequestedSession
<1>2. Typing /\ RegistryInv /\ FoundInv /\ [Next]_vars => (Typing /\ RegistryInv /\ FoundInv)'
  BY OneLocalThread, TypingStep, RegistryStep, FoundStep
<1>3. FoundInv => RestoresRequestedSession
  BY DEF FoundInv
<1> QED
  BY <1>1, <1>2, <1>3, PTL DEF Spec
-------------------------------------------------------------------------------
(* Whose token a client holds.  The invariant follows each login from the wire *)
(* of the socket to the queue of the session and to the thread that handles    *)
(* it: a session waits for at most one, and while it waits no client knows its *)
(* token, so that the USN it gets cannot contradict a token given before.      *)

HasLogin(q)   == q # <<>> /\ Head(q).kind = "login"
LoginFirst(q) == \A i \in 2 .. Len(q) : q[i].kind # "login"
Serving(t)    == pc[t] \in LoginPc

\* Some client holds token n or has sent it.
Known(n) ==
  \/ \E u \in Users : token[u] = n
  \/ \E k \in Sockets : HasLogin(wire[k]) /\ Head(wire[k]).token = n
  \/ \E s \in Slots : HasLogin(inbox[s]) /\ Head(inbox[s]).token = n
  \/ \E t \in Threads : Serving(t) /\ req[t].token = n

\* A login is still to be handled on session s.
Undecided(s) ==
  \/ \E k \in Sockets : socketOf[s] = k /\ HasLogin(wire[k])
  \/ HasLogin(inbox[s])
  \/ \E t \in Threads : Serving(t) /\ cur[t] = s

IdsOK ==
  /\ \A s \in used : id[s] \in 1 .. nextId - 1
  /\ \A x, y \in used : id[x] = id[y] => x = y
  /\ \A n \in Ids : Known(n) => n < nextId
SlotsOK ==
  /\ \A s \in Slots \ used : inbox[s] = <<>> /\ socketOf[s] = NoSocket
  /\ \A k \in Sockets : sessionOf[k] # NoSlot => socketOf[sessionOf[k]] = k
ConnOK == \A k \in Sockets : link[k] = "unborn" => wire[k] = <<>> /\ \A u \in Users : conn[u] # k
\* A client logs in once per connection and first of all.
LoginOnce ==
  /\ \A k \in Sockets : LoginFirst(wire[k])
  /\ \A s \in Slots : LoginFirst(inbox[s])
  /\ \A s \in Slots, k \in Sockets : socketOf[s] = k /\ HasLogin(wire[k]) =>
       inbox[s] = <<>> /\ \A t \in Threads : Serving(t) => cur[t] # s
  /\ \A t \in Threads : Serving(t) => ~HasLogin(inbox[cur[t]])
  /\ \A t \in Threads : Moving(t) => ~HasLogin(wire[carried[t]])
\* The user at the other end of a session's socket is the one its login names, and the
\* one whose session it is once the token is known.
RightUser ==
  \A u \in Users :
    /\ conn[u] # NoSocket /\ HasLogin(wire[conn[u]]) => Head(wire[conn[u]]).usn = u
    /\ \A s \in Slots : socketOf[s] = conn[u] /\ conn[u] # NoSocket =>
         /\ HasLogin(inbox[s]) => Head(inbox[s]).usn = u
         /\ s \in used /\ Known(id[s]) => usn[s] = u
         /\ \A t \in Threads : Serving(t) /\ cur[t] = s => req[t].usn = u
    /\ \A t \in Threads : Moving(t) /\ carried[t] = conn[u] => req[t].usn = u
FreshOK == \A s \in used : Undecided(s) => ~Known(id[s])

TokenInv == IdsOK /\ SlotsOK /\ ConnOK /\ LoginOnce /\ RightUser /\ FreshOK /\ TokenNamesOwnSession

LEMMA QueueFacts ==
  ASSUME NEW q \in Seq(Message), LoginFirst(q), NEW m \in Message
  PROVE  /\ LoginFirst(<<>>) /\ ~HasLogin(<<>>)
         /\ LoginFirst(<<m>>) /\ <<m>> # <<>> /\ Head(<<m>>) = m
         /\ q # <<>> => LoginFirst(Tail(q)) /\ ~HasLogin(Tail(q))
         /\ Append(q, m) # <<>>
         /\ m.kind # "login" =>
              /\ LoginFirst(Append(q, m))
              /\ HasLogin(Append(q, m)) => HasLogin(q) /\ Head(Append(q, m)) = Head(q)
         /\ q = <<>> => LoginFirst(Append(q, m)) /\ Head(Append(q, m)) = m
<1>1. LoginFirst(<<>>) /\ ~HasLogin(<<>>) /\ LoginFirst(<<m>>) /\ <<m>> # <<>> /\ Head(<<m>>) = m
  BY DEF LoginFirst, HasLogin
<1>2. ASSUME q # <<>> PROVE LoginFirst(Tail(q)) /\ ~HasLogin(Tail(q))
  <2>1. Len(Tail(q)) = Len(q) - 1 /\ \A i \in 1 .. Len(Tail(q)) : Tail(q)[i] = q[i + 1]
    BY <1>2
  <2>2. \A i \in 1 .. Len(Tail(q)) : Tail(q)[i].kind # "login"
    BY <2>1 DEF LoginFirst
  <2>3. LoginFirst(Tail(q))
    BY <2>2 DEF LoginFirst
  <2>4. ASSUME Tail(q) # <<>> PROVE Head(Tail(q)).kind # "login"
    <3>1. Tail(q) \in Seq(Message) /\ Len(Tail(q)) >= 1
      BY <1>2, <2>4
    <3>2. Head(Tail(q)) = Tail(q)[1] /\ 1 \in 1 .. Len(Tail(q))
      BY <3>1
    <3> QED
      BY <2>2, <3>2
  <2> QED
    BY <2>3, <2>4 DEF HasLogin
<1>3. Append(q, m) # <<>> /\ \A i \in 1 .. Len(Append(q, m)) :
        Append(q, m)[i] = IF i = Len(q) + 1 THEN m ELSE q[i]
  OBVIOUS
<1>4. q # <<>> => Head(Append(q, m)) = Head(q)
  OBVIOUS
<1>5. q = <<>> => Append(q, m) = <<m>>
  OBVIOUS
<1>6. m.kind # "login" => LoginFirst(Append(q, m))
  BY <1>3 DEF LoginFirst
<1>7. m.kind # "login" /\ HasLogin(Append(q, m)) => HasLogin(q) /\ Head(Append(q, m)) = Head(q)
  BY <1>1, <1>4, <1>5 DEF HasLogin
<1> QED
  BY <1>1, <1>2, <1>3, <1>5, <1>6, <1>7

\* Most steps give no USN, id or token, bring no login nearer to a thread, and take sockets
\* away from sessions at most.
Calm ==
  /\ UNCHANGED <<usn, id, used, nextId, token>>
  /\ \A k \in Sockets : sessionOf'[k] \in {sessionOf[k], NoSlot}
  /\ \A s \in Slots : socketOf'[s] # socketOf[s] =>
       socketOf'[s] = NoSocket /\ \A k \in Sockets : k = socketOf[s] => sessionOf'[k] = NoSlot
  /\ \A u \in Users : conn'[u] \in {conn[u], NoSocket}
  /\ \A k \in Sockets :
       /\ LoginFirst(wire'[k])
       /\ HasLogin(wire'[k]) => HasLogin(wire[k]) /\ Head(wire'[k]) = Head(wire[k])
       /\ link'[k] = "unborn" => link[k] = "unborn" /\ wire'[k] = wire[k]
  /\ \A s \in Slots :
       /\ LoginFirst(inbox'[s])
       /\ HasLogin(inbox'[s]) => HasLogin(inbox[s]) /\ Head(inbox'[s]) = Head(inbox[s])
       /\ inbox'[s] # <<>> => inbox[s] # <<>> \/ (socketOf'[s] \in Sockets /\ ~HasLogin(wire'[socketOf'[s]]))
  /\ \A t \in Threads : Serving(t)' => Serving(t) /\ req'[t] = req[t] /\ cur'[t] = cur[t]
  /\ \A t \in Threads : Moving(t)' => Moving(t) /\ carried'[t] = carried[t] /\ req'[t] = req[t]

LEMMA CalmStep ==
  ASSUME Typing, TokenInv, Calm PROVE TokenInv'
<1>0. NoSocket \notin Sockets /\ NoSlot \notin Slots
  BY NullAssumption
<1>1. \A n \in Ids : Known(n)' => Known(n)
  <2> SUFFICES ASSUME NEW n \in Ids, Known(n)' PROVE Known(n)
    OBVIOUS
  <2> QED
    BY DEF Calm, Known
<1>2. \A s \in Slots : \A k \in Sockets : socketOf'[s] = k => socketOf[s] = k
  BY <1>0 DEF Calm
<1>3. \A s \in Slots : Undecided(s)' => Undecided(s)
  BY <1>2 DEF Calm, Undecided
<1>4. \A s \in Slots : id[s] \in Ids
  BY DEF Typing, TypeOK, SessionTypeOK
<1>5. used \subseteq Slots
  BY DEF Typing, TypeOK, TableTypeOK
<1>6. UNCHANGED <<usn, id, used, nextId, token>>
  BY DEF Calm
<1>7. IdsOK'
  BY <1>1, <1>6 DEF TokenInv, IdsOK
<1>8. SlotsOK'
  <2>1. ASSUME NEW s \in Slots \ used PROVE inbox'[s] = <<>> /\ socketOf'[s] = NoSocket
    BY <1>0 DEF Calm, TokenInv, SlotsOK
  <2>2. ASSUME NEW k \in Sockets, sessionOf'[k] # NoSlot PROVE socketOf'[sessionOf'[k]] = k
    <3>1. sessionOf'[k] = sessionOf[k] /\ sessionOf[k] \in Slots /\ socketOf[sessionOf[k]] = k
      BY <2>2 DEF Calm, TokenInv, SlotsOK, Typing, TypeOK, SocketTypeOK, SlotOrNone
    <3> QED
      BY <2>2, <3>1 DEF Calm
  <2> QED
    BY <1>6, <2>1, <2>2 DEF SlotsOK
<1>9. ConnOK'
  BY <1>0 DEF Calm, TokenInv, ConnOK
<1>10. LoginOnce'
  <2>1. \A s \in Slots, k \in Sockets : socketOf'[s] = k /\ HasLogin(wire'[k]) =>
          inbox'[s] = <<>> /\ \A t \in Threads : Serving(t)' => cur'[t] # s
    BY <1>2 DEF Calm, TokenInv, LoginOnce
  <2>2. \A t \in Threads : Serving(t)' => ~HasLogin(inbox'[cur'[t]])
    <3>1. \A t \in Threads : Serving(t) => cur[t] \in Slots
      BY <1>5 DEF Typing, WorkOK, Serving, LoginPc
    <3> QED
      BY <3>1 DEF Calm, TokenInv, LoginOnce
  <2>3. \A t \in Threads : Moving(t)' => ~HasLogin(wire'[carried'[t]])
    <3>1. \A t \in Threads : Moving(t) => carried[t] \in Sockets
      BY DEF Typing, WorkOK, Moving, SocketPc
    <3> QED
      BY <3>1 DEF Calm, TokenInv, LoginOnce
  <2>4. (\A k \in Sockets : LoginFirst(wire'[k])) /\ \A s \in Slots : LoginFirst(inbox'[s])
    BY DEF Calm
  <2> QED
    BY <2>1, <2>2, <2>3, <2>4 DEF LoginOnce, HasLogin, LoginFirst, Serving, Moving
<1>11. RightUser'
  <2> SUFFICES ASSUME NEW u \in Users
      PROVE /\ conn'[u] # NoSocket /\ HasLogin(wire'[conn'[u]]) => Head(wire'[conn'[u]]).usn = u
            /\ \A s \in Slots : socketOf'[s] = conn'[u] /\ conn'[u] # NoSocket =>
                 /\ HasLogin(inbox'[s]) => Head(inbox'[s]).usn = u
                 /\ s \in used /\ Known(id[s])' => usn[s] = u
                 /\ \A t \in Threads : Serving(t)' /\ cur'[t] = s => req'[t].usn = u
            /\ \A t \in Threads : Moving(t)' /\ carried'[t] = conn'[u] => req'[t].usn = u
    BY <1>6 DEF RightUser, HasLogin, Serving, Moving, Known
  <2>1. conn[u] \in SocketOrNone /\ conn'[u] \in {conn[u], NoSocket}
    BY DEF Calm, Typing, TypeOK, ClientTypeOK
  <2>2. conn'[u] # NoSocket => conn'[u] = conn[u] /\ conn[u] \in Sockets
    BY <2>1 DEF SocketOrNone
  <2>3. conn'[u] # NoSocket /\ HasLogin(wire'[conn'[u]]) => Head(wire'[conn'[u]]).usn = u
    BY <2>2 DEF Calm, TokenInv, RightUser
  <2>4. ASSUME NEW s \in Slots, socketOf'[s] = conn'[u], conn'[u] # NoSocket
        PROVE  /\ HasLogin(inbox'[s]) => Head(inbox'[s]).usn = u
               /\ s \in used /\ Known(id[s])' => usn[s] = u
               /\ \A t \in Threads : Serving(t)' /\ cur'[t] = s => req'[t].usn = u
    <3>1. socketOf[s] = conn[u] /\ conn[u] # NoSocket
      BY <1>2, <2>2, <2>4
    <3>2. Known(id[s])' => Known(id[s])
      BY <1>1, <1>4, <1>6
    <3> QED
      BY <3>1, <3>2 DEF Calm, TokenInv, RightUser
  <2>5. ASSUME NEW t \in Threads, Moving(t)', carried'[t] = conn'[u] PROVE req'[t].usn = u
    <3>1. carried[t] = conn'[u] /\ carried[t] \in Sockets /\ req'[t] = req[t] /\ Moving(t)
      BY <2>5 DEF Calm, Typing, WorkOK, Moving, SocketPc
    <3> QED
      BY <1>0, <2>1, <3>1 DEF TokenInv, RightUser
  <2> QED
    BY <2>3, <2>4, <2>5
<1>12. FreshOK'
  <2> SUFFICES ASSUME NEW s \in used, Undecided(s)', Known(id[s])' PROVE FALSE
    BY <1>6 DEF FreshOK, Known, Undecided
  <2> QED
    BY <1>1, <1>3, <1>4, <1>5, <1>6 DEF TokenInv, FreshOK
<1>13. TokenNamesOwnSession'
  BY <1>6 DEF TokenInv, TokenNamesOwnSession
<1> QED
  BY <1>7, <1>8, <1>9, <1>10, <1>11, <1>12, <1>13 DEF TokenInv

\* What is to be shown of a step that leaves the queues alone or takes away from a wire.
LEMMA SameQueues ==
  ASSUME Typing, TokenInv PROVE
    /\ \A k \in Sockets : LoginFirst(wire[k]) /\ wire[k] \in Seq(Message)
    /\ \A s \in Slots : LoginFirst(inbox[s]) /\ inbox[s] \in Seq(Message)
  BY DEF TokenInv, LoginOnce, Typing, TypeOK, SessionTypeOK, ClientTypeOK

LEMMA ClientCalm ==
  ASSUME Typing, TokenInv, NEW u \in Users, ClientSend(u) \/ Leave(u) PROVE TokenInv'
<1>1. UNCHANGED <<usn, id, used, nextId, token, sessionOf, socketOf, link, inbox, pc, req, cur, carried>>
  BY DEF ClientSend, Leave, sessionVars, tableVars, threadVars
<1>2. \A v \in Users : conn'[v] \in {conn[v], NoSocket}
  BY DEF ClientSend, Leave, Typing, TypeOK, ClientTypeOK
<1>3. ASSUME NEW k \in Sockets
      PROVE  /\ LoginFirst(wire'[k])
             /\ HasLogin(wire'[k]) => HasLogin(wire[k]) /\ Head(wire'[k]) = Head(wire[k])
             /\ link'[k] = "unborn" => wire'[k] = wire[k]
  <2>1. CASE wire'[k] = wire[k]
    BY <2>1, SameQueues
  <2>2. ASSUME NEW m \in Request, wire'[k] = Append(wire[k], m), conn[u] = k
        PROVE  /\ LoginFirst(wire'[k])
               /\ HasLogin(wire'[k]) => HasLogin(wire[k]) /\ Head(wire'[k]) = Head(wire[k])
               /\ link[k] # "unborn"
    <3>1. m \in Message /\ m.kind # "login"
      BY <2>2, KindAssumption DEF Message, Request
    <3>2. link[k] # "unborn"
      BY <2>2 DEF TokenInv, ConnOK
    <3>3. /\ LoginFirst(Append(wire[k], m))
          /\ HasLogin(Append(wire[k], m)) => HasLogin(wire[k]) /\ Head(Append(wire[k], m)) = Head(wire[k])
      <4>1. wire[k] \in Seq(Message) /\ LoginFirst(wire[k])
        BY SameQueues
      <4> QED
        BY ONLY <3>1, <4>1, QueueFacts
    <3> QED
      BY <2>2, <3>2, <3>3
  <2>3. ClientSend(u) => \E m \in Request : wire' = [wire EXCEPT ![conn[u]] = Append(@, m)]
    BY DEF ClientSend
  <2>4. wire \in [Sockets -> Seq(Message)] /\ (Leave(u) => wire' = wire)
    BY DEF Leave, Typing, TypeOK, ClientTypeOK
  <2>5. wire'[k] = wire[k] \/ (conn[u] = k /\ \E m \in Request : wire'[k] = Append(wire[k], m))
    BY <2>3, <2>4
  <2> QED
    BY <1>1, <2>1, <2>2, <2>5
<1>4. Calm
  BY <1>1, <1>2, <1>3, SameQueues DEF Calm, Serving, Moving
<1> QED
  BY <1>4, CalmStep

LEMMA HandlerCalm ==
  ASSUME Typing, TokenInv, NEW k \in Sockets,
         \/ DoRead(k) \/ ReadError(k) \/ WriteDone(k) \/ WriteError(k) \/ HandlerUnbind(k)
         \/ HandlerLoad(k) \/ HandlerTimer(k) \/ HandlerStore(k) \/ HandlerClose(k) \/ RunDestroy(k)
  PROVE  TokenInv'
<1>1. UNCHANGED <<usn, id, used, nextId, token, inbox, conn, pc, req, cur, carried>>
  BY DEF DoRead, ReadError, WriteDone, WriteError, HandlerUnbind, HandlerLoad, HandlerTimer,
     HandlerStore, HandlerClose, RunDestroy, sessionVars, tableVars, threadVars, clientVars
<1>2. \/ UNCHANGED <<socketOf, sessionOf>>
      \/ UnbindSocket(hses[k])
  BY DEF DoRead, ReadError, WriteDone, WriteError, HandlerUnbind, HandlerLoad, HandlerTimer,
     HandlerStore, HandlerClose, RunDestroy, sessionVars
<1>3. /\ \A j \in Sockets : sessionOf'[j] \in {sessionOf[j], NoSlot}
      /\ \A s \in Slots : socketOf'[s] # socketOf[s] =>
           socketOf'[s] = NoSocket /\ \A j \in Sockets : j = socketOf[s] => sessionOf'[j] = NoSlot
  BY <1>2 DEF UnbindSocket, Typing, TypeOK, SessionTypeOK, SocketTypeOK
<1>4. link' = link \/ link' = Closing(k)
  BY DEF DoRead, ReadError, WriteDone, WriteError, HandlerUnbind, HandlerLoad, HandlerTimer,
     HandlerStore, HandlerClose, RunDestroy, Delete
<1>5. \A j \in Sockets : link'[j] = "unborn" => link[j] = "unborn"
  BY <1>4 DEF Closing
<1>6. wire' = wire \/ (wire' = [wire EXCEPT ![k] = <<>>] /\ ReadError(k))
  BY DEF DoRead, ReadError, WriteDone, WriteError, HandlerUnbind, HandlerLoad, HandlerTimer,
     HandlerStore, HandlerClose, RunDestroy, clientVars
<1>7. ASSUME NEW j \in Sockets
      PROVE  /\ LoginFirst(wire'[j])
             /\ HasLogin(wire'[j]) => HasLogin(wire[j]) /\ Head(wire'[j]) = Head(wire[j])
             /\ link'[j] = "unborn" => wire'[j] = wire[j]
  <2>1. LoginFirst(<<>>) /\ ~HasLogin(<<>>)
    BY DEF LoginFirst, HasLogin
  <2>2. link[j] = "unborn" => wire[j] = <<>>
    BY DEF TokenInv, ConnOK
  <2> QED
    BY <1>5, <1>6, <2>1, <2>2, SameQueues DEF Typing, TypeOK, ClientTypeOK
<1>8. Calm
  BY <1>1, <1>3, <1>5, <1>7, SameQueues DEF Calm, Serving, Moving
<1> QED
  BY <1>8, CalmStep

LEMMA ExpireCalm ==
  ASSUME Typing, TokenInv, NEW s \in Slots, Expire(s) PROVE TokenInv'
<1>1. Calm
  BY SameQueues DEF Expire, Calm, Serving, Moving, tableVars, threadVars, clientVars
<1> QED
  BY <1>1, CalmStep

\* A message that is no login, or that no session accepts.
LEMMA ReadMoveCalm ==
  ASSUME Typing, TokenInv, NEW k \in Sockets, ReadMessage(k),
         Head(wire[k]).kind # "login" \/ inbox' = inbox
  PROVE  TokenInv'
<1>1. /\ UNCHANGED <<usn, id, used, nextId, token, socketOf, sessionOf, conn, pc, req, cur, carried>>
      /\ wire[k] # <<>> /\ wire' = [wire EXCEPT ![k] = Tail(@)] /\ link[k] = "Connected"
  BY DEF ReadMessage, tableVars, threadVars
<1>2. \/ inbox' = inbox
      \/ /\ sessionOf[k] \in Slots
         /\ inbox' = [inbox EXCEPT ![sessionOf[k]] = Append(@, Head(wire[k]))]
  BY DEF ReadMessage, Typing, TypeOK, SocketTypeOK, SlotOrNone
<1>3. \A j \in Sockets : link'[j] = "unborn" => link[j] = "unborn" /\ j # k
  BY DEF ReadMessage, Closing, Typing, TypeOK, SocketTypeOK
<1>4. Head(wire[k]) \in Message /\ wire[k] \in Seq(Message)
  BY <1>1, SameQueues
<1>5. LoginFirst(wire'[k]) /\ ~HasLogin(wire'[k]) /\ \A j \in Sockets \ {k} : wire'[j] = wire[j]
  <2>1. wire'[k] = Tail(wire[k]) /\ \A j \in Sockets \ {k} : wire'[j] = wire[j]
    BY <1>1 DEF Typing, TypeOK, ClientTypeOK
  <2> QED
    BY <1>1, <1>4, <2>1, SameQueues, QueueFacts
<1>6. ASSUME NEW j \in Sockets
      PROVE  /\ LoginFirst(wire'[j])
             /\ HasLogin(wire'[j]) => HasLogin(wire[j]) /\ Head(wire'[j]) = Head(wire[j])
             /\ link'[j] = "unborn" => wire'[j] = wire[j]
  BY <1>3, <1>5, SameQueues
<1>7. ASSUME NEW s \in Slots
      PROVE  /\ LoginFirst(inbox'[s])
             /\ HasLogin(inbox'[s]) => HasLogin(inbox[s]) /\ Head(inbox'[s]) = Head(inbox[s])
             /\ inbox'[s] # <<>> => \/ inbox[s] # <<>>
                                    \/ socketOf'[s] \in Sockets /\ ~HasLogin(wire'[socketOf'[s]])
  <2>1. CASE inbox'[s] = inbox[s]
    BY <2>1, SameQueues
  <2>2. CASE inbox'[s] # inbox[s]
    <3>1. s = sessionOf[k] /\ inbox'[s] = Append(inbox[s], Head(wire[k])) /\ Head(wire[k]).kind # "login"
      BY <1>2, <2>2 DEF Typing, TypeOK, SessionTypeOK
    <3>2. socketOf'[s] = k
      BY <1>1, <3>1, NullAssumption DEF TokenInv, SlotsOK
    <3>3. /\ LoginFirst(inbox'[s])
          /\ HasLogin(inbox'[s]) => HasLogin(inbox[s]) /\ Head(inbox'[s]) = Head(inbox[s])
      <4>1. inbox[s] \in Seq(Message) /\ LoginFirst(inbox[s])
        BY SameQueues
      <4> DEFINE m == Head(wire[k])
      <4>2. m \in Message /\ m.kind # "login"
        BY <1>4, <3>1
      <4> HIDE DEF m
      <4>3. LoginFirst(Append(inbox[s], m)) /\ (HasLogin(Append(inbox[s], m)) =>
              HasLogin(inbox[s]) /\ Head(Append(inbox[s], m)) = Head(inbox[s]))
        BY ONLY <4>1, <4>2, QueueFacts
      <4> QED
        BY <3>1, <4>3 DEF m
    <3> QED
      BY <1>5, <3>2, <3>3
  <2> QED
    BY <2>1, <2>2
<1>8. Calm
  BY <1>1, <1>3, <1>6, <1>7 DEF Calm, Serving, Moving
<1> QED
  BY <1>8, CalmStep

LEMMA ThreadCalm ==
  ASSUME Typing, TokenInv, NEW t \in Threads,
         \/ StartSocket(t) \/ RemoveCommand(t) \/ (\E s \in Slots : VisitSession(t, s))
         \/ EndPackets(t) \/ HandleMove(t) \/ FindByUsn(t) \/ CheckReconnect(t) \/ KickSession(t)
         \/ Recheck(t) \/ StripSession(t) \/ Unregister(t) \/ ReleaseSocket(t)
  PROVE  TokenInv'
<1>1. UNCHANGED <<usn, id, used, nextId, token, conn, wire>>
  BY DEF StartSocket, RemoveCommand, VisitSession, EndPackets, HandleMove, FindByUsn,
     CheckReconnect, KickSession, Recheck, StripSession, Unregister, ReleaseSocket,
     sessionVars, tableVars, clientVars
<1>2. \/ UNCHANGED <<socketOf, sessionOf>>
      \/ UnbindSocket(target[t])
      \/ UnbindSocket(cur[t])
  BY DEF StartSocket, RemoveCommand, VisitSession, EndPackets, HandleMove, FindByUsn,
     CheckReconnect, KickSession, Recheck, StripSession, Unregister, ReleaseSocket, sessionVars
<1>3. /\ \A j \in Sockets : sessionOf'[j] \in {sessionOf[j], NoSlot}
      /\ \A s \in Slots : socketOf'[s] # socketOf[s] =>
           socketOf'[s] = NoSocket /\ \A j \in Sockets : j = socketOf[s] => sessionOf'[j] = NoSlot
  BY <1>2 DEF UnbindSocket, Typing, TypeOK, SessionTypeOK, SocketTypeOK
<1>4. \A j \in Sockets : link'[j] = "unborn" => link[j] = "unborn"
  <2>1. CASE StartSocket(t)
    BY <2>1 DEF StartSocket, Typing, TypeOK, SocketTypeOK
  <2>2. CASE HandleMove(t)
    <3>1. \A k \in Sockets : link'[k] \in {"Closed", link[k]}
      BY <2>2 DEF HandleMove
    <3> QED
      BY <3>1
  <2>3. link' = link \/ (\E k : link' = Closing(k)) \/ StartSocket(t) \/ HandleMove(t)
    BY DEF RemoveCommand, VisitSession, EndPackets, FindByUsn,
     CheckReconnect, KickSession, Recheck, StripSession, Unregister, ReleaseSocket, Delete
  <2> QED
    BY <2>1, <2>2, <2>3 DEF Closing
<1>5. \/ inbox' = inbox
      \/ /\ cur[t] \in Slots /\ inbox[cur[t]] # <<>>
         /\ inbox' = [inbox EXCEPT ![cur[t]] = Tail(@)]
  BY DEF StartSocket, RemoveCommand, VisitSession, EndPackets, HandleMove, FindByUsn,
     CheckReconnect, KickSession, Recheck, StripSession, Unregister, ReleaseSocket,
     sessionVars, Typing, TypeOK, TableTypeOK, WorkOK
<1>6. ASSUME NEW s \in Slots
      PROVE  /\ LoginFirst(inbox'[s])
             /\ HasLogin(inbox'[s]) => HasLogin(inbox[s]) /\ Head(inbox'[s]) = Head(inbox[s])
             /\ inbox'[s] # <<>> => inbox[s] # <<>>
  <2>1. CASE inbox'[s] = inbox[s]
    BY <2>1, SameQueues
  <2>2. CASE inbox[s] # <<>> /\ inbox'[s] = Tail(inbox[s])
    <3>1. inbox[s] \in Seq(Message) /\ LoginFirst(inbox[s])
      BY SameQueues
    <3>2. Head(inbox[s]) \in Message
      BY <2>2, <3>1
    <3>3. LoginFirst(Tail(inbox[s])) /\ ~HasLogin(Tail(inbox[s]))
      BY ONLY <2>2, <3>1, <3>2, QueueFacts
    <3> QED
      BY <2>2, <3>3
  <2> QED
    BY <1>5, <2>1, <2>2 DEF Typing, TypeOK, SessionTypeOK
<1>7. \A v \in Threads : Serving(v)' => Serving(v) /\ req'[v] = req[v] /\ cur'[v] = cur[v]
  BY DEF StartSocket, RemoveCommand, VisitSession, EndPackets, HandleMove, FindByUsn,
     CheckReconnect, KickSession, Recheck, StripSession, Unregister, ReleaseSocket, threadVars,
     Goto, Serving, LoginPc, Typing, TypeOK, ThreadTypeOK
<1>8. \A v \in Threads : Moving(v)' => Moving(v) /\ carried'[v] = carried[v] /\ req'[v] = req[v]
  BY DEF StartSocket, RemoveCommand, VisitSession, EndPackets, HandleMove, FindByUsn,
     CheckReconnect, KickSession, Recheck, StripSession, Unregister, ReleaseSocket, threadVars,
     Goto, Moving, Typing, TypeOK, ThreadTypeOK
<1>9. Calm
  BY <1>1, <1>3, <1>4, <1>6, <1>7, <1>8, SameQueues DEF Calm
<1> QED
  BY <1>9, CalmStep

\* A step that makes no token known and gives no session a login to wait for.
LEMMA KeepFresh ==
  ASSUME Typing, TokenInv, UNCHANGED <<id, used, nextId>>,
         \A n \in Ids : Known(n)' => Known(n), \A s \in Slots : Undecided(s)' => Undecided(s)
  PROVE  IdsOK' /\ FreshOK'
<1>1. used \subseteq Slots /\ \A x \in Slots : id[x] \in Ids
  BY DEF Typing, TypeOK, TableTypeOK, SessionTypeOK
<1>2. IdsOK'
  BY DEF TokenInv, IdsOK
<1>3. FreshOK'
  <2> SUFFICES ASSUME NEW x \in used, Undecided(x)', Known(id[x])' PROVE FALSE
    BY DEF FreshOK, Known, Undecided
  <2> QED
    BY <1>1 DEF TokenInv, FreshOK
<1> QED
  BY <1>2, <1>3

\* The session a thread serves is served by no other.
LEMMA CurOwned ==
  ASSUME Typing, NEW t \in Threads, NEW v \in Threads, pc[t] # "tick", pc[v] # "tick", cur[t] = cur[v]
  PROVE  t = v
  BY DEF Typing, WorkOK

LEMMA HandleLoginToken ==
  ASSUME Typing, TokenInv, NEW t \in Threads, HandleLogin(t) PROVE TokenInv'
<1> DEFINE s == cur[t]
           m == Head(inbox[s])
<1>1. /\ pc[t] = "packets" /\ s \in used /\ s \in Slots /\ HasLogin(inbox[s])
      /\ inbox' = [inbox EXCEPT ![s] = Tail(@)] /\ req' = [req EXCEPT ![t] = m]
      /\ UNCHANGED <<usn, id, used, nextId, token, conn, wire, link, socketOf, sessionOf, cur, carried>>
      /\ Serving(t)' /\ ~Moving(t)' /\ ~Serving(t)
      /\ \A v \in Threads \ {t} : pc'[v] = pc[v]
  BY DEF HandleLogin, Goto, HasLogin, Serving, LoginPc, Moving, Typing, TypeOK, ThreadTypeOK,
     TableTypeOK, WorkOK, tableVars, clientVars
<1>2. LoginFirst(inbox'[s]) /\ ~HasLogin(inbox'[s])
  <2>1. inbox[s] \in Seq(Message) /\ LoginFirst(inbox[s]) /\ inbox[s] # <<>>
    BY <1>1, SameQueues DEF HasLogin
  <2>2. Head(inbox[s]) \in Message
    BY <2>1
  <2>3. LoginFirst(Tail(inbox[s])) /\ ~HasLogin(Tail(inbox[s]))
    BY ONLY <2>1, <2>2, QueueFacts
  <2> QED
    BY <1>1, <2>3 DEF Typing, TypeOK, SessionTypeOK
<1>3. /\ \A x \in Slots \ {s} : inbox'[x] = inbox[x]
      /\ req'[t] = m /\ \A v \in Threads \ {t} : req'[v] = req[v]
  BY <1>1 DEF Typing, TypeOK, SessionTypeOK, ThreadTypeOK
<1>4. \A v \in Threads : Serving(v) => cur[v] # s
  BY <1>1, CurOwned DEF Serving, LoginPc
<1>5. \A v \in Threads \ {t} : (Serving(v)' <=> Serving(v)) /\ (Moving(v)' <=> Moving(v))
  BY <1>1 DEF Serving, Moving
<1>6. inbox[s] # <<>> /\ \A k \in Sockets : socketOf[s] = k => ~HasLogin(wire[k])
  BY <1>1 DEF TokenInv, LoginOnce, HasLogin
<1> HIDE DEF s, m
<1>7. \A n \in Ids : Known(n)' => Known(n)
  BY <1>1, <1>2, <1>3, <1>5 DEF Known, m
<1>8. \A x \in Slots : Undecided(x)' => Undecided(x)
  BY <1>1, <1>2, <1>3, <1>5 DEF Undecided, s
<1>9. used \subseteq Slots /\ \A x \in Slots : id[x] \in Ids
  BY DEF Typing, TypeOK, TableTypeOK, SessionTypeOK
<1>10. ConnOK' /\ TokenNamesOwnSession'
  BY <1>1 DEF TokenInv, ConnOK, TokenNamesOwnSession
<1>11. SlotsOK'
  BY <1>1, <1>3 DEF TokenInv, SlotsOK
<1>12. LoginOnce'
  <2>1. \A x \in Slots : LoginFirst(inbox'[x])
    BY <1>2, <1>3, SameQueues
  <2>2. \A x \in Slots, k \in Sockets : socketOf'[x] = k /\ HasLogin(wire'[k]) =>
          inbox'[x] = <<>> /\ \A v \in Threads : Serving(v)' => cur'[v] # x
    <3> SUFFICES ASSUME NEW x \in Slots, NEW k \in Sockets, socketOf[x] = k, HasLogin(wire[k])
                 PROVE  inbox'[x] = <<>> /\ \A v \in Threads : Serving(v)' => cur[v] # x
      BY <1>1
    <3>1. x # s
      BY <1>6
    <3> QED
      BY <1>1, <1>3, <1>5, <3>1 DEF TokenInv, LoginOnce, s
  <2>3. \A v \in Threads : Serving(v)' => ~HasLogin(inbox'[cur'[v]])
    <3>1. \A v \in Threads : Serving(v) => cur[v] \in Slots
      BY DEF Typing, TypeOK, TableTypeOK, WorkOK, Serving, LoginPc
    <3> QED
      BY <1>1, <1>2, <1>3, <1>5, <3>1 DEF TokenInv, LoginOnce, s
  <2>4. \A v \in Threads : Moving(v)' => ~HasLogin(wire'[carried'[v]])
    BY <1>1, <1>5 DEF TokenInv, LoginOnce
  <2> QED
    BY <1>1, <2>1, <2>2, <2>3, <2>4, SameQueues DEF LoginOnce, HasLogin, LoginFirst, Serving, Moving
<1>13. RightUser'
  <2> SUFFICES ASSUME NEW u \in Users
      PROVE /\ conn[u] # NoSocket /\ HasLogin(wire[conn[u]]) => Head(wire[conn[u]]).usn = u
            /\ \A x \in Slots : socketOf[x] = conn[u] /\ conn[u] # NoSocket =>
                 /\ HasLogin(inbox'[x]) => Head(inbox'[x]).usn = u
                 /\ x \in used /\ Known(id[x])' => usn[x] = u
                 /\ \A v \in Threads : Serving(v)' /\ cur[v] = x => req'[v].usn = u
            /\ \A v \in Threads : Moving(v)' /\ carried[v] = conn[u] => req'[v].usn = u
    BY <1>1 DEF RightUser, HasLogin, Serving, Moving, Known
  <2>1. conn[u] # NoSocket /\ HasLogin(wire[conn[u]]) => Head(wire[conn[u]]).usn = u
    BY DEF TokenInv, RightUser
  <2>2. ASSUME NEW x \in Slots, socketOf[x] = conn[u], conn[u] # NoSocket
        PROVE  /\ HasLogin(inbox'[x]) => Head(inbox'[x]).usn = u
               /\ x \in used /\ Known(id[x])' => usn[x] = u
               /\ \A v \in Threads : Serving(v)' /\ cur[v] = x => req'[v].usn = u
    <3>1. Known(id[x])' => Known(id[x])
      BY <1>1, <1>7, <1>9
    <3>2. HasLogin(inbox'[x]) => Head(inbox'[x]).usn = u
      BY <1>2, <1>3, <2>2 DEF TokenInv, RightUser
    <3>3. \A v \in Threads : Serving(v)' /\ cur[v] = x => req'[v].usn = u
      BY <1>1, <1>3, <1>5, <2>2 DEF TokenInv, RightUser, s, m
    <3> QED
      BY <2>2, <3>1, <3>2, <3>3 DEF TokenInv, RightUser
  <2>3. \A v \in Threads : Moving(v)' /\ carried[v] = conn[u] => req'[v].usn = u
    BY <1>1, <1>3, <1>5 DEF TokenInv, RightUser
  <2> QED
    BY <2>1, <2>2, <2>3
<1>14. FreshOK' /\ IdsOK'
  BY <1>1, <1>7, <1>8, KeepFresh
<1> QED
  BY <1>10, <1>11, <1>12, <1>13, <1>14 DEF TokenInv

LEMMA AcceptToken ==
  ASSUME Typing, Exclusive, TokenInv, NEW u \in Users, NEW k \in Sockets, NEW t \in Threads,
         Accept(u, k, t)
  PROVE  TokenInv'
<1> DEFINE m == [kind |-> "login", usn |-> u, token |-> token[u]]
<1>1. /\ link[k] = "unborn" /\ link' = [link EXCEPT ![k] = "None"]
      /\ conn' = [conn EXCEPT ![u] = k]
      /\ wire' = wire \/ wire' = [wire EXCEPT ![k] = <<m>>]
      /\ UNCHANGED <<usn, id, used, nextId, token, inbox, socketOf, sessionOf, pc, req, cur, carried>>
  BY DEF Accept, sessionVars, tableVars, threadVars
<1>2. wire[k] = <<>> /\ \A v \in Users : conn[v] # k
  BY <1>1 DEF TokenInv, ConnOK
<1>3. /\ \A s \in Slots : socketOf[s] # k
      /\ \A v \in Threads : Moving(v) => carried[v] # k
  BY <1>1 DEF Exclusive, UnbornIsNew, InUse
<1>4. m.kind = "login" /\ m.usn = u /\ m.token = token[u]
  OBVIOUS
<1> HIDE DEF m
<1>5. /\ \A j \in Sockets \ {k} : wire'[j] = wire[j]
      /\ wire'[k] = <<>> \/ wire'[k] = <<m>>
      /\ LoginFirst(wire'[k])
      /\ HasLogin(wire'[k]) => Head(wire'[k]) = m
  BY <1>1, <1>2 DEF HasLogin, LoginFirst, Typing, TypeOK, ClientTypeOK
<1>6. conn'[u] = k /\ \A v \in Users \ {u} : conn'[v] = conn[v]
  BY <1>1 DEF Typing, TypeOK, ClientTypeOK
<1>7. \A j \in Sockets : link'[j] = "unborn" => link[j] = "unborn" /\ j # k
  BY <1>1 DEF Typing, TypeOK, SocketTypeOK
<1>8. \A n \in Ids : Known(n)' => Known(n)
  BY <1>1, <1>4, <1>5 DEF Known, Serving
<1>9. \A s \in Slots : Undecided(s)' => Undecided(s)
  BY <1>1, <1>3, <1>5 DEF Undecided, Serving
<1>10. IdsOK' /\ FreshOK'
  BY <1>1, <1>8, <1>9, KeepFresh
<1>11. SlotsOK' /\ TokenNamesOwnSession'
  BY <1>1 DEF TokenInv, SlotsOK, TokenNamesOwnSession
<1>12. ConnOK'
  BY <1>5, <1>6, <1>7 DEF TokenInv, ConnOK
<1>13. LoginOnce'
  <2>1. \A j \in Sockets : LoginFirst(wire'[j])
    BY <1>5, SameQueues
  <2>2. \A s \in Slots, j \in Sockets : socketOf[s] = j /\ HasLogin(wire'[j]) =>
          inbox[s] = <<>> /\ \A v \in Threads : Serving(v) => cur[v] # s
    BY <1>3, <1>5 DEF TokenInv, LoginOnce
  <2>3. \A v \in Threads : Moving(v) => ~HasLogin(wire'[carried[v]])
    <3>1. \A v \in Threads : Moving(v) => carried[v] \in Sockets
      BY DEF Typing, WorkOK, Moving, SocketPc
    <3> QED
      BY <1>3, <1>5, <3>1 DEF TokenInv, LoginOnce
  <2> QED
    BY <1>1, <2>1, <2>2, <2>3 DEF TokenInv, LoginOnce, HasLogin, LoginFirst, Serving, Moving
<1>14. RightUser'
  <2> SUFFICES ASSUME NEW v \in Users
      PROVE /\ conn'[v] # NoSocket /\ HasLogin(wire'[conn'[v]]) => Head(wire'[conn'[v]]).usn = v
            /\ \A s \in Slots : socketOf[s] = conn'[v] /\ conn'[v] # NoSocket =>
                 /\ HasLogin(inbox[s]) => Head(inbox[s]).usn = v
                 /\ s \in used /\ Known(id[s])' => usn[s] = v
                 /\ \A w \in Threads : Serving(w) /\ cur[w] = s => req[w].usn = v
            /\ \A w \in Threads : Moving(w) /\ carried[w] = conn'[v] => req[w].usn = v
    BY <1>1 DEF RightUser, HasLogin, Serving, Moving, Known
  <2>1. CASE v = u
    BY <1>3, <1>4, <1>5, <1>6, <2>1
  <2>2. CASE v # u
    <3>1. conn'[v] = conn[v] /\ (conn[v] # NoSocket => wire'[conn[v]] = wire[conn[v]])
      BY <1>2, <1>5, <1>6, <2>2 DEF Typing, TypeOK, ClientTypeOK, SocketOrNone
    <3>2. \A s \in Slots : Known(id[s])' => Known(id[s])
      BY <1>1, <1>8 DEF Typing, TypeOK, SessionTypeOK
    <3> QED
      BY <3>1, <3>2 DEF TokenInv, RightUser
  <2> QED
    BY <2>1, <2>2
<1> QED
  BY <1>10, <1>11, <1>12, <1>13, <1>14 DEF TokenInv

\* The login of a socket reaches the queue of its session.
LEMMA ReadLoginToken ==
  ASSUME Typing, TokenInv, NEW k \in Sockets, ReadMessage(k), Head(wire[k]).kind = "login",
         inbox' # inbox
  PROVE  TokenInv'
<1> DEFINE s == sessionOf[k]
           m == Head(wire[k])
<1>1. /\ s \in Slots /\ wire[k] # <<>> /\ link[k] = "Connected"
      /\ wire' = [wire EXCEPT ![k] = Tail(@)] /\ inbox' = [inbox EXCEPT ![s] = Append(@, m)]
      /\ UNCHANGED <<usn, id, used, nextId, token, conn, link, socketOf, sessionOf, pc, req, cur, carried>>
  BY DEF ReadMessage, tableVars, threadVars, Typing, TypeOK, SocketTypeOK, SlotOrNone
<1>2. socketOf[s] = k /\ HasLogin(wire[k])
  BY <1>1, NullAssumption DEF TokenInv, SlotsOK, HasLogin
<1>3. inbox[s] = <<>> /\ \A v \in Threads : Serving(v) => cur[v] # s
  BY <1>1, <1>2 DEF TokenInv, LoginOnce
<1>4. wire[k] \in Seq(Message) /\ LoginFirst(wire[k]) /\ m \in Message /\ m.kind = "login"
  BY <1>1, SameQueues
<1>5. LoginFirst(wire'[k]) /\ ~HasLogin(wire'[k]) /\ \A j \in Sockets \ {k} : wire'[j] = wire[j]
  <2>1. wire'[k] = Tail(wire[k]) /\ \A j \in Sockets \ {k} : wire'[j] = wire[j]
    BY <1>1 DEF Typing, TypeOK, ClientTypeOK
  <2>2. LoginFirst(Tail(wire[k])) /\ ~HasLogin(Tail(wire[k]))
    BY ONLY <1>1, <1>4, QueueFacts
  <2> QED
    BY <2>1, <2>2
<1> HIDE DEF s, m
<1>6. LoginFirst(inbox'[s]) /\ Head(inbox'[s]) = m /\ \A x \in Slots \ {s} : inbox'[x] = inbox[x]
  <2>1. inbox'[s] = <<m>> /\ \A x \in Slots \ {s} : inbox'[x] = inbox[x]
    BY <1>1, <1>3 DEF Typing, TypeOK, SessionTypeOK
  <2> QED
    BY <2>1 DEF LoginFirst
<1>7. \A n \in Ids : Known(n)' => Known(n)
  BY <1>1, <1>2, <1>5, <1>6 DEF Known, Serving, m
<1>8. \A x \in Slots : Undecided(x)' => Undecided(x)
  BY <1>1, <1>2, <1>5, <1>6 DEF Undecided, Serving
<1>9. IdsOK' /\ FreshOK'
  BY <1>1, <1>7, <1>8, KeepFresh
<1>10. s \in used
  BY <1>1, <1>2, NullAssumption DEF TokenInv, SlotsOK
<1>11. SlotsOK' /\ TokenNamesOwnSession'
  BY <1>1, <1>6, <1>10 DEF TokenInv, SlotsOK, TokenNamesOwnSession
<1>12. ConnOK'
  BY <1>1, <1>5 DEF TokenInv, ConnOK
<1>13. LoginOnce'
  <2>1. (\A j \in Sockets : LoginFirst(wire'[j])) /\ \A x \in Slots : LoginFirst(inbox'[x])
    BY <1>5, <1>6, SameQueues
  <2>2. \A x \in Slots, j \in Sockets : socketOf[x] = j /\ HasLogin(wire'[j]) =>
          inbox'[x] = <<>> /\ \A v \in Threads : Serving(v) => cur[v] # x
    <3> SUFFICES ASSUME NEW x \in Slots, NEW j \in Sockets, socketOf[x] = j, HasLogin(wire'[j])
                 PROVE  inbox'[x] = <<>> /\ \A v \in Threads : Serving(v) => cur[v] # x
      OBVIOUS
    <3>1. j # k /\ x # s
      BY <1>2, <1>5
    <3> QED
      BY <1>5, <1>6, <3>1 DEF TokenInv, LoginOnce
  <2>3. \A v \in Threads : Serving(v) => ~HasLogin(inbox'[cur[v]])
    <3>1. \A v \in Threads : Serving(v) => cur[v] \in Slots
      BY DEF Typing, TypeOK, TableTypeOK, WorkOK, Serving, LoginPc
    <3> QED
      BY <1>3, <1>6, <3>1 DEF TokenInv, LoginOnce
  <2>4. \A v \in Threads : Moving(v) => ~HasLogin(wire'[carried[v]])
    <3>1. \A v \in Threads : Moving(v) => carried[v] \in Sockets
      BY DEF Typing, WorkOK, Moving, SocketPc
    <3> QED
      BY <1>5, <3>1 DEF TokenInv, LoginOnce
  <2> QED
    BY <1>1, <2>1, <2>2, <2>3, <2>4 DEF LoginOnce, HasLogin, LoginFirst, Serving, Moving
<1>14. RightUser'
  <2> SUFFICES ASSUME NEW u \in Users
      PROVE /\ conn[u] # NoSocket /\ HasLogin(wire'[conn[u]]) => Head(wire'[conn[u]]).usn = u
            /\ \A x \in Slots : socketOf[x] = conn[u] /\ conn[u] # NoSocket =>
                 /\ HasLogin(inbox'[x]) => Head(inbox'[x]).usn = u
                 /\ x \in used /\ Known(id[x])' => usn[x] = u
                 /\ \A v \in Threads : Serving(v) /\ cur[v] = x => req[v].usn = u
            /\ \A v \in Threads : Moving(v) /\ carried[v] = conn[u] => req[v].usn = u
    BY <1>1 DEF RightUser, HasLogin, Serving, Moving, Known
  <2>1. conn[u] # NoSocket /\ HasLogin(wire'[conn[u]]) => Head(wire'[conn[u]]).usn = u
    <3>1. conn[u] # NoSocket => conn[u] \in Sockets
      BY DEF Typing, TypeOK, ClientTypeOK, SocketOrNone
    <3> QED
      BY <1>5, <3>1 DEF TokenInv, RightUser
  <2>2. ASSUME NEW x \in Slots, socketOf[x] = conn[u], conn[u] # NoSocket
        PROVE  /\ HasLogin(inbox'[x]) => Head(inbox'[x]).usn = u
               /\ x \in used /\ Known(id[x])' => usn[x] = u
               /\ \A v \in Threads : Serving(v) /\ cur[v] = x => req[v].usn = u
    <3>1. Known(id[x])' => Known(id[x])
      BY <1>1, <1>7 DEF Typing, TypeOK, SessionTypeOK
    <3>2. HasLogin(inbox'[x]) => Head(inbox'[x]).usn = u
      <4>1. CASE x = s
        <5>1. Head(wire[k]).usn = u
          BY <1>2, <2>2, <4>1 DEF TokenInv, RightUser
        <5> QED
          BY <1>6, <4>1, <5>1 DEF m
      <4>2. CASE x # s
        BY <1>6, <2>2, <4>2 DEF TokenInv, RightUser
      <4> QED
        BY <4>1, <4>2
    <3> QED
      BY <2>2, <3>1, <3>2 DEF TokenInv, RightUser
  <2>3. \A v \in Threads : Moving(v) /\ carried[v] = conn[u] => req[v].usn = u
    BY DEF TokenInv, RightUser
  <2> QED
    BY <2>1, <2>2, <2>3
<1> QED
  BY <1>9, <1>11, <1>12, <1>13, <1>14 DEF TokenInv

\* A new session has an id that no client can know.
LEMMA CreateToken ==
  ASSUME Typing, Exclusive, TokenInv, NEW t \in Threads, CreateSession(t) PROVE TokenInv'
<1> DEFINE k == Head(cmds[t]).socket
<1>0. cmds \in [Threads -> Seq(Command)] /\ cmds[t] # <<>> /\ pc[t] = "tick"
  BY DEF CreateSession, Typing, TypeOK, TableTypeOK
<1>1. cmds[t][1] \in Command /\ cmds[t][1] = Head(cmds[t]) /\ 1 \in 1 .. Len(cmds[t])
  BY <1>0
<1>2. k \in Sockets /\ ~InUse(k) /\ link[k] # "unborn"
  <2>1. k \in Sockets /\ IsCreate(cmds[t][1], k)
    BY <1>1 DEF CreateSession, Command, IsCreate
  <2> QED
    BY <1>1, <2>1 DEF Exclusive, QueuedIsNew
<1>3. UNCHANGED <<usn, inbox, req, conn, token, wire>>
  BY DEF CreateSession
<1>4. CASE ~ \E s \in Slots \ used : Owner[s] = t
  <2>1. link' = Closing(k)
        /\ UNCHANGED <<used, id, nextId, socketOf, sessionOf, cur, carried, pc>>
    BY <1>4 DEF CreateSession, Delete
  <2>2. \A j \in Sockets : link'[j] = "unborn" => link[j] = "unborn"
    BY <2>1 DEF Closing
  <2>3. Calm
    BY <1>3, <2>1, <2>2, SameQueues DEF Calm, Serving, Moving
  <2> QED
    BY <2>3, CalmStep
<1>5. CASE \E s \in Slots \ used : Owner[s] = t
  <2>1. PICK s \in Slots \ used :
          /\ used' = used \cup {s}
          /\ id' = [id EXCEPT ![s] = nextId] /\ nextId' = nextId + 1
          /\ socketOf' = [socketOf EXCEPT ![s] = k] /\ sessionOf' = [sessionOf EXCEPT ![k] = s]
          /\ cur' = [cur EXCEPT ![t] = s] /\ carried' = [carried EXCEPT ![t] = k]
          /\ pc' = [pc EXCEPT ![t] = "start"] /\ link' = link
    BY <1>5 DEF CreateSession, Goto
  <2> HIDE DEF k
  <2>2. /\ \A v \in Threads : (Serving(v)' <=> Serving(v)) /\ (Moving(v)' <=> Moving(v))
        /\ ~Serving(t) /\ ~Moving(t)
        /\ \A v \in Threads \ {t} : cur'[v] = cur[v] /\ carried'[v] = carried[v]
    BY <1>0, <2>1 DEF Serving, LoginPc, Moving, Typing, TypeOK, ThreadTypeOK
  <2>3. /\ id'[s] = nextId /\ \A x \in Slots \ {s} : id'[x] = id[x]
        /\ socketOf'[s] = k /\ \A x \in Slots \ {s} : socketOf'[x] = socketOf[x]
        /\ sessionOf'[k] = s /\ \A j \in Sockets \ {k} : sessionOf'[j] = sessionOf[j]
    BY <1>2, <2>1 DEF Typing, TypeOK, SessionTypeOK, SocketTypeOK
  <2>4. inbox[s] = <<>> /\ socketOf[s] = NoSocket
    BY DEF TokenInv, SlotsOK
  <2>5. /\ nextId \in Ids /\ nextId \in Nat /\ nextId > 0 /\ ~Known(nextId)
        /\ used \subseteq Slots /\ \A x \in Slots : id[x] \in Ids /\ id[x] \in Int
    <3>1. nextId \in Ids /\ nextId \in Nat /\ nextId > 0
      BY <1>5, BoundAssumption DEF CreateSession, Typing, TypeOK, TableTypeOK, Ids
    <3>2. used \subseteq Slots /\ \A x \in Slots : id[x] \in Ids /\ id[x] \in Int
      BY DEF Typing, TypeOK, TableTypeOK, SessionTypeOK, Ids
    <3>3. ~Known(nextId)
      <4>1. Known(nextId) => nextId < nextId
        BY <3>1 DEF TokenInv, IdsOK
      <4> QED
        BY <3>1, <4>1
    <3> QED
      BY <3>1, <3>2, <3>3
  <2>6. \A n \in Ids : Known(n)' <=> Known(n)
    BY <1>3, <2>2 DEF Known
  <2>7. \A x \in Slots \ {s} : Undecided(x)' => Undecided(x)
    BY <1>3, <2>2, <2>3 DEF Undecided
  <2>8. IdsOK'
    <3>1. \A x \in used : id[x] \in 1 .. nextId - 1 /\ x # s /\ x \in Slots
      BY <2>5 DEF TokenInv, IdsOK
    <3>2. \A x \in used' : id'[x] \in 1 .. nextId' - 1
      BY <2>1, <2>3, <2>5, <3>1
    <3>3. \A x, y \in used' : id'[x] = id'[y] => x = y
      <4>1. \A x \in used : id'[x] = id[x] /\ id[x] # nextId
        BY <2>3, <2>5, <3>1
      <4> QED
        BY <2>1, <2>3, <4>1 DEF TokenInv, IdsOK
    <3>4. \A n \in Ids : Known(n)' => n < nextId'
      BY <2>1, <2>5, <2>6 DEF TokenInv, IdsOK, Ids
    <3> QED
      BY <3>2, <3>3, <3>4 DEF IdsOK
  <2>9. SlotsOK'
    <3>1. \A x \in Slots \ used' : inbox'[x] = <<>> /\ socketOf'[x] = NoSocket
      BY <1>3, <2>1, <2>3 DEF TokenInv, SlotsOK
    <3>2. ASSUME NEW j \in Sockets, sessionOf'[j] # NoSlot PROVE socketOf'[sessionOf'[j]] = j
      <4>1. CASE j = k
        BY <2>3, <4>1
      <4>2. CASE j # k
        <5>1. sessionOf'[j] = sessionOf[j] /\ sessionOf[j] \in Slots /\ socketOf[sessionOf[j]] = j
          BY <2>3, <3>2, <4>2 DEF TokenInv, SlotsOK, Typing, TypeOK, SocketTypeOK, SlotOrNone
        <5>2. sessionOf[j] # s
          BY <2>4, <5>1, NullAssumption
        <5> QED
          BY <2>3, <5>1, <5>2
      <4> QED
        BY <4>1, <4>2
    <3> QED
      BY <3>1, <3>2 DEF SlotsOK
  <2>10. ConnOK'
    BY <1>3, <2>1 DEF TokenInv, ConnOK
  <2>11. \A v \in Threads : Serving(v) \/ Moving(v) => v # t /\ cur[v] \in Slots /\ cur[v] # s
    BY <2>2, <2>5 DEF Typing, WorkOK, Serving, Moving, LoginPc
  <2>12. LoginOnce'
    <3>1. \A x \in Slots, j \in Sockets : socketOf'[x] = j /\ HasLogin(wire[j]) =>
            inbox[x] = <<>> /\ \A v \in Threads : Serving(v) => cur'[v] # x
      BY <2>2, <2>3, <2>4, <2>11 DEF TokenInv, LoginOnce
    <3>2. \A v \in Threads : Serving(v) => ~HasLogin(inbox[cur'[v]])
      BY <2>2, <2>11 DEF TokenInv, LoginOnce
    <3>3. \A v \in Threads : Moving(v) => ~HasLogin(wire[carried'[v]])
      BY <2>2, <2>11 DEF TokenInv, LoginOnce
    <3> QED
      BY <1>3, <2>2, <3>1, <3>2, <3>3, SameQueues DEF LoginOnce, HasLogin, LoginFirst
  <2>13. RightUser'
    <3> SUFFICES ASSUME NEW u \in Users
        PROVE /\ conn[u] # NoSocket /\ HasLogin(wire[conn[u]]) => Head(wire[conn[u]]).usn = u
              /\ \A x \in Slots : socketOf'[x] = conn[u] /\ conn[u] # NoSocket =>
                   /\ HasLogin(inbox[x]) => Head(inbox[x]).usn = u
                   /\ x \in used' /\ Known(id[x])' => usn[x] = u
                   /\ \A v \in Threads : Serving(v) /\ cur'[v] = x => req[v].usn = u
              /\ \A v \in Threads : Moving(v) /\ carried'[v] = conn[u] => req[v].usn = u
      BY <1>3, <2>2 DEF RightUser, HasLogin, Known
    <3>1. conn[u] # NoSocket /\ HasLogin(wire[conn[u]]) => Head(wire[conn[u]]).usn = u
      BY DEF TokenInv, RightUser
    <3>2. ASSUME NEW x \in Slots, socketOf'[x] = conn[u], conn[u] # NoSocket
          PROVE  /\ HasLogin(inbox[x]) => Head(inbox[x]).usn = u
                 /\ x \in used' /\ Known(id[x])' => usn[x] = u
                 /\ \A v \in Threads : Serving(v) /\ cur'[v] = x => req[v].usn = u
      <4>1. CASE x = s
        <5>1. ~HasLogin(inbox[s])
          BY <2>4 DEF HasLogin
        <5>2. ~Known(id[s])'
          BY <2>3, <2>5, <2>6
        <5> QED
          BY <2>2, <2>11, <4>1, <5>1, <5>2
      <4>2. CASE x # s
        <5>1. socketOf[x] = conn[u] /\ id'[x] = id[x]
          BY <2>3, <3>2, <4>2
        <5>2. x \in used' /\ Known(id[x])' => x \in used /\ Known(id[x])
          BY <2>1, <2>5, <2>6, <4>2, <5>1
        <5> QED
          BY <2>2, <2>11, <3>2, <5>1, <5>2 DEF TokenInv, RightUser
      <4> QED
        BY <4>1, <4>2
    <3>3. \A v \in Threads : Moving(v) /\ carried'[v] = conn[u] => req[v].usn = u
      BY <2>2 DEF TokenInv, RightUser
    <3> QED
      BY <3>1, <3>2, <3>3
  <2>14. FreshOK'
    <3> SUFFICES ASSUME NEW x \in used', Undecided(x)', Known(id[x])' PROVE FALSE
      BY DEF FreshOK, Known, Undecided
    <3>1. x # s
      BY <2>3, <2>5, <2>6
    <3>2. x \in used /\ x \in Slots /\ id'[x] = id[x]
      BY <2>1, <2>3, <2>5, <3>1
    <3> QED
      BY <2>5, <2>6, <2>7, <3>1, <3>2 DEF TokenInv, FreshOK
  <2>15. TokenNamesOwnSession'
    <3> SUFFICES ASSUME NEW u \in Users, NEW x \in used', token[u] # 0, id'[x] = token[u]
                 PROVE  usn[x] = u
      BY <1>3 DEF TokenNamesOwnSession
    <3>1. x # s
      BY <2>3, <2>5 DEF Known
    <3> QED
      BY <2>1, <2>3, <2>5, <3>1 DEF TokenInv, TokenNamesOwnSession
  <2> QED
    BY <2>8, <2>9, <2>10, <2>12, <2>13, <2>14, <2>15 DEF TokenInv
<1> QED
  BY <1>4, <1>5

LEMMA NewLoginToken ==
  ASSUME Typing, TokenInv, NEW t \in Threads, NewLogin(t) PROVE TokenInv'
<1> DEFINE s == cur[t]
<1>1. /\ pc[t] = "login" /\ Serving(t) /\ s \in used /\ s \in Slots /\ req[t] \in Login
      /\ usn' = [usn EXCEPT ![s] = req[t].usn]
      /\ UNCHANGED <<id, used, nextId, inbox, conn, wire, link, socketOf, sessionOf, cur, carried>>
  BY DEF NewLogin, UsnSet, Serving, LoginPc, Typing, TypeOK, TableTypeOK, WorkOK, tableVars
<1>2. /\ ~Serving(t)' /\ ~Moving(t)' /\ \A v \in Threads : Moving(v)' <=> Moving(v)
      /\ \A v \in Threads \ {t} : (Serving(v)' <=> Serving(v)) /\ req'[v] = req[v]
  BY DEF NewLogin, Goto, Serving, LoginPc, Moving, Typing, TypeOK, ThreadTypeOK
<1>3. \A u \in Users : token'[u] # token[u] =>
        token'[u] = id[s] /\ conn[u] = socketOf[s] /\ conn[u] # NoSocket
  BY DEF NewLogin, Respond, Typing, TypeOK, ClientTypeOK
<1>4. /\ \A v \in Threads : Serving(v)' => cur[v] # s
      /\ ~HasLogin(inbox[s])
      /\ \A k \in Sockets : socketOf[s] = k => ~HasLogin(wire[k])
  <2>1. \A v \in Threads : Serving(v) /\ cur[v] = s => v = t
    BY <1>1, CurOwned DEF Serving, LoginPc
  <2> QED
    BY <1>1, <1>2, <2>1 DEF TokenInv, LoginOnce
<1>5. (\A x \in Slots : x = s => ~Undecided(x)') /\ ~Known(id[s])
  <2>1. Undecided(s)
    BY <1>1 DEF Undecided
  <2>2. \A x \in Slots : x = s => ~Undecided(x)'
    BY <1>1, <1>4 DEF Undecided, HasLogin
  <2> QED
    BY <1>1, <2>1, <2>2 DEF TokenInv, FreshOK
<1>6. usn'[s] = req[t].usn /\ \A x \in Slots \ {s} : usn'[x] = usn[x]
  BY <1>1 DEF Typing, TypeOK, SessionTypeOK
<1> HIDE DEF s
<1>7. used \subseteq Slots /\ \A x \in Slots : id[x] \in Ids
  BY DEF Typing, TypeOK, TableTypeOK, SessionTypeOK
<1>8. \A n \in Ids : Known(n)' => Known(n) \/ n = id[s]
  BY <1>1, <1>2, <1>3 DEF Known
<1>9. \A x \in used \ {s} : Known(id[x])' => Known(id[x])
  BY <1>1, <1>7, <1>8 DEF TokenInv, IdsOK
<1>10. \A x \in Slots : Undecided(x)' => Undecided(x) /\ x # s
  BY <1>1, <1>2, <1>5 DEF Undecided
<1>11. IdsOK'
  <2>1. id[s] < nextId
    BY <1>1 DEF TokenInv, IdsOK, Typing, TypeOK, TableTypeOK
  <2> QED
    BY <1>1, <1>8, <2>1 DEF TokenInv, IdsOK
<1>12. SlotsOK' /\ ConnOK'
  BY <1>1 DEF TokenInv, SlotsOK, ConnOK
<1>13. LoginOnce'
  <2>1. \A v \in Threads : Serving(v)' => Serving(v)
    BY <1>2
  <2> QED
    BY <1>1, <1>2, <2>1 DEF TokenInv, LoginOnce, HasLogin, LoginFirst, Moving
<1>14. RightUser'
  <2> SUFFICES ASSUME NEW u \in Users
      PROVE /\ conn[u] # NoSocket /\ HasLogin(wire[conn[u]]) => Head(wire[conn[u]]).usn = u
            /\ \A x \in Slots : socketOf[x] = conn[u] /\ conn[u] # NoSocket =>
                 /\ HasLogin(inbox[x]) => Head(inbox[x]).usn = u
                 /\ x \in used /\ Known(id[x])' => usn'[x] = u
                 /\ \A v \in Threads : Serving(v)' /\ cur[v] = x => req'[v].usn = u
            /\ \A v \in Threads : Moving(v) /\ carried[v] = conn[u] => req'[v].usn = u
    BY <1>1, <1>2 DEF RightUser, HasLogin, Known
  <2>1. ASSUME NEW x \in Slots, socketOf[x] = conn[u], conn[u] # NoSocket
        PROVE  /\ HasLogin(inbox[x]) => Head(inbox[x]).usn = u
               /\ x \in used /\ Known(id[x])' => usn'[x] = u
               /\ \A v \in Threads : Serving(v)' /\ cur[v] = x => req'[v].usn = u
    <3>1. HasLogin(inbox[x]) => Head(inbox[x]).usn = u
      BY <2>1 DEF TokenInv, RightUser
    <3>2. \A v \in Threads : Serving(v)' /\ cur[v] = x => req'[v].usn = u
      BY <1>2, <2>1 DEF TokenInv, RightUser
    <3>3. x \in used /\ Known(id[x])' => usn'[x] = u
      <4>1. CASE x = s
        BY <1>1, <1>6, <2>1, <4>1 DEF TokenInv, RightUser, s
      <4>2. CASE x # s
        BY <1>6, <1>9, <2>1, <4>2 DEF TokenInv, RightUser
      <4> QED
        BY <4>1, <4>2
    <3> QED
      BY <3>1, <3>2, <3>3
  <2>2. \A v \in Threads : Moving(v) /\ carried[v] = conn[u] => req'[v].usn = u
    BY <1>2 DEF TokenInv, RightUser
  <2>3. conn[u] # NoSocket /\ HasLogin(wire[conn[u]]) => Head(wire[conn[u]]).usn = u
    BY DEF TokenInv, RightUser
  <2> QED
    BY <2>1, <2>2, <2>3
<1>15. FreshOK'
  <2> SUFFICES ASSUME NEW x \in used, Undecided(x)', Known(id[x])' PROVE FALSE
    BY <1>1 DEF FreshOK, Known, Undecided
  <2> QED
    BY <1>7, <1>9, <1>10 DEF TokenInv, FreshOK
<1>16. TokenNamesOwnSession'
  <2> SUFFICES ASSUME NEW u \in Users, NEW x \in used, token'[u] # 0, id[x] = token'[u]
               PROVE  usn'[x] = u
    BY <1>1 DEF TokenNamesOwnSession
  <2>1. CASE x = s
    <3>1. token[u] # id[s]
      BY <1>5 DEF Known
    <3>2. conn[u] = socketOf[s] /\ conn[u] # NoSocket
      BY <1>3, <2>1, <3>1
    <3> QED
      BY <1>1, <1>6, <2>1, <3>2 DEF TokenInv, RightUser, s
  <2>2. CASE x # s
    <3>1. token'[u] = token[u]
      BY <1>1, <1>3, <2>2 DEF TokenInv, IdsOK
    <3> QED
      BY <1>6, <1>7, <2>2, <3>1 DEF TokenInv, TokenNamesOwnSession
  <2> QED
    BY <2>1, <2>2
<1> QED
  BY <1>11, <1>12, <1>13, <1>14, <1>15, <1>16 DEF TokenInv

LEMMA TakeToken ==
  ASSUME Typing, TokenInv, NEW t \in Threads, TakeSocket(t) PROVE TokenInv'
<1>1. /\ pc[t] = "take" /\ Serving(t) /\ cur[t] \in Slots
      /\ UNCHANGED <<usn, id, used, nextId, token, inbox, conn, wire, link, socketOf, sessionOf, cur>>
      /\ \A v \in Threads \ {t} : pc'[v] = pc[v] /\ req'[v] = req[v] /\ carried'[v] = carried[v]
  <2>1. /\ pc[t] = "take" /\ Serving(t) /\ cur[t] \in Slots
        /\ UNCHANGED <<usn, id, used, nextId, token, inbox, conn, wire, link, socketOf, sessionOf, cur>>
    BY DEF TakeSocket, Serving, LoginPc, Typing, TypeOK, TableTypeOK, WorkOK, sessionVars,
       tableVars, clientVars
  <2>2. CASE socketOf[cur[t]] = NoSocket
    BY <2>1, <2>2 DEF TakeSocket, Goto, Typing, TypeOK, ThreadTypeOK
  <2>3. CASE socketOf[cur[t]] # NoSocket
    BY <2>1, <2>3 DEF TakeSocket, Goto, Typing, TypeOK, ThreadTypeOK
  <2> QED
    BY <2>1, <2>2, <2>3
<1>2. \A v \in Threads \ {t} : (Serving(v)' <=> Serving(v)) /\ (Moving(v)' <=> Moving(v))
  BY <1>1 DEF Serving, Moving
<1>3. CASE socketOf[cur[t]] = NoSocket
  <2>1. ~Serving(t)' /\ ~Moving(t)'
    BY <1>3 DEF TakeSocket, Goto, Serving, Moving, LoginPc, Typing, TypeOK, ThreadTypeOK
  <2>2. Calm
    BY <1>1, <1>2, <2>1, SameQueues DEF Calm
  <2> QED
    BY <2>2, CalmStep
<1>4. CASE socketOf[cur[t]] # NoSocket
  <2>1. carried'[t] = socketOf[cur[t]] /\ req' = req /\ Serving(t)'
    BY <1>4 DEF TakeSocket, Goto, Serving, LoginPc, Typing, TypeOK, ThreadTypeOK
  <2>2. socketOf[cur[t]] \in Sockets
    BY <1>1, <1>4 DEF Typing, TypeOK, SessionTypeOK, SocketOrNone
  <2>3. \A v \in Threads : Serving(v)' <=> Serving(v)
    BY <1>1, <1>2, <2>1
  <2>4. (\A n \in Ids : Known(n)' => Known(n)) /\ \A s \in Slots : Undecided(s)' => Undecided(s)
    BY <1>1, <2>1, <2>3 DEF Known, Undecided
  <2>5. IdsOK' /\ FreshOK'
    BY <1>1, <2>4, KeepFresh
  <2>6. SlotsOK' /\ ConnOK' /\ TokenNamesOwnSession'
    BY <1>1 DEF TokenInv, SlotsOK, ConnOK, TokenNamesOwnSession
  <2>7. LoginOnce'
    <3>1. \A v \in Threads : Moving(v)' => ~HasLogin(wire[carried'[v]])
      BY <1>1, <1>2, <2>1, <2>2 DEF TokenInv, LoginOnce
    <3> QED
      BY <1>1, <2>3, <3>1 DEF TokenInv, LoginOnce, HasLogin, LoginFirst
  <2>8. RightUser'
    <3> SUFFICES ASSUME NEW u \in Users
        PROVE /\ conn[u] # NoSocket /\ HasLogin(wire[conn[u]]) => Head(wire[conn[u]]).usn = u
              /\ \A x \in Slots : socketOf[x] = conn[u] /\ conn[u] # NoSocket =>
                   /\ HasLogin(inbox[x]) => Head(inbox[x]).usn = u
                   /\ x \in used /\ Known(id[x])' => usn[x] = u
                   /\ \A v \in Threads : Serving(v) /\ cur[v] = x => req[v].usn = u
              /\ \A v \in Threads : Moving(v)' /\ carried'[v] = conn[u] => req[v].usn = u
      BY <1>1, <2>1, <2>3 DEF RightUser, HasLogin, Known
    <3>1. \A x \in Slots : Known(id[x])' => Known(id[x])
      BY <1>1, <2>4 DEF Typing, TypeOK, SessionTypeOK
    <3>2. \A v \in Threads : Moving(v)' /\ carried'[v] = conn[u] => req[v].usn = u
      BY <1>1, <1>2, <1>4, <2>1 DEF TokenInv, RightUser
    <3> QED
      BY <3>1, <3>2 DEF TokenInv, RightUser
  <2> QED
    BY <2>5, <2>6, <2>7, <2>8 DEF TokenInv
<1> QED
  BY <1>3, <1>4

\* The session found has the token of the request, so no login waits on it.
LEMMA FoundFacts ==
  ASSUME Typing, TokenInv, RestoresRequestedSession, NEW t \in Threads, pc[t] \in FoundPc
  PROVE  /\ Serving(t) /\ target[t] \in used /\ target[t] \in Slots
         /\ usn[target[t]] = req[t].usn
         /\ Known(id[target[t]]) /\ ~Undecided(target[t])
<1>1. /\ Serving(t) /\ target[t] \in used /\ target[t] \in Slots
      /\ usn[target[t]] = req[t].usn /\ id[target[t]] = req[t].token
  BY DEF FoundPc, RestoresRequestedSession, Serving, LoginPc, Typing, TypeOK, TableTypeOK
<1>2. Known(id[target[t]])
  BY <1>1 DEF Known
<1> QED
  BY <1>1, <1>2 DEF TokenInv, FreshOK

LEMMA BindToken ==
  ASSUME Typing, TokenInv, RestoresRequestedSession, NEW t \in Threads, BindOldSession(t)
  PROVE  TokenInv'
<1> DEFINE s == target[t]
           k == carried[t]
<1>1. /\ pc[t] = "bind" /\ Moving(t) /\ k \in Sockets
      /\ UNCHANGED <<usn, id, used, nextId, token, inbox, conn, wire, link, req, cur>>
      /\ \A v \in Threads \ {t} : pc'[v] = pc[v] /\ carried'[v] = carried[v]
  BY DEF BindOldSession, Goto, Moving, SocketPc, Typing, TypeOK, WorkOK, tableVars, clientVars
<1>2. /\ Serving(t) /\ s \in used /\ s \in Slots
      /\ usn[s] = req[t].usn /\ Known(id[s]) /\ ~Undecided(s)
  BY <1>1, FoundFacts DEF FoundPc
<1>3. /\ \A v \in Threads : Serving(v)' <=> Serving(v)
      /\ \A v \in Threads : Moving(v)' => Moving(v) /\ carried'[v] = carried[v]
  BY <1>1, <1>2 DEF BindOldSession, Goto, Serving, LoginPc, Moving, Typing, TypeOK, ThreadTypeOK
<1>4. CASE socketOf[s] # NoSocket
  <2>1. Calm
    BY <1>1, <1>3, <1>4, SameQueues DEF BindOldSession, Calm
  <2> QED
    BY <2>1, CalmStep
<1>5. CASE socketOf[s] = NoSocket
  <2>1. /\ socketOf'[s] = k /\ \A x \in Slots \ {s} : socketOf'[x] = socketOf[x]
        /\ sessionOf'[k] = s /\ \A j \in Sockets \ {k} : sessionOf'[j] = sessionOf[j]
    <3>1. socketOf' = [socketOf EXCEPT ![s] = k] /\ sessionOf' = [sessionOf EXCEPT ![k] = s]
      BY <1>5 DEF BindOldSession
    <3> QED
      BY <1>1, <1>2, <3>1 DEF Typing, TypeOK, SessionTypeOK, SocketTypeOK
  <2>2. ~HasLogin(wire[k]) /\ \A u \in Users : conn[u] = k => req[t].usn = u
    BY <1>1 DEF TokenInv, LoginOnce, RightUser
  <2> HIDE DEF s, k
  <2>3. (\A n \in Ids : Known(n)' => Known(n)) /\ \A x \in Slots : Undecided(x)' => Undecided(x)
    <3>1. \A n \in Ids : Known(n)' => Known(n)
      BY <1>1, <1>3 DEF Known
    <3>2. ASSUME NEW x \in Slots, Undecided(x)' PROVE Undecided(x)
      BY <1>1, <1>3, <2>1, <2>2, <3>2 DEF Undecided, HasLogin
    <3> QED
      BY <3>1, <3>2
  <2>4. IdsOK' /\ FreshOK'
    BY <1>1, <2>3, KeepFresh
  <2>5. SlotsOK'
    <3>1. \A x \in Slots \ used' : inbox'[x] = <<>> /\ socketOf'[x] = NoSocket
      BY <1>1, <1>2, <2>1 DEF TokenInv, SlotsOK
    <3>2. ASSUME NEW j \in Sockets, sessionOf'[j] # NoSlot PROVE socketOf'[sessionOf'[j]] = j
      <4>1. CASE j = k
        BY <2>1, <4>1
      <4>2. CASE j # k
        <5>1. sessionOf'[j] = sessionOf[j] /\ sessionOf[j] \in Slots /\ socketOf[sessionOf[j]] = j
          BY <2>1, <3>2, <4>2 DEF TokenInv, SlotsOK, Typing, TypeOK, SocketTypeOK, SlotOrNone
        <5>2. sessionOf[j] # s
          BY <1>5, <5>1, NullAssumption
        <5> QED
          BY <2>1, <5>1, <5>2
      <4> QED
        BY <4>1, <4>2
    <3> QED
      BY <3>1, <3>2 DEF SlotsOK
  <2>6. ConnOK' /\ TokenNamesOwnSession'
    BY <1>1 DEF TokenInv, ConnOK, TokenNamesOwnSession
  <2>7. LoginOnce'
    <3>1. \A x \in Slots, j \in Sockets : socketOf'[x] = j /\ HasLogin(wire[j]) =>
            inbox[x] = <<>> /\ \A v \in Threads : Serving(v) => cur[v] # x
      BY <2>1, <2>2 DEF TokenInv, LoginOnce
    <3> QED
      BY <1>1, <1>3, <3>1 DEF TokenInv, LoginOnce, HasLogin, LoginFirst
  <2>8. RightUser'
    <3> SUFFICES ASSUME NEW u \in Users
        PROVE /\ conn[u] # NoSocket /\ HasLogin(wire[conn[u]]) => Head(wire[conn[u]]).usn = u
              /\ \A x \in Slots : socketOf'[x] = conn[u] /\ conn[u] # NoSocket =>
                   /\ HasLogin(inbox[x]) => Head(inbox[x]).usn = u
                   /\ x \in used /\ Known(id[x])' => usn[x] = u
                   /\ \A v \in Threads : Serving(v) /\ cur[v] = x => req[v].usn = u
              /\ \A v \in Threads : Moving(v)' /\ carried'[v] = conn[u] => req[v].usn = u
      BY <1>1, <1>3 DEF RightUser, HasLogin, Known
    <3>1. \A x \in Slots : Known(id[x])' => Known(id[x])
      BY <1>1, <2>3 DEF Typing, TypeOK, SessionTypeOK
    <3>2. ASSUME NEW x \in Slots, socketOf'[x] = conn[u], conn[u] # NoSocket
          PROVE  /\ HasLogin(inbox[x]) => Head(inbox[x]).usn = u
                 /\ x \in used /\ Known(id[x])' => usn[x] = u
                 /\ \A v \in Threads : Serving(v) /\ cur[v] = x => req[v].usn = u
      <4>1. CASE x = s
        <5>1. ~HasLogin(inbox[s]) /\ \A v \in Threads : Serving(v) => cur[v] # s
          BY <1>2 DEF Undecided
        <5> QED
          BY <1>2, <2>1, <2>2, <3>2, <4>1, <5>1
      <4>2. CASE x # s
        BY <2>1, <3>1, <3>2, <4>2 DEF TokenInv, RightUser
      <4> QED
        BY <4>1, <4>2
    <3>3. \A v \in Threads : Moving(v)' /\ carried'[v] = conn[u] => req[v].usn = u
      BY <1>3 DEF TokenInv, RightUser
    <3> QED
      BY <3>2, <3>3 DEF TokenInv, RightUser
  <2> QED
    BY <2>4, <2>5, <2>6, <2>7, <2>8 DEF TokenInv
<1> QED
  BY <1>4, <1>5

LEMMA ActivateToken ==
  ASSUME Typing, TokenInv, RestoresRequestedSession, NEW t \in Threads, ActivateOldSession(t)
  PROVE  TokenInv'
<1> DEFINE s == target[t]
<1>1. /\ pc[t] = "activate"
      /\ UNCHANGED <<usn, id, used, nextId, inbox, conn, wire, link, socketOf, sessionOf, cur, carried>>
  BY DEF ActivateOldSession, tableVars
<1>2. Serving(t) /\ s \in used /\ s \in Slots /\ Known(id[s])
  BY <1>1, FoundFacts DEF FoundPc
<1>3. /\ \A v \in Threads : Serving(v)' => Serving(v) /\ req'[v] = req[v]
      /\ \A v \in Threads : Moving(v)' => Moving(v) /\ req'[v] = req[v]
  BY DEF ActivateOldSession, Goto, Serving, LoginPc, Moving, Typing, TypeOK, ThreadTypeOK
<1>4. \A u \in Users : token'[u] # token[u] =>
        token'[u] = id[s] /\ conn[u] = socketOf[s] /\ conn[u] # NoSocket
  BY DEF ActivateOldSession, Respond, Typing, TypeOK, ClientTypeOK
<1> HIDE DEF s
<1>5. \A n \in Ids : Known(n)' => Known(n)
  <2> SUFFICES ASSUME NEW n \in Ids, Known(n)', n # id[s] PROVE Known(n)
    BY <1>2
  <2> QED
    BY <1>1, <1>3, <1>4 DEF Known
<1>6. \A x \in Slots : Undecided(x)' => Undecided(x)
  BY <1>1, <1>3 DEF Undecided
<1>7. IdsOK' /\ FreshOK'
  BY <1>1, <1>5, <1>6, KeepFresh
<1>8. SlotsOK' /\ ConnOK'
  BY <1>1 DEF TokenInv, SlotsOK, ConnOK
<1>9. LoginOnce'
  BY <1>1, <1>3 DEF TokenInv, LoginOnce, HasLogin, LoginFirst
<1>10. RightUser'
  <2> SUFFICES ASSUME NEW u \in Users
      PROVE /\ conn[u] # NoSocket /\ HasLogin(wire[conn[u]]) => Head(wire[conn[u]]).usn = u
            /\ \A x \in Slots : socketOf[x] = conn[u] /\ conn[u] # NoSocket =>
                 /\ HasLogin(inbox[x]) => Head(inbox[x]).usn = u
                 /\ x \in used /\ Known(id[x])' => usn[x] = u
                 /\ \A v \in Threads : Serving(v)' /\ cur[v] = x => req'[v].usn = u
            /\ \A v \in Threads : Moving(v)' /\ carried[v] = conn[u] => req'[v].usn = u
    BY <1>1 DEF RightUser, HasLogin, Known, Serving, Moving
  <2>1. \A x \in Slots : Known(id[x])' => Known(id[x])
    BY <1>1, <1>5 DEF Typing, TypeOK, SessionTypeOK
  <2> QED
    BY <1>3, <2>1 DEF TokenInv, RightUser
<1>11. TokenNamesOwnSession'
  <2> SUFFICES ASSUME NEW u \in Users, NEW x \in used, token'[u] # 0, id[x] = token'[u]
               PROVE  usn[x] = u
    BY <1>1 DEF TokenNamesOwnSession
  <2>1. CASE token'[u] = token[u]
    BY <2>1 DEF TokenInv, TokenNamesOwnSession
  <2>2. CASE token'[u] # token[u]
    <3>1. x = s /\ conn[u] = socketOf[s] /\ conn[u] # NoSocket
      BY <1>2, <1>4, <2>2 DEF TokenInv, IdsOK
    <3> QED
      BY <1>2, <3>1 DEF TokenInv, RightUser
  <2> QED
    BY <2>1, <2>2
<1> QED
  BY <1>7, <1>8, <1>9, <1>10, <1>11 DEF TokenInv

LEMMA FreeToken ==
  ASSUME Typing, TokenInv, NEW t \in Threads, FreeSession(t) PROVE TokenInv'
<1> DEFINE s == cur[t]
<1>1. /\ pc[t] = "free" /\ s \in used /\ s \in Slots /\ used' = used \ {s}
      /\ UNCHANGED <<usn, nextId, token, conn, wire, link, req, carried>>
      /\ \A v \in Threads \ {t} : pc'[v] = pc[v] /\ cur'[v] = cur[v]
      /\ pc'[t] = "tick"
  BY DEF FreeSession, Goto, Typing, TypeOK, TableTypeOK, ThreadTypeOK, WorkOK, clientVars
<1>2. /\ socketOf'[s] = NoSocket /\ inbox'[s] = <<>> /\ id'[s] = 0
      /\ \A x \in Slots \ {s} : socketOf'[x] = socketOf[x] /\ inbox'[x] = inbox[x] /\ id'[x] = id[x]
      /\ \A k \in Sockets : sessionOf'[k] = IF k = socketOf[s] THEN NoSlot ELSE sessionOf[k]
  BY <1>1 DEF FreeSession, UnbindSocket, Typing, TypeOK, SessionTypeOK, SocketTypeOK
<1>3. /\ \A v \in Threads : (Serving(v)' <=> Serving(v)) /\ (Moving(v)' <=> Moving(v))
      /\ \A v \in Threads : Serving(v) => v # t /\ cur[v] # s
  <2>1. \A v \in Threads : Serving(v) => v # t /\ cur[v] # s
    BY <1>1, CurOwned DEF Serving, LoginPc
  <2> QED
    BY <1>1, <2>1 DEF Serving, Moving, LoginPc
<1> HIDE DEF s
<1>4. LoginFirst(<<>>) /\ ~HasLogin(<<>>)
  BY DEF LoginFirst, HasLogin
<1>5. used \subseteq Slots /\ \A x \in Slots : id[x] \in Ids
  BY DEF Typing, TypeOK, TableTypeOK, SessionTypeOK
<1>6. \A n \in Ids : Known(n)' => Known(n)
  BY <1>1, <1>2, <1>3, <1>4 DEF Known
<1>7. \A x \in Slots \ {s} : Undecided(x)' => Undecided(x)
  BY <1>1, <1>2, <1>3 DEF Undecided
<1>8. \A x \in used' : x \in used /\ x # s /\ id'[x] = id[x] /\ (Known(id[x])' => Known(id[x]))
  BY <1>1, <1>2, <1>5, <1>6
<1>9. IdsOK'
  BY <1>1, <1>6, <1>8 DEF TokenInv, IdsOK
<1>10. SlotsOK'
  <2>1. \A x \in Slots \ used' : inbox'[x] = <<>> /\ socketOf'[x] = NoSocket
    BY <1>1, <1>2 DEF TokenInv, SlotsOK
  <2>2. ASSUME NEW j \in Sockets, sessionOf'[j] # NoSlot PROVE socketOf'[sessionOf'[j]] = j
    <3>1. /\ sessionOf'[j] = sessionOf[j] /\ sessionOf[j] \in Slots
          /\ socketOf[sessionOf[j]] = j /\ j # socketOf[s]
      BY <1>2, <2>2 DEF TokenInv, SlotsOK, Typing, TypeOK, SocketTypeOK, SlotOrNone
    <3> QED
      BY <1>2, <3>1
  <2> QED
    BY <2>1, <2>2 DEF SlotsOK
<1>11. ConnOK'
  BY <1>1 DEF TokenInv, ConnOK
<1>12. LoginOnce'
  <2>1. (\A k \in Sockets : LoginFirst(wire[k])) /\ \A x \in Slots : LoginFirst(inbox'[x])
    BY <1>2, <1>4, SameQueues
  <2>2. \A x \in Slots, k \in Sockets : socketOf'[x] = k /\ HasLogin(wire[k]) =>
          inbox'[x] = <<>> /\ \A v \in Threads : Serving(v) => cur'[v] # x
    BY <1>1, <1>2, <1>3, NullAssumption DEF TokenInv, LoginOnce
  <2>3. \A v \in Threads : Serving(v) => ~HasLogin(inbox'[cur'[v]])
    <3>1. \A v \in Threads : Serving(v) => cur[v] \in Slots
      BY <1>5 DEF Typing, WorkOK, Serving, LoginPc
    <3> QED
      BY <1>1, <1>2, <1>3, <3>1 DEF TokenInv, LoginOnce
  <2> QED
    BY <1>1, <1>3, <2>1, <2>2, <2>3 DEF TokenInv, LoginOnce, HasLogin, LoginFirst
<1>13. RightUser'
  <2> SUFFICES ASSUME NEW u \in Users
      PROVE /\ conn[u] # NoSocket /\ HasLogin(wire[conn[u]]) => Head(wire[conn[u]]).usn = u
            /\ \A x \in Slots : socketOf'[x] = conn[u] /\ conn[u] # NoSocket =>
                 /\ HasLogin(inbox'[x]) => Head(inbox'[x]).usn = u
                 /\ x \in used' /\ Known(id[x])' => usn[x] = u
                 /\ \A v \in Threads : Serving(v) /\ cur'[v] = x => req[v].usn = u
            /\ \A v \in Threads : Moving(v) /\ carried[v] = conn[u] => req[v].usn = u
    BY <1>1, <1>3 DEF RightUser, HasLogin, Known
  <2>1. ASSUME NEW x \in Slots, socketOf'[x] = conn[u], conn[u] # NoSocket
        PROVE  /\ HasLogin(inbox'[x]) => Head(inbox'[x]).usn = u
               /\ x \in used' /\ Known(id[x])' => usn[x] = u
               /\ \A v \in Threads : Serving(v) /\ cur'[v] = x => req[v].usn = u
    <3>1. x # s /\ socketOf[x] = conn[u]
      BY <1>2, <2>1
    <3> QED
      BY <1>1, <1>2, <1>3, <1>8, <2>1, <3>1 DEF TokenInv, RightUser
  <2> QED
    BY <2>1 DEF TokenInv, RightUser
<1>14. FreshOK'
  <2> SUFFICES ASSUME NEW x \in used', Undecided(x)', Known(id[x])' PROVE FALSE
    BY DEF FreshOK, Known, Undecided
  <2> QED
    BY <1>5, <1>7, <1>8 DEF TokenInv, FreshOK
<1>15. TokenNamesOwnSession'
  BY <1>1, <1>8 DEF TokenInv, TokenNamesOwnSession
<1> QED
  BY <1>9, <1>10, <1>11, <1>12, <1>13, <1>14, <1>15 DEF TokenInv

LEMMA TokenStep ==
  ASSUME Typing, Exclusive, TokenInv, RestoresRequestedSession, [Next]_vars PROVE TokenInv'
<1>1. ASSUME NEW u \in Users, ClientStep(u) PROVE TokenInv'
  BY <1>1, AcceptToken, ClientCalm DEF ClientStep
<1>2. ASSUME NEW k \in Sockets, HandlerStep(k) \/ RunDestroy(k) PROVE TokenInv'
  BY <1>2, ReadMoveCalm, ReadLoginToken, HandlerCalm DEF HandlerStep
<1>3. ASSUME NEW s \in Slots, Expire(s) PROVE TokenInv'
  BY <1>3, ExpireCalm
<1>4. ASSUME NEW t \in Threads, LocalThreadStep(t) PROVE TokenInv'
  BY <1>4, ThreadCalm, HandleLoginToken, CreateToken, NewLoginToken, TakeToken, BindToken,
     ActivateToken, FreeToken DEF LocalThreadStep, Restore, RemoveSession
<1>5. CASE UNCHANGED vars
  <2>1. Calm
    BY <1>5, SameQueues DEF vars, sessionVars, tableVars, threadVars, handlerVars, lifeVars,
       clientVars, Calm, Serving, Moving
  <2> QED
    BY <2>1, CalmStep
<1> QED
  BY <1>1, <1>2, <1>3, <1>4, <1>5 DEF Next

LEMMA InitToken == Init => TokenInv
<1> SUFFICES ASSUME Init PROVE TokenInv
  OBVIOUS
<1> USE DEF Init
<1>1. LoginFirst(<<>>) /\ ~HasLogin(<<>>)
  BY DEF LoginFirst, HasLogin
<1>2. \A t \in Threads : ~Serving(t) /\ ~Moving(t)
  BY DEF Serving, LoginPc, Moving
<1>3. IdsOK /\ FreshOK /\ TokenNamesOwnSession
  <2>1. \A n \in Ids : Known(n) => n < nextId
    BY <1>1, <1>2 DEF Known
  <2> QED
    BY <2>1 DEF IdsOK, FreshOK, TokenNamesOwnSession
<1>4. SlotsOK /\ ConnOK
  BY NullAssumption DEF SlotsOK, ConnOK
<1>5. LoginOnce /\ RightUser
  BY <1>1, <1>2 DEF LoginOnce, RightUser
<1> QED
  BY <1>3, <1>4, <1>5 DEF TokenInv

\* However slots are recycled and sockets moved, and with any number of local threads, the
\* token a client holds is never the token of a session of another user, in every execution
\* in which reconnections restore the session that was asked for (HandlePacket's new login
\* and case A, Session.cpp Initialize and Reset).
THEOREM TokensNameOwnSessions ==
  Spec /\ []RestoresRequestedSession => []TokenNamesOwnSession
<1>1. Init => Typing /\ Exclusive /\ TokenInv
  BY InitTyping, InitToken DEF Init, Exclusive, OneHolder, QueuedOnce, QueuedIsNew, UnbornIsNew,
     MovingIsHeld, InUse, Moving
<1>2. Typing /\ Exclusive /\ TokenInv /\ RestoresRequestedSession /\ [Next]_vars
        => (Typing /\ Exclusive /\ TokenInv)'
  BY TypingStep, ExclusiveStep, TokenStep
<1>3. TokenInv => TokenNamesOwnSession
  BY DEF TokenInv
<1> QED
  BY <1>1, <1>2, <1>3, PTL DEF Spec

\* With one local thread they all do, so no further hypothesis is needed.
THEOREM OneThreadKeepsTokens ==
  ASSUME OneLocalThread PROVE Spec => []TokenNamesOwnSession
  BY RestoresWhatWasAsked, TokensNameOwnSessions, PTL
=============================================================================
