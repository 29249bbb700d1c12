--------------------------- MODULE SessionLifecycle ---------------------------
(***************************************************************************)
(* Sessions, sockets and reconnection: the part of the server in which the *)
(* local threads (CLocalThread, each owning a pool of CGameSession slots), *)
(* the IO threads (running the strand handlers of every CSocket) and the   *)
(* clients meet.  A session outlives its socket: when the socket dies the  *)
(* session waits in TempDisconnect, and a later login that carries its     *)
(* reconnect token moves the new socket to it.                             *)
(*                                                                         *)
(* Neither a session nor a socket has a lock.  A step of this module is a  *)
(* stretch of code with at most one access that another thread can observe *)
(* or disturb; the few wider ones are named where they occur.  The write   *)
(* path of a socket, the packet buffers and the command ring have modules  *)
(* of their own.                                                           *)
(***************************************************************************)
EXTENDS Integers, Sequences, FiniteSets

CONSTANTS
  Threads,      \* the local threads, CThreadManager::LocalThreads
  Slots,        \* all the CGameSession objects of all the session pools
  Owner,        \* [Slots -> Threads]: the thread whose SessionPool holds a slot
  Sockets,      \* the CSocket objects the listener may create
  Users,        \* the accounts (USN # 0) that connect
  NoSlot, NoSocket, NoUser,    \* nullptr, nullptr, USN 0
  MsgKinds,     \* what clients do besides logging in: "move" and "malformed" messages,
                \* "silent": never log in
  MaxId,        \* bound: number of sessions created
  MaxOpen,      \* bound: sockets accepted and not yet at rest
  MaxMsgs,      \* bound: messages a client sends on one connection after its login
  MaxWrites,    \* bound: sockets on which a write takes a while; any other write ends at once
  CmdCapacity   \* CLocalThread::COMMAND_QUEUE_CAPACITY

ASSUME OwnerAssumption == Owner \in [Slots -> Threads]
ASSUME NullAssumption == NoSlot \notin Slots /\ NoSocket \notin Sockets /\ NoUser \notin Users
ASSUME KindAssumption == MsgKinds \subseteq {"move", "malformed", "silent"}
ASSUME BoundAssumption == /\ MaxId \in Nat /\ MaxMsgs \in Nat /\ MaxOpen \in Nat
                          /\ MaxWrites \in Nat /\ CmdCapacity \in Nat

VARIABLES
  \* CGameSession, one entry per slot
  state,     \* State
  socketOf,  \* pSocket
  usn,       \* Usn
  id,        \* OwnerSessionId; stands for ReconnectToken.Token as well: both are
             \* drawn from a counter when the slot is initialised, and zeroed by Reset
  timer,     \* DisconnectTime: "off" = 0, "running", "expired" = 10 s ago or more
  inbox,     \* IncomingQueue
  \* CSessionManager and CLocalThread
  registry,  \* the slots SessionTable_ points at
  used,      \* the slots whose SessionUsed flag is set (and in ActiveSessions)
  nextId,    \* GenerateSessionId's counter
  cmds,      \* CommandQueue of each thread
  pc,        \* where a local thread is in its tick
  cur,       \* the session the thread works on
  req,       \* the login request it handles
  target,    \* targetSession, then oldSession, of that request
  carried,   \* the local variable "socket" of HandlePacket and RemoveSession
  \* CSocket, one entry per socket
  link,      \* State of the socket; "unborn" before it is accepted
  sessionOf, \* pSession
  reading,   \* an async_read_some is outstanding
  writing,   \* something was sent and is neither written nor dropped yet
  hpc,       \* where the handler on the socket's strand is
  hses,      \* the session on which that handler runs OnSocketDisconnected
  posted,    \* DestroySocket tasks posted to the io_context and not run yet
  doomed,    \* how often the object has been passed to delete
  \* the clients and the network
  conn, token, sent, wire, gone

sessionVars == <<state, socketOf, usn, id, timer, inbox>>
tableVars   == <<registry, used, nextId>>
threadVars  == <<pc, cur, req, target, carried>>
handlerVars == <<reading, writing, hpc, hses>>
lifeVars    == <<posted, doomed>>
clientVars  == <<conn, token, sent, wire, gone>>
vars == <<sessionVars, tableVars, cmds, threadVars, link, sessionOf, handlerVars,
          lifeVars, clientVars>>

SlotOrNone   == Slots \cup {NoSlot}
SocketOrNone == Sockets \cup {NoSocket}
SessionState == {"None", "Active", "TempDisconnect", "Closed"}
LinkState    == {"unborn", "None", "Connected", "Closed"}
ThreadPc == {"tick", "packets", "start", "find", "check", "kick", "login",
             "recheck", "take", "strip", "bind", "activate", "unregister", "release", "free"}
HandlerPc == {"idle", "reread", "unbind", "load", "timer", "store", "discard", "close"}
Ids      == 0 .. MaxId
Login    == [kind : {"login"}, usn : Users, token : Ids]
Request  == [kind : MsgKinds \ {"silent"}]
Message  == Login \cup Request
Command  == [op : {"create"}, socket : Sockets] \cup [op : {"remove"}, id : Ids]
NoLogin  == [kind |-> "none"]

\* Type correctness, by the part of the program that keeps the state.
SessionTypeOK ==
  /\ state \in [Slots -> SessionState]
  /\ socketOf \in [Slots -> SocketOrNone]
  /\ usn \in [Slots -> Users \cup {NoUser}]
  /\ id \in [Slots -> Ids]
  /\ timer \in [Slots -> {"off", "running", "expired"}]
  /\ inbox \in [Slots -> Seq(Message)]
TableTypeOK ==
  /\ registry \subseteq Slots
  /\ used \subseteq Slots
  /\ nextId \in 1 .. MaxId + 1
  /\ cmds \in [Threads -> Seq(Command)]
  /\ \A t \in Threads : Len(cmds[t]) <= CmdCapacity
ThreadTypeOK ==
  /\ pc \in [Threads -> ThreadPc]
  /\ cur \in [Threads -> SlotOrNone]
  /\ req \in [Threads -> Login \cup {NoLogin}]
  /\ target \in [Threads -> SlotOrNone]
  /\ carried \in [Threads -> SocketOrNone]
SocketTypeOK ==
  /\ link \in [Sockets -> LinkState]
  /\ sessionOf \in [Sockets -> SlotOrNone]
  /\ reading \in [Sockets -> BOOLEAN]
  /\ writing \in [Sockets -> BOOLEAN]
  /\ hpc \in [Sockets -> HandlerPc]
  /\ hses \in [Sockets -> SlotOrNone]
  /\ posted \in [Sockets -> Nat]
  /\ doomed \in [Sockets -> Nat]
ClientTypeOK ==
  /\ conn \in [Users -> SocketOrNone]
  /\ token \in [Users -> Ids]
  /\ sent \in [Users -> Nat]
  /\ wire \in [Sockets -> Seq(Message)]
  /\ gone \in [Sockets -> BOOLEAN]
TypeOK == SessionTypeOK /\ TableTypeOK /\ ThreadTypeOK /\ SocketTypeOK /\ ClientTypeOK

Init ==
  /\ state = [s \in Slots |-> "None"]
  /\ socketOf = [s \in Slots |-> NoSocket]
  /\ usn = [s \in Slots |-> NoUser]
  /\ id = [s \in Slots |-> 0]
  /\ timer = [s \in Slots |-> "off"]
  /\ inbox = [s \in Slots |-> <<>>]
  /\ registry = {} /\ used = {} /\ nextId = 1
  /\ cmds = [t \in Threads |-> <<>>]
  /\ pc = [t \in Threads |-> "tick"]
  /\ cur = [t \in Threads |-> NoSlot]
  /\ req = [t \in Threads |-> NoLogin]
  /\ target = [t \in Threads |-> NoSlot]
  /\ carried = [t \in Threads |-> NoSocket]
  /\ link = [k \in Sockets |-> "unborn"]
  /\ sessionOf = [k \in Sockets |-> NoSlot]
  /\ reading = [k \in Sockets |-> FALSE]
  /\ writing = [k \in Sockets |-> FALSE]
  /\ hpc = [k \in Sockets |-> "idle"]
  /\ hses = [k \in Sockets |-> NoSlot]
  /\ posted = [k \in Sockets |-> 0]
  /\ doomed = [k \in Sockets |-> 0]
  /\ conn = [u \in Users |-> NoSocket]
  /\ token = [u \in Users |-> 0]
  /\ sent = [u \in Users |-> 0]
  /\ wire = [k \in Sockets |-> <<>>]
  /\ gone = [k \in Sockets |-> FALSE]

-------------------------------------------------------------------------------
(* Shared pieces of the handlers.                                           *)

\* link after CSocket::Close() on socket k: only the first call on a connected
\* socket has an effect, and k may be a null pointer.
Closing(k) == [j \in Sockets |-> IF j = k /\ link[j] = "Connected" THEN "Closed" ELSE link[j]]

\* CSocketPool::DestroySocket(k): delete runs ~CSocket, which starts with Close().
\* The memory keeps its last contents, which is what a late handler reads.
Delete(k) ==
  /\ doomed' = [doomed EXCEPT ![k] = @ + 1]
  /\ link' = Closing(k)

\* CGameSession::UnbindSocket() on session s.
UnbindSocket(s) ==
  /\ socketOf' = [socketOf EXCEPT ![s] = NoSocket]
  /\ sessionOf' = [k \in Sockets |-> IF k = socketOf[s] THEN NoSlot ELSE sessionOf[k]]

\* CommandQueue.Push(c) by any thread: refused when the queue of thread t is full.
\* Mutant: the fullness check is forgotten.
PostUnchecked(t, c) == [cmds EXCEPT ![t] = Append(@, c)]
Post(t, c) == IF Len(cmds[t]) < CmdCapacity THEN [cmds EXCEPT ![t] = Append(@, c)] ELSE cmds

\* The registry after UnregisterSession(id[s]).  Mutant: the entry is left behind.
UnregisterNothing(s) == registry
Unregistered(s) == {r \in registry : id[r] # id[s]}

\* FindSessionByUsn's conditions for session s to be restored for login r.
\* Mutant: the token is not compared.
MayRestoreAnyToken(s, r) == state[s] = "TempDisconnect" /\ timer[s] # "expired"
MayRestore(s, r) == state[s] = "TempDisconnect" /\ id[s] = r.token /\ timer[s] # "expired"

\* ProcessSessions removes such a session.  Mutant: expiry is never noticed.
CollectableClosed(s) == state[s] = "Closed"
Collectable(s) ==
  state[s] = "Closed" \/ (state[s] = "TempDisconnect" /\ timer[s] = "expired")

\* SetUsn of a new login r on session s.  Mutant: the session is left without its USN.
UsnForgotten(s, r) == usn
UsnSet(s, r) == [usn EXCEPT ![s] = r.usn]

\* Something is sent on the sockets in ks: some of the writes take a while.
StartWrites(ks) ==
  \E slow \in SUBSET ks :
    /\ Cardinality({j \in Sockets : writing[j]} \cup slow) <= MaxWrites
    /\ writing' = [j \in Sockets |-> writing[j] \/ j \in slow]

\* The answer to a login, sent over socket k if that is connected, gives the client at the
\* other end token tok (CDummyClient::OnLoginResponse), unless the connection fails first.
Respond(k, tok) ==
  /\ StartWrites({j \in Sockets : j = k /\ link[j] = "Connected"})
  /\ \E got \in SUBSET {u \in Users : conn[u] = k /\ k # NoSocket /\ link[k] = "Connected"} :
       token' = [u \in Users |-> IF u \in got THEN tok ELSE token[u]]

Goto(t, where) == pc' = [pc EXCEPT ![t] = where]

-------------------------------------------------------------------------------
(* The clients and the listener.                                            *)

\* Socket k has been deleted and nothing of it is left to run.
AtRest(k) ==
  doomed[k] > 0 /\ posted[k] = 0 /\ ~reading[k] /\ ~writing[k] /\ hpc[k] = "idle"

\* A client connects.  CListener::OnAccept creates the CSocket and OnNewConnection
\* routes it to a local thread: which one is least loaded is read from counters
\* their owners change, so it may be any; a full pool or a full command queue
\* makes the IO thread destroy the socket again.  The client sends its login at once
\* (CDummyClient::OnConnect), with the token of the last answer it has seen (0: none),
\* or stays silent.
Accept(u, k, t) ==
  /\ conn[u] = NoSocket /\ link[k] = "unborn"
  /\ Cardinality({j \in Sockets : link[j] # "unborn" /\ ~AtRest(j)}) < MaxOpen
  /\ conn' = [conn EXCEPT ![u] = k]
  /\ link' = [link EXCEPT ![k] = "None"]
  /\ \/ wire' = [wire EXCEPT ![k] = <<[kind |-> "login", usn |-> u, token |-> token[u]]>>]
     \/ "silent" \in MsgKinds /\ UNCHANGED wire
  /\ IF (\E s \in Slots \ used : Owner[s] = t)
        /\ cmds # Post(t, [op |-> "create", socket |-> k])
     THEN /\ cmds' = Post(t, [op |-> "create", socket |-> k])
          /\ UNCHANGED <<doomed, gone>>
     ELSE /\ doomed' = [doomed EXCEPT ![k] = 1]
          /\ gone' = [gone EXCEPT ![k] = TRUE]
          /\ UNCHANGED cmds
  /\ UNCHANGED <<sessionVars, tableVars, threadVars, sessionOf, handlerVars, posted,
                 token, sent>>

\* What a client sends after that.
ClientSend(u) ==
  /\ conn[u] # NoSocket /\ sent[u] < MaxMsgs
  /\ \E m \in Request : wire' = [wire EXCEPT ![conn[u]] = Append(@, m)]
  /\ sent' = [sent EXCEPT ![u] = @ + 1]
  /\ UNCHANGED <<sessionVars, tableVars, cmds, threadVars, link, sessionOf, handlerVars,
                 lifeVars, conn, token, gone>>

\* The connection breaks; the client may connect again before the server notices.
Leave(u) ==
  /\ conn[u] # NoSocket
  /\ conn' = [conn EXCEPT ![u] = NoSocket]
  /\ gone' = [gone EXCEPT ![conn[u]] = TRUE]
  /\ sent' = [sent EXCEPT ![u] = 0]
  /\ UNCHANGED <<sessionVars, tableVars, cmds, threadVars, link, sessionOf, handlerVars,
                 lifeVars, token, wire>>

-------------------------------------------------------------------------------
(* The handlers of socket k, one at a time on whichever IO thread runs its strand. *)

\* OnReadComplete with data: HandlePacket frames it and, when the socket has a
\* session, OnPacketReceived queues it if that session is Active.  A message with
\* an impossible header closes the socket.  OnReadComplete has still to call DoRead.
ReadMessage(k) ==
  /\ reading[k] /\ hpc[k] = "idle" /\ link[k] = "Connected" /\ wire[k] # <<>>
  /\ wire' = [wire EXCEPT ![k] = Tail(@)]
  /\ reading' = [reading EXCEPT ![k] = FALSE]
  /\ hpc' = [hpc EXCEPT ![k] = "reread"]
  /\ LET m == Head(wire[k])
         s == sessionOf[k]
     IN  IF m.kind = "malformed"
         THEN link' = Closing(k) /\ UNCHANGED inbox
         ELSE /\ inbox' = IF s # NoSlot /\ state[s] = "Active"
                          THEN [inbox EXCEPT ![s] = Append(@, m)] ELSE inbox
              /\ UNCHANGED link
  /\ UNCHANGED <<state, socketOf, usn, id, timer, tableVars, cmds, threadVars, sessionOf,
                 writing, hses, lifeVars, conn, token, sent, gone>>

\* DoRead: reads on while the socket is connected, and returns silently if not.
DoRead(k) ==
  /\ hpc[k] = "reread"
  /\ hpc' = [hpc EXCEPT ![k] = "idle"]
  /\ reading' = [reading EXCEPT ![k] = link[k] = "Connected"]
  /\ UNCHANGED <<sessionVars, tableVars, cmds, threadVars, link, sessionOf, writing, hses,
                 lifeVars, clientVars>>

\* OnReadComplete with an error, after the peer has gone or the socket was closed
\* (what was not read is lost): HandleDisconnect calls OnSocketDisconnected if the socket has a session.
ReadError(k) ==
  /\ reading[k] /\ hpc[k] = "idle" /\ (gone[k] \/ link[k] = "Closed")
  /\ reading' = [reading EXCEPT ![k] = FALSE]
  /\ hses' = [hses EXCEPT ![k] = sessionOf[k]]
  /\ hpc' = [hpc EXCEPT ![k] = IF sessionOf[k] = NoSlot THEN "close" ELSE "unbind"]
  /\ wire' = [wire EXCEPT ![k] = <<>>]
  /\ UNCHANGED <<sessionVars, tableVars, cmds, threadVars, link, sessionOf, writing,
                 lifeVars, conn, token, sent, gone>>

\* OnWriteComplete without an error, or ProcessSendQueue on a closed socket, which drops
\* what was to be written.
WriteDone(k) ==
  /\ writing[k] /\ hpc[k] = "idle"
  /\ writing' = [writing EXCEPT ![k] = FALSE]
  /\ UNCHANGED <<sessionVars, tableVars, cmds, threadVars, link, sessionOf, reading, hpc,
                 hses, lifeVars, clientVars>>

\* OnWriteComplete with an error: the same HandleDisconnect, while a read may still be
\* outstanding.
WriteError(k) ==
  /\ writing[k] /\ hpc[k] = "idle" /\ (gone[k] \/ link[k] = "Closed")
  /\ writing' = [writing EXCEPT ![k] = FALSE]
  /\ hses' = [hses EXCEPT ![k] = sessionOf[k]]
  /\ hpc' = [hpc EXCEPT ![k] = IF sessionOf[k] = NoSlot THEN "close" ELSE "unbind"]
  /\ UNCHANGED <<sessionVars, tableVars, cmds, threadVars, link, sessionOf, reading,
                 lifeVars, clientVars>>

\* OnSocketDisconnected: detach the session's socket and post its deletion.
HandlerUnbind(k) ==
  /\ hpc[k] = "unbind"
  /\ hpc' = [hpc EXCEPT ![k] = "load"]
  /\ UnbindSocket(hses[k])
  /\ posted' = [j \in Sockets |-> IF j = socketOf[hses[k]] THEN posted[j] + 1 ELSE posted[j]]
  /\ UNCHANGED <<state, usn, id, timer, inbox, tableVars, cmds, threadVars, link, reading,
                 writing, hses, doomed, clientVars>>

\* OnSocketDisconnected: load the state of the session ...
HandlerLoad(k) ==
  /\ hpc[k] = "load"
  /\ hpc' = [hpc EXCEPT ![k] = IF state[hses[k]] \in {"Active", "TempDisconnect"}
                               THEN "timer" ELSE "discard"]
  /\ UNCHANGED <<sessionVars, tableVars, cmds, threadVars, link, sessionOf, reading,
                 writing, hses, lifeVars, clientVars>>

\* ... start the timer of a session that may reconnect (StartDisconnectTimer) ...
HandlerTimer(k) ==
  /\ hpc[k] = "timer"
  /\ timer' = [timer EXCEPT ![hses[k]] = "running"]
  /\ hpc' = [hpc EXCEPT ![k] = "store"]
  /\ UNCHANGED <<state, socketOf, usn, id, inbox, tableVars, cmds, threadVars, link,
                 sessionOf, reading, writing, hses, lifeVars, clientVars>>

\* ... and store the state chosen from the loaded one, whatever it is by now.
HandlerStore(k) ==
  /\ hpc[k] \in {"store", "discard"}
  /\ state' = [state EXCEPT ![hses[k]] = IF hpc[k] = "store" THEN "TempDisconnect" ELSE "Closed"]
  /\ hpc' = [hpc EXCEPT ![k] = "close"]
  /\ UNCHANGED <<socketOf, usn, id, timer, inbox, tableVars, cmds, threadVars, link,
                 sessionOf, reading, writing, hses, lifeVars, clientVars>>

\* HandleDisconnect ends by closing the socket; no read is issued again.
HandlerClose(k) ==
  /\ hpc[k] = "close"
  /\ link' = Closing(k)
  /\ hpc' = [hpc EXCEPT ![k] = "idle"]
  /\ hses' = [hses EXCEPT ![k] = NoSlot]
  /\ UNCHANGED <<sessionVars, tableVars, cmds, threadVars, sessionOf, reading, writing,
                 lifeVars, clientVars>>

\* An IO thread runs a posted DestroySocket.  It was posted to the io_context, not
\* to the strand, so it does not wait for the handler that posted it.
RunDestroy(k) ==
  /\ posted[k] > 0
  /\ posted' = [posted EXCEPT ![k] = @ - 1]
  /\ Delete(k)
  /\ UNCHANGED <<sessionVars, tableVars, cmds, threadVars, sessionOf, handlerVars, clientVars>>

\* Ten seconds pass since the disconnection of session s.
Expire(s) ==
  /\ timer[s] = "running"
  /\ timer' = [timer EXCEPT ![s] = "expired"]
  /\ UNCHANGED <<state, socketOf, usn, id, inbox, tableVars, cmds, threadVars, link,
                 sessionOf, handlerVars, lifeVars, clientVars>>

-------------------------------------------------------------------------------
(* Local thread t.  In the "tick" state it is between two pieces of work.  A tick drains *)
(* the command queue and then visits every active session; here the thread takes the     *)
(* next command or visits some session, in any order.                                     *)

\* ProcessCommands, CreateSession: take a free slot, initialise and bind it, mark it
\* Active and register it.  Nobody else can see a slot before RegisterSession but
\* through a stale pointer, and nobody but its owner takes it: one step up to
\* socket->Start().  With no free slot the socket is destroyed.
CreateSession(t) ==
  /\ pc[t] = "tick" /\ cmds[t] # <<>> /\ Head(cmds[t]).op = "create"
  /\ nextId <= MaxId
  /\ cmds' = [cmds EXCEPT ![t] = Tail(@)]
  /\ LET k == Head(cmds[t]).socket IN
       \/ \E s \in Slots \ used :
            /\ Owner[s] = t
            /\ used' = used \cup {s}
            /\ registry' = registry \cup {s}
            /\ id' = [id EXCEPT ![s] = nextId]
            /\ nextId' = nextId + 1
            /\ timer' = [timer EXCEPT ![s] = "off"]
            /\ socketOf' = [socketOf EXCEPT ![s] = k]
            /\ sessionOf' = [sessionOf EXCEPT ![k] = s]
            /\ state' = [state EXCEPT ![s] = "Active"]
            /\ cur' = [cur EXCEPT ![t] = s]
            /\ carried' = [carried EXCEPT ![t] = k]
            /\ Goto(t, "start")
            /\ UNCHANGED <<link, lifeVars, gone>>
       \/ /\ \A s \in Slots \ used : Owner[s] # t
          /\ Delete(k)
          /\ gone' = [gone EXCEPT ![k] = TRUE]
          /\ UNCHANGED <<used, registry, id, nextId, timer, socketOf, sessionOf, state, cur,
                         carried, pc, posted>>
  /\ UNCHANGED <<usn, inbox, req, target, handlerVars, conn, token, sent, wire>>

\* CreateSession: socket->Start() connects the socket, even one Close() was called
\* on meanwhile, and issues the first read.
StartSocket(t) ==
  /\ pc[t] = "start"
  /\ link' = [link EXCEPT ![carried[t]] = "Connected"]
  /\ reading' = [reading EXCEPT ![carried[t]] = TRUE]
  /\ carried' = [carried EXCEPT ![t] = NoSocket]
  /\ cur' = [cur EXCEPT ![t] = NoSlot]
  /\ Goto(t, "tick")
  /\ UNCHANGED <<sessionVars, tableVars, cmds, req, target, sessionOf, writing, hpc, hses,
                 lifeVars, clientVars>>

\* ProcessCommands, RemoveSession(id): an id no active session has is ignored.
RemoveCommand(t) ==
  /\ pc[t] = "tick" /\ cmds[t] # <<>> /\ Head(cmds[t]).op = "remove"
  /\ cmds' = [cmds EXCEPT ![t] = Tail(@)]
  /\ \/ \E s \in used :
          /\ Owner[s] = t /\ id[s] = Head(cmds[t]).id
          /\ cur' = [cur EXCEPT ![t] = s]
          /\ Goto(t, "unregister")
     \/ /\ \A s \in used : Owner[s] = t => id[s] # Head(cmds[t]).id
        /\ UNCHANGED <<cur, pc>>
  /\ UNCHANGED <<sessionVars, tableVars, req, target, carried, link, sessionOf,
                 handlerVars, lifeVars, clientVars>>

\* ProcessSessions visits session s: an Active one has its packets processed, an expired
\* one and a closed one are removed, any other is left alone.
VisitSession(t, s) ==
  /\ pc[t] = "tick" /\ s \in used /\ Owner[s] = t
  /\ cur' = [cur EXCEPT ![t] = s]
  /\ \/ state[s] = "Active" /\ Goto(t, "packets")
     \/ Collectable(s) /\ Goto(t, "unregister")
  /\ UNCHANGED <<sessionVars, tableVars, cmds, req, target, carried, link, sessionOf,
                 handlerVars, lifeVars, clientVars>>

\* ProcessSessionPackets: the queue of the session is empty.
EndPackets(t) ==
  /\ pc[t] = "packets" /\ inbox[cur[t]] = <<>>
  /\ cur' = [cur EXCEPT ![t] = NoSlot]
  /\ Goto(t, "tick")
  /\ UNCHANGED <<sessionVars, tableVars, cmds, req, target, carried, link,
                 sessionOf, handlerVars, lifeVars, clientVars>>

\* HandlePacket, PKT_MOVE: HandleBroadcast sends to the thread's other Active sessions.
\* A Send that finds the send queue at its limit closes that session's socket.
HandleMove(t) ==
  /\ pc[t] = "packets" /\ inbox[cur[t]] # <<>> /\ Head(inbox[cur[t]]).kind = "move"
  /\ inbox' = [inbox EXCEPT ![cur[t]] = Tail(@)]
  /\ LET others == {s \in used : Owner[s] = t /\ s # cur[t] /\ state[s] = "Active"}
         open   == {k \in Sockets : link[k] = "Connected" /\ \E s \in others : socketOf[s] = k}
     IN  \E slow \in SUBSET open :
           /\ link' = [k \in Sockets |-> IF k \in slow THEN "Closed" ELSE link[k]]
           /\ StartWrites(open \ slow)
  /\ UNCHANGED <<state, socketOf, usn, id, timer, tableVars, cmds, threadVars, sessionOf,
                 reading, hpc, hses, lifeVars, clientVars>>

\* HandlePacket, PKT_LOGIN_REQ: a login with a token tries to reconnect, one without
\* is a new login.
HandleLogin(t) ==
  /\ pc[t] = "packets" /\ inbox[cur[t]] # <<>> /\ Head(inbox[cur[t]]).kind = "login"
  /\ inbox' = [inbox EXCEPT ![cur[t]] = Tail(@)]
  /\ req' = [req EXCEPT ![t] = Head(inbox[cur[t]])]
  /\ Goto(t, IF Head(inbox[cur[t]]).token > 0 THEN "find" ELSE "login")
  /\ UNCHANGED <<state, socketOf, usn, id, timer, tableVars, cmds, cur, target, carried,
                 link, sessionOf, handlerVars, lifeVars, clientVars>>

\* FindSessionByUsn, the search: some registered session with the USN of the request
\* (the first in a table ordered by session ids, so any of them), or none.
FindByUsn(t) ==
  /\ pc[t] = "find"
  /\ \/ \E s \in registry :
          /\ usn[s] = req[t].usn
          /\ target' = [target EXCEPT ![t] = s]
          /\ Goto(t, "check")
     \/ /\ \A s \in registry : usn[s] # req[t].usn
        /\ Goto(t, "login")
        /\ UNCHANGED target
  /\ UNCHANGED <<sessionVars, tableVars, cmds, cur, req, carried, link, sessionOf,
                 handlerVars, lifeVars, clientVars>>

\* FindSessionByUsn, the checks: a session that does not wait for a reconnection, has
\* another token or has expired gets its socket closed and will be kicked.
CheckReconnect(t) ==
  /\ pc[t] = "check"
  /\ IF MayRestore(target[t], req[t])
     THEN Goto(t, "recheck") /\ UNCHANGED link
     ELSE Goto(t, "kick") /\ link' = Closing(socketOf[target[t]])
  /\ UNCHANGED <<sessionVars, tableVars, cmds, cur, req, target, carried,
                 sessionOf, handlerVars, lifeVars, clientVars>>

\* FindSessionByUsn, a failed check: the session is closed and unregistered for its
\* owner to collect, and the request goes on as a new login.
KickSession(t) ==
  /\ pc[t] = "kick"
  /\ state' = [state EXCEPT ![target[t]] = "Closed"]
  /\ registry' = Unregistered(target[t])
  /\ target' = [target EXCEPT ![t] = NoSlot]
  /\ Goto(t, "login")
  /\ UNCHANGED <<socketOf, usn, id, timer, inbox, used, nextId, cmds, cur, req, carried,
                 link, sessionOf, handlerVars, lifeVars, clientVars>>

\* HandlePacket, case B: the session of the connection becomes the user's session, and
\* its token is sent to the client.
NewLogin(t) ==
  /\ pc[t] = "login"
  /\ usn' = UsnSet(cur[t], req[t])
  /\ Respond(socketOf[cur[t]], id[cur[t]])
  /\ req' = [req EXCEPT ![t] = NoLogin]
  /\ Goto(t, "packets")
  /\ UNCHANGED <<state, socketOf, id, timer, inbox, tableVars, cmds, cur, target, carried,
                 link, sessionOf, reading, hpc, hses, lifeVars, conn, sent, wire, gone>>

\* HandlePacket after a successful search: if the found session is no longer waiting,
\* a socket it has meanwhile is detached, closed, and its deletion posted.
Recheck(t) ==
  /\ pc[t] = "recheck"
  /\ LET s == target[t]
         old == socketOf[s]
     IN  IF state[s] # "TempDisconnect" /\ old # NoSocket /\ old # socketOf[cur[t]]
         THEN /\ UnbindSocket(s)
              /\ posted' = [posted EXCEPT ![old] = @ + 1]
              /\ link' = Closing(old)
         ELSE UNCHANGED <<socketOf, sessionOf, posted, link>>
  /\ Goto(t, "take")
  /\ UNCHANGED <<state, usn, id, timer, inbox, tableVars, cmds, cur, req, target,
                 carried, handlerVars, doomed, clientVars>>

\* HandlePacket, case A: read the socket of the temporary session; if the IO thread has
\* detached it already the reconnection is given up without an answer.
TakeSocket(t) ==
  /\ pc[t] = "take"
  /\ IF socketOf[cur[t]] = NoSocket
     THEN /\ Goto(t, "packets")
          /\ target' = [target EXCEPT ![t] = NoSlot]
          /\ req' = [req EXCEPT ![t] = NoLogin]
          /\ UNCHANGED carried
     ELSE /\ Goto(t, "strip")
          /\ carried' = [carried EXCEPT ![t] = socketOf[cur[t]]]
          /\ UNCHANGED <<target, req>>
  /\ UNCHANGED <<sessionVars, tableVars, cmds, cur, link, sessionOf, handlerVars,
                 lifeVars, clientVars>>

\* HandlePacket, case A: session->UnbindSocket().  Mutant: the call is forgotten.
StripNothing(t) ==
  /\ pc[t] = "strip"
  /\ Goto(t, "bind")
  /\ UNCHANGED <<sessionVars, tableVars, cmds, cur, req, target, carried, link, sessionOf,
                 handlerVars, lifeVars, clientVars>>

StripSession(t) ==
  /\ pc[t] = "strip"
  /\ UnbindSocket(cur[t])
  /\ Goto(t, "bind")
  /\ UNCHANGED <<state, usn, id, timer, inbox, tableVars, cmds, cur, req, target,
                 carried, link, handlerVars, lifeVars, clientVars>>

\* HandlePacket, case A: oldSession->BindSocket(socket), whose failure is ignored.
BindOldSession(t) ==
  /\ pc[t] = "bind"
  /\ IF socketOf[target[t]] = NoSocket
     THEN /\ socketOf' = [socketOf EXCEPT ![target[t]] = carried[t]]
          /\ sessionOf' = [sessionOf EXCEPT ![carried[t]] = target[t]]
          /\ timer' = [timer EXCEPT ![target[t]] = "off"]
     ELSE UNCHANGED <<socketOf, sessionOf, timer>>
  /\ carried' = [carried EXCEPT ![t] = NoSocket]
  /\ Goto(t, "activate")
  /\ UNCHANGED <<state, usn, id, inbox, tableVars, cmds, cur, req, target, link,
                 handlerVars, lifeVars, clientVars>>

\* HandlePacket, case A: SetState(Active), the answer over the restored session, and a
\* command to remove the temporary one, which is lost if the queue is full.
ActivateOldSession(t) ==
  /\ pc[t] = "activate"
  /\ state' = [state EXCEPT ![target[t]] = "Active"]
  /\ Respond(socketOf[target[t]], id[target[t]])
  /\ cmds' = Post(t, [op |-> "remove", id |-> id[cur[t]]])
  /\ target' = [target EXCEPT ![t] = NoSlot]
  /\ req' = [req EXCEPT ![t] = NoLogin]
  /\ Goto(t, "packets")
  /\ UNCHANGED <<socketOf, usn, id, timer, inbox, tableVars, cur, carried, link,
                 sessionOf, reading, hpc, hses, lifeVars, conn, sent, wire, gone>>

\* RemoveSession: unregister the session and read its socket ...
Unregister(t) ==
  /\ pc[t] = "unregister"
  /\ registry' = Unregistered(cur[t])
  /\ carried' = [carried EXCEPT ![t] = socketOf[cur[t]]]
  /\ Goto(t, IF socketOf[cur[t]] = NoSocket THEN "free" ELSE "release")
  /\ UNCHANGED <<sessionVars, used, nextId, cmds, cur, req, target, link,
                 sessionOf, handlerVars, lifeVars, clientVars>>

\* ... detach and delete the socket it read ...
ReleaseSocket(t) ==
  /\ pc[t] = "release"
  /\ UnbindSocket(cur[t])
  /\ Delete(carried[t])
  /\ carried' = [carried EXCEPT ![t] = NoSocket]
  /\ Goto(t, "free")
  /\ UNCHANGED <<state, usn, id, timer, inbox, tableVars, cmds, cur, req, target,
                 handlerVars, posted, clientVars>>

\* ... and give the slot back: Reset() detaches a socket bound since, empties the queue
\* and clears everything but the USN.
FreeSession(t) ==
  /\ pc[t] = "free"
  /\ LET s == cur[t] IN
       /\ UnbindSocket(s)
       /\ state' = [state EXCEPT ![s] = "None"]
       /\ id' = [id EXCEPT ![s] = 0]
       /\ timer' = [timer EXCEPT ![s] = "off"]
       /\ inbox' = [inbox EXCEPT ![s] = <<>>]
       /\ used' = used \ {s}
  /\ cur' = [cur EXCEPT ![t] = NoSlot]
  /\ Goto(t, "tick")
  /\ UNCHANGED <<usn, registry, nextId, cmds, req, target, carried, link,
                 handlerVars, lifeVars, clientVars>>

-------------------------------------------------------------------------------
ClientStep(u) ==
  \/ \E k \in Sockets, t \in Threads : Accept(u, k, t)
  \/ ClientSend(u) \/ Leave(u)

HandlerStep(k) ==
  \/ ReadMessage(k) \/ DoRead(k) \/ ReadError(k) \/ WriteDone(k) \/ WriteError(k)
  \/ HandlerUnbind(k) \/ HandlerLoad(k) \/ HandlerTimer(k) \/ HandlerStore(k) \/ HandlerClose(k)

Restore(t) ==
  \/ Recheck(t) \/ TakeSocket(t) \/ StripSession(t) \/ BindOldSession(t) \/ ActivateOldSession(t)

RemoveSession(t) == Unregister(t) \/ ReleaseSocket(t) \/ FreeSession(t)

LocalThreadStep(t) ==
  \/ CreateSession(t) \/ StartSocket(t) \/ RemoveCommand(t)
  \/ (\E s \in Slots : VisitSession(t, s)) \/ EndPackets(t) \/ HandleMove(t) \/ HandleLogin(t)
  \/ FindByUsn(t) \/ CheckReconnect(t) \/ KickSession(t) \/ NewLogin(t)
  \/ Restore(t) \/ RemoveSession(t)

Next ==
  \/ \E u \in Users : ClientStep(u)
  \/ \E k \in Sockets : HandlerStep(k) \/ RunDestroy(k)
  \/ \E s \in Slots : Expire(s)
  \/ \E t \in Threads : LocalThreadStep(t)

Spec == Init /\ [][Next]_vars

\* The local threads tick for ever (ThreadFunc), and every tick drains the commands and
\* visits every active session, so none of them is passed over for ever: strong fairness,
\* because between two visits the thread is busy elsewhere.  The IO threads run every
\* handler and every task that is ready (io_context::run), and time passes.  Nothing
\* makes a client connect, send, or leave.
FairSpec ==
  /\ Spec
  /\ \A t \in Threads :
       /\ WF_vars(LocalThreadStep(t))
       /\ SF_vars(CreateSession(t) \/ RemoveCommand(t))
       /\ \A s \in Slots : SF_vars(VisitSession(t, s))
  /\ \A k \in Sockets : WF_vars(HandlerStep(k)) /\ WF_vars(RunDestroy(k))
  /\ \A s \in Slots : WF_vars(Expire(s))

-------------------------------------------------------------------------------
(* Properties.                                                              *)

\* Two sessions never hold the same socket, although a reconnection moves a socket from
\* one session to another while the IO thread may be detaching it and other local
\* threads move theirs (LocalThread.cpp HandlePacket, Session.cpp BindSocket).
OneHolder ==
  \A x, y \in Slots : socketOf[x] = socketOf[y] /\ socketOf[x] # NoSocket => x = y

\* The registry, which every thread searches, never points at a slot that has been given
\* back to its pool: RemoveSession unregisters before it frees, and no kick by another
\* thread can put a session back.
RegisteredIsLive == \A s \in registry : s \in used /\ id[s] # 0

\* The token a client holds is the token of a session of that client or of no session
\* at all, however slots are recycled and sessions restored.
TokenNamesOwnSession ==
  \A u \in Users, s \in used : token[u] # 0 /\ id[s] = token[u] => usn[s] = u

\* A reconnection restores the session that was asked for: from the moment the search
\* has validated it (FindSessionByUsn) until it is Active again, the session is the one
\* with the user's USN and the token of the request, and its slot is in use.
RestoresRequestedSession ==
  \A t \in Threads : pc[t] \in {"recheck", "take", "strip", "bind", "activate"} =>
    /\ target[t] \in used
    /\ usn[target[t]] = req[t].usn
    /\ id[target[t]] = req[t].token

\* A session whose timer runs, or that is closed, does not stay so: it is restored or its
\* slot is given back (ProcessSessions, IsDisconnectTimerExpired).
InactiveIsResolved ==
  \A s \in Slots :
    (s \in used /\ (state[s] = "Closed" \/ (state[s] = "TempDisconnect" /\ timer[s] # "off")))
      ~> (s \notin used \/ state[s] = "Active")

\* An Active session is watched: its socket is being read or a handler is about to report
\* the loss of it to the session, so that a session cannot stay Active after its
\* connection is dead (the session leak OnSocketDisconnected was corrected to prevent).
ActiveIsWatched ==
  \A s \in used :
    \/ state[s] # "Active"
    \/ \E t \in Threads : (cur[t] = s /\ pc[t] = "start") \/ target[t] = s
    \/ \E k \in Sockets : hses[k] = s
    \/ \E k \in Sockets : socketOf[s] = k /\ (reading[k] \/ writing[k] \/ hpc[k] # "idle")
    \/ \E t \in Threads : \E c \in 1 .. Len(cmds[t]) : cmds[t][c] = [op |-> "remove", id |-> id[s]]

=============================================================================
