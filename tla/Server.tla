--------------------------------- MODULE Server ---------------------------------
(* The whole server, from the listener to its end: CListener and OnNewConnection on an  *)
(* IO thread, CThreadManager::RouteNewConnection, the local threads with their command  *)
(* queues, session slots and ticks, and main, which stops the one after the other.      *)
(*                                                                                      *)
(* A session is known by the connection that it was made for, and so is its id.  What   *)
(* races inside a step here (a handler against RemoveSession, the producers of a        *)
(* command queue) is the subject of SessionLifecycle and MPSCQueue.                     *)
EXTENDS Integers, Sequences, FiniteSets

CONSTANTS
  LocalThreadCount,
  MaxSessions,   \* MAX_SESSIONS_PER_THREAD
  QueueSize,     \* COMMAND_QUEUE_CAPACITY
  Sockets,       \* bound: the connections that clients make
  None           \* no connection, no session

ASSUME CountAssumption ==
  /\ LocalThreadCount \in Nat \ {0} /\ MaxSessions \in Nat \ {0} /\ QueueSize \in Nat \ {0}
ASSUME NoneAssumption == None \notin Sockets

VARIABLES
  main, stopping,           \* where main is, and the local thread that it stops
  listening,                \* CListener::bIsRunning
  apc, incoming, scan,      \* the accept handler: where it is, its socket, the routing so far
  accepted,                 \* history: the connections accepted so far
  ioRunning,                \* CIOThreadPool::bIsRunning
  running, lpc,             \* of a local thread: bIsRunning, where it is
  index, current,           \* ProcessSessions' i, the session whose packets are processed
  queue,                    \* CommandQueue
  slot, active, count,      \* SessionUsed, ActiveSessions, SessionCount
  state, socketOf,          \* of a session: its State and its socket
  posted, destroyed,        \* sockets whose destruction is posted to asio; sockets destroyed
  unvisited                 \* history: the sessions that the tick has still to visit

mainVars    == <<main, stopping>>
acceptVars  == <<listening, apc, incoming, scan, accepted>>
walkVars    == <<index, current, unvisited>>
threadVars  == <<running, lpc, walkVars>>
slotVars    == <<slot, active, count>>
sessionVars == <<state, socketOf, posted, destroyed>>
vars == <<mainVars, acceptVars, ioRunning, threadVars, queue, slotVars, sessionVars>>

Locals == 1 .. LocalThreadCount
Slots == 1 .. MaxSessions
Command == [type : {"create", "remove"}, id : Sockets] \cup [type : {"shutdown"}]

TypeOK ==
  /\ main \in {"run", "stop", "join", "clean", "stopIo", "joinIo", "pool", "done"}
  /\ stopping \in 1 .. LocalThreadCount + 1
  /\ listening \in BOOLEAN /\ ioRunning \in BOOLEAN
  /\ apc \in {"waiting", "route", "push", "again", "stopped"}
  /\ incoming \in Sockets \cup {None}
  /\ scan \in [next : 1 .. LocalThreadCount + 1, best : Locals, least : 0 .. MaxSessions]
  /\ accepted \subseteq Sockets
  /\ running \in [Locals -> BOOLEAN]
  /\ lpc \in [Locals -> {"tick", "commands", "sessions", "packets", "ended"}]
  /\ index \in [Locals -> 0 .. MaxSessions]
  /\ current \in [Locals -> Sockets \cup {None}]
  /\ unvisited \in [Locals -> SUBSET Sockets]
  /\ queue \in [Locals -> Seq(Command)] /\ \A t \in Locals : Len(queue[t]) <= QueueSize
  /\ slot \in [Locals -> [Slots -> Sockets \cup {None}]]
  /\ active \in [Locals -> Seq(Slots)] /\ \A t \in Locals : Len(active[t]) <= MaxSessions
  /\ count \in [Locals -> 0 .. MaxSessions]
  /\ state \in [Sockets -> {"None", "Active", "TempDisconnect", "Closed"}]
  /\ socketOf \in [Sockets -> Sockets \cup {None}]
  /\ posted \subseteq Sockets /\ destroyed \subseteq Sockets

\* main has started the IO threads, the local threads and the listener.
Init ==
  /\ main = "run" /\ stopping = 1
  /\ listening = TRUE /\ ioRunning = TRUE
  /\ apc = "waiting" /\ incoming = None /\ scan = [next |-> 1, best |-> 1, least |-> 0]
  /\ accepted = {}
  /\ running = [t \in Locals |-> TRUE] /\ lpc = [t \in Locals |-> "tick"]
  /\ index = [t \in Locals |-> 0] /\ current = [t \in Locals |-> None] /\ unvisited = [t \in Locals |-> {}]
  /\ queue = [t \in Locals |-> <<>>]
  /\ slot = [t \in Locals |-> [i \in Slots |-> None]]
  /\ active = [t \in Locals |-> <<>>] /\ count = [t \in Locals |-> 0]
  /\ state = [s \in Sockets |-> "None"] /\ socketOf = [s \in Sockets |-> None]
  /\ posted = {} /\ destroyed = {}

\* A mutant: a full queue takes one more.
PushedUnchecked(t, command) == [queue EXCEPT ![t] = Append(@, command)]

\* CommandQueue.Push of thread t: a full queue refuses.
Pushed(t, command) == IF Len(queue[t]) < QueueSize THEN [queue EXCEPT ![t] = Append(@, command)] ELSE queue
Ids(t) == {slot[t][active[t][n]] : n \in DOMAIN active[t]}

--------------------------------------------------------------------------------
(* The listener, on an IO thread                                                  *)

\* OnAccept: the listener is running, and a socket is made of the connection; or there was
\* an error, and the next connection is waited for.
OnAccept ==
  /\ apc = "waiting" /\ ioRunning /\ listening
  /\ \/ \E k \in Sockets \ accepted :
          /\ incoming' = k
          /\ accepted' = accepted \cup {k}
          /\ apc' = "route"
          /\ scan' = [next |-> 2, best |-> 1, least |-> count[1]]
     \/ apc' = "again" /\ UNCHANGED <<incoming, accepted, scan>>
  /\ UNCHANGED <<mainVars, listening, ioRunning, threadVars, queue, slotVars, sessionVars>>

\* OnAccept after Stop, which has closed the acceptor.
OnAborted ==
  /\ apc = "waiting" /\ ioRunning /\ ~listening
  /\ apc' = "stopped"
  /\ UNCHANGED <<mainVars, listening, incoming, scan, accepted, ioRunning, threadVars, queue,
                 slotVars, sessionVars>>

\* GetLeastLoadedLocalThread reads the counts of the threads, one after the other.
Scan ==
  /\ apc = "route" /\ scan.next <= LocalThreadCount
  /\ LET t == scan.next IN
     scan' = IF count[t] < scan.least
             THEN [next |-> t + 1, best |-> t, least |-> count[t]]
             ELSE [scan EXCEPT !.next = t + 1]
  /\ UNCHANGED <<mainVars, listening, apc, incoming, accepted, ioRunning, threadVars, queue,
                 slotVars, sessionVars>>

\* RouteNewConnection asks the best thread again whether it is full ...
Route ==
  /\ apc = "route" /\ scan.next > LocalThreadCount
  /\ IF count[scan.best] >= MaxSessions
     THEN /\ destroyed' = destroyed \cup {incoming}
          /\ incoming' = None
          /\ apc' = "again"
     ELSE apc' = "push" /\ UNCHANGED <<destroyed, incoming>>
  /\ UNCHANGED <<mainVars, listening, scan, accepted, ioRunning, threadVars, queue, slotVars,
                 state, socketOf, posted>>

\* A mutant: the socket of a refused connection is forgotten.
PostOrForget ==
  /\ apc = "push"
  /\ queue' = Pushed(scan.best, [type |-> "create", id |-> incoming])
  /\ incoming' = None
  /\ apc' = "again"
  /\ UNCHANGED <<mainVars, listening, scan, accepted, ioRunning, threadVars, slotVars, sessionVars>>

\* ... and posts the command; OnNewConnection destroys the socket of a refused connection.
PostCreateSession ==
  /\ apc = "push"
  /\ queue' = Pushed(scan.best, [type |-> "create", id |-> incoming])
  /\ destroyed' = IF queue' = queue THEN destroyed \cup {incoming} ELSE destroyed
  /\ incoming' = None
  /\ apc' = "again"
  /\ UNCHANGED <<mainVars, listening, scan, accepted, ioRunning, threadVars, slotVars, state,
                 socketOf, posted>>

DoAccept ==
  /\ apc = "again"
  /\ apc' = IF listening THEN "waiting" ELSE "stopped"
  /\ scan' = [next |-> 1, best |-> 1, least |-> 0]
  /\ UNCHANGED <<mainVars, listening, incoming, accepted, ioRunning, threadVars, queue, slotVars,
                 sessionVars>>

AcceptHandler == OnAborted \/ Scan \/ Route \/ PostCreateSession \/ DoAccept

--------------------------------------------------------------------------------
(* Other handlers on the IO threads                                               *)

\* CGameSession::OnSocketDisconnected: a session that is to be restored waits for it.
OnSocketDisconnected(s) ==
  /\ ioRunning /\ socketOf[s] # None
  /\ posted' = posted \cup {socketOf[s]}
  /\ socketOf' = [socketOf EXCEPT ![s] = None]
  /\ state' = [state EXCEPT ![s] = IF @ = "Closed" THEN "Closed" ELSE "TempDisconnect"]
  /\ UNCHANGED <<mainVars, acceptVars, ioRunning, threadVars, queue, slotVars, destroyed>>

\* The posted DestroySocket.
DestroyPosted ==
  /\ ioRunning
  /\ \E k \in posted : posted' = posted \ {k} /\ destroyed' = destroyed \cup {k}
  /\ UNCHANGED <<mainVars, acceptVars, ioRunning, threadVars, queue, slotVars, state, socketOf>>

--------------------------------------------------------------------------------
(* A local thread                                                                 *)

Goto(t, where) == lpc' = [lpc EXCEPT ![t] = where]

\* ThreadFunc: another tick, if the thread is to run.
Tick(t) ==
  /\ lpc[t] = "tick"
  /\ Goto(t, IF running[t] THEN "commands" ELSE "ended")
  /\ UNCHANGED <<mainVars, acceptVars, ioRunning, running, walkVars, queue, slotVars, sessionVars>>

\* ProcessSessions begins behind the last of the active sessions.
StartWalk(t) ==
  /\ Goto(t, "sessions")
  /\ index' = [index EXCEPT ![t] = Len(active[t])]
  /\ unvisited' = [unvisited EXCEPT ![t] = Ids(t)]
  /\ UNCHANGED current

\* CreateSession: AllocateSession takes the first free slot; without one the socket is destroyed.
CreateSession(t, s) ==
  IF count[t] >= MaxSessions
  THEN destroyed' = destroyed \cup {s} /\ UNCHANGED <<slotVars, state, socketOf, posted>>
  ELSE LET i == CHOOSE j \in Slots : slot[t][j] = None /\ \A h \in 1 .. j - 1 : slot[t][h] # None IN
       /\ slot' = [slot EXCEPT ![t][i] = s]
       /\ active' = [active EXCEPT ![t] = Append(@, i)]
       /\ count' = [count EXCEPT ![t] = @ + 1]
       /\ state' = [state EXCEPT ![s] = "Active"]
       /\ socketOf' = [socketOf EXCEPT ![s] = s]
       /\ UNCHANGED <<posted, destroyed>>

\* A mutant: the last of the active sessions is dropped, not moved into the gap.
DropLast(q, n) == SubSeq(q, 1, Len(q) - 1)

SwapRemove(q, n) == SubSeq([q EXCEPT ![n] = q[Len(q)]], 1, Len(q) - 1)

\* RemoveSession: the socket is destroyed, the slot freed, and the last of the active sessions
\* takes the place of the one removed.  The search for the id always succeeds: RemovalsHaveTargets.
RemoveSession(t, s) ==
  /\ s \in Ids(t)
  /\ destroyed' = IF socketOf[s] = None THEN destroyed ELSE destroyed \cup {socketOf[s]}
  /\ socketOf' = [socketOf EXCEPT ![s] = None]
  /\ state' = [state EXCEPT ![s] = "None"]
  /\ LET n == CHOOSE m \in DOMAIN active[t] : slot[t][active[t][m]] = s IN
     /\ slot' = [slot EXCEPT ![t][active[t][n]] = None]
     /\ active' = [active EXCEPT ![t] = SwapRemove(@, n)]
  /\ count' = [count EXCEPT ![t] = @ - 1]
  /\ UNCHANGED posted

\* A mutant: the commands are left for later.
ProcessNoCommand(t) ==
  /\ lpc[t] = "commands"
  /\ StartWalk(t)
  /\ UNCHANGED <<mainVars, acceptVars, ioRunning, running, queue, slotVars, sessionVars>>

\* ProcessCommands: the next command; the one that Stop has pushed ends the thread after this
\* tick.  An empty queue ends ProcessCommands.
ProcessCommands(t) ==
  /\ lpc[t] = "commands"
  /\ \/ /\ queue[t] = <<>>
        /\ StartWalk(t)
        /\ UNCHANGED <<running, queue, slotVars, sessionVars>>
     \/ /\ queue[t] # <<>>
        /\ queue' = [queue EXCEPT ![t] = Tail(@)]
        /\ LET command == Head(queue[t]) IN
           \/ /\ command.type = "create" /\ CreateSession(t, command.id)
              /\ UNCHANGED <<running, lpc, walkVars>>
           \/ /\ command.type = "remove" /\ RemoveSession(t, command.id)
              /\ UNCHANGED <<running, lpc, walkVars>>
           \/ /\ command.type = "shutdown"
              /\ running' = [running EXCEPT ![t] = FALSE]
              /\ StartWalk(t)
              /\ UNCHANGED <<slotVars, sessionVars>>
  /\ UNCHANGED <<mainVars, acceptVars, ioRunning>>

\* A mutant: session s keeps the socket that it has given away.
RestoreAndKeep(t, s) ==
  /\ socketOf[s] # None
  /\ \E old \in Sockets :
       /\ state[old] = "TempDisconnect"
       /\ socketOf' = [socketOf EXCEPT ![old] = socketOf[s]]
       /\ state' = [state EXCEPT ![old] = "Active"]
  /\ queue' = Pushed(t, [type |-> "remove", id |-> s])
  /\ UNCHANGED <<slotVars, posted, destroyed>>

\* HandlePacket, a login with a token: a session of the user that waits for it gets the socket
\* of session s, which is to be removed ...
Restore(t, s) ==
  /\ socketOf[s] # None
  /\ \E old \in Sockets :
       /\ state[old] = "TempDisconnect"
       /\ socketOf' = [socketOf EXCEPT ![s] = None, ![old] = socketOf[s]]
       /\ state' = [state EXCEPT ![old] = "Active"]
  /\ queue' = Pushed(t, [type |-> "remove", id |-> s])
  /\ UNCHANGED <<slotVars, posted, destroyed>>

\* A mutant: the session that is refused is removed at once, if it is of this thread.
RefuseAndRemove(t) ==
  /\ \E old \in Ids(t) \ {current[t]} : RemoveSession(t, old)
  /\ UNCHANGED queue

\* ... and one that does not, or has another token, is closed; its own thread will remove it.
Refuse(t) ==
  /\ \E old \in Sockets : state[old] # "None" /\ state' = [state EXCEPT ![old] = "Closed"]
  /\ UNCHANGED <<queue, slotVars, socketOf, posted, destroyed>>

\* ProcessSessions visits the session at the index.  An active one handles its packets, one
\* whose time is up or that is closed is removed.
Visit(t, n) ==
  LET s == slot[t][active[t][n]] IN
  /\ unvisited' = [unvisited EXCEPT ![t] = @ \ {s}]
  /\ index' = [index EXCEPT ![t] = @ - 1]
  /\ \/ /\ state[s] = "Active" /\ Goto(t, "packets")
        /\ current' = [current EXCEPT ![t] = s]
        /\ UNCHANGED <<slotVars, sessionVars>>
     \/ state[s] = "TempDisconnect" /\ UNCHANGED <<lpc, current, slotVars, sessionVars>>
     \/ state[s] \in {"TempDisconnect", "Closed"} /\ RemoveSession(t, s) /\ UNCHANGED <<lpc, current>>

ProcessSessions(t) ==
  /\ lpc[t] = "sessions"
  /\ \/ index[t] > 0 /\ Visit(t, index[t])
     \/ index[t] = 0 /\ Goto(t, "tick") /\ UNCHANGED <<walkVars, slotVars, sessionVars>>
  /\ UNCHANGED <<mainVars, acceptVars, ioRunning, running, queue>>

\* ProcessSessionPackets: a login is handled, or there is no packet left.
ProcessSessionPackets(t) ==
  /\ lpc[t] = "packets"
  /\ \/ (Restore(t, current[t]) \/ Refuse(t)) /\ UNCHANGED <<lpc, current>>
     \/ /\ Goto(t, "sessions") /\ current' = [current EXCEPT ![t] = None]
        /\ UNCHANGED <<queue, slotVars, sessionVars>>
  /\ UNCHANGED <<mainVars, acceptVars, ioRunning, running, index, unvisited>>

LocalThread(t) == Tick(t) \/ ProcessCommands(t) \/ ProcessSessions(t) \/ ProcessSessionPackets(t)

--------------------------------------------------------------------------------
(* main                                                                           *)

\* The loop of main ends: CListener::Stop.
StopListener ==
  /\ main = "run"
  /\ main' = "stop"
  /\ listening' = FALSE
  /\ UNCHANGED <<stopping, apc, incoming, scan, accepted, ioRunning, threadVars, queue, slotVars,
                 sessionVars>>

\* A mutant: only the command asks the thread to end.
StopByCommand ==
  /\ main = "stop"
  /\ main' = "join"
  /\ queue' = Pushed(stopping, [type |-> "shutdown"])
  /\ UNCHANGED <<stopping, acceptVars, ioRunning, threadVars, slotVars, sessionVars>>

\* CThreadManager::Shutdown, CLocalThread::Stop of each thread: the flag, and a command ...
StopThread ==
  /\ main = "stop"
  /\ main' = "join"
  /\ running' = [running EXCEPT ![stopping] = FALSE]
  /\ queue' = Pushed(stopping, [type |-> "shutdown"])
  /\ UNCHANGED <<stopping, acceptVars, ioRunning, lpc, walkVars, slotVars, sessionVars>>

\* A mutant: the thread is not waited for.
JoinNobody ==
  /\ main = "join"
  /\ main' = "clean"
  /\ UNCHANGED <<stopping, acceptVars, ioRunning, threadVars, queue, slotVars, sessionVars>>

JoinThread ==
  /\ main = "join" /\ lpc[stopping] = "ended"
  /\ main' = "clean"
  /\ UNCHANGED <<stopping, acceptVars, ioRunning, threadVars, queue, slotVars, sessionVars>>

\* ... and the sessions are reset: their sockets are let go, not destroyed.
CleanSessions ==
  /\ main = "clean"
  /\ LET ids == {slot[stopping][i] : i \in Slots} IN
     /\ socketOf' = [s \in Sockets |-> IF s \in ids THEN None ELSE socketOf[s]]
     /\ state' = [s \in Sockets |-> IF s \in ids THEN "None" ELSE state[s]]
  /\ slot' = [slot EXCEPT ![stopping] = [i \in Slots |-> None]]
  /\ active' = [active EXCEPT ![stopping] = <<>>]
  /\ count' = [count EXCEPT ![stopping] = 0]
  /\ stopping' = stopping + 1
  /\ main' = IF stopping = LocalThreadCount THEN "stopIo" ELSE "stop"
  /\ UNCHANGED <<acceptVars, ioRunning, threadVars, queue, posted, destroyed>>

\* CIOThreadPool::Stop: no handler is begun any more, and those that run are waited for.
StopIo ==
  /\ main = "stopIo"
  /\ main' = "joinIo"
  /\ ioRunning' = FALSE
  /\ UNCHANGED <<stopping, acceptVars, threadVars, queue, slotVars, sessionVars>>

JoinIo ==
  /\ main = "joinIo" /\ apc \in {"waiting", "stopped"}
  /\ main' = "pool"
  /\ UNCHANGED <<stopping, acceptVars, ioRunning, threadVars, queue, slotVars, sessionVars>>

\* CPacketBufferPool::Shutdown deletes the packet buffers.
ShutdownPool ==
  /\ main = "pool"
  /\ main' = "done"
  /\ UNCHANGED <<stopping, acceptVars, ioRunning, threadVars, queue, slotVars, sessionVars>>

Main == StopThread \/ JoinThread \/ CleanSessions \/ StopIo \/ JoinIo \/ ShutdownPool

Next ==
  \/ OnAccept \/ AcceptHandler
  \/ (\E s \in Sockets : OnSocketDisconnected(s)) \/ DestroyPosted
  \/ \E t \in Locals : LocalThread(t)
  \/ StopListener \/ Main

Spec == Init /\ [][Next]_vars

\* Every thread runs: the accept handler, the local threads and, once it stops the server,
\* main.  No client has to connect, and the server may run for ever.
FairSpec ==
  /\ Spec
  /\ WF_vars(AcceptHandler) /\ WF_vars(Main)
  /\ \A t \in Locals : WF_vars(LocalThread(t))

--------------------------------------------------------------------------------
(* Properties                                                                     *)

\* The array of active sessions, which RemoveSession keeps dense by moving the last one into
\* the gap, names every used slot once, and SessionCount counts them: neither creating,
\* removing nor cleaning up leaves a slot that nobody visits or that is visited twice.
ActiveAreUsed ==
  \A t \in Locals :
    /\ \A m, n \in DOMAIN active[t] : active[t][m] = active[t][n] => m = n
    /\ {active[t][n] : n \in DOMAIN active[t]} = {i \in Slots : slot[t][i] # None}
    /\ count[t] = Len(active[t])

\* "Walk backwards, which is safe when something is deleted" (LocalThread.cpp:216): the walk
\* visits each session that was there when it began once, whatever it removes on the way.
EachVisitedOnce ==
  \A t \in Locals :
    lpc[t] \in {"sessions", "packets"} =>
      /\ index[t] <= Len(active[t])
      /\ Cardinality(unvisited[t]) = index[t]

\* A command to remove a session finds it: it is in its slot until the command is handled, and
\* no other command is under way that would remove it first, or a later session in its stead.
RemovalsHaveTargets ==
  \A t \in stopping .. LocalThreadCount : \A n \in DOMAIN queue[t] :
    queue[t][n].type = "remove" =>
      /\ queue[t][n].id \in Ids(t)
      /\ \A m \in DOMAIN queue[t] : queue[t][m] = queue[t][n] => m = n

\* From the moment it is accepted until it is destroyed a socket is in one place: with the
\* accept handler, in a command, bound to a session, or posted to be destroyed; so none is
\* leaked and none is destroyed twice.  Only a stop leaves sockets behind: those of the
\* sessions that were reset.  (A full queue, a full thread and a thread that fills up after
\* it was chosen are all survived.)
Queued(k) == {t \in Locals : \E n \in DOMAIN queue[t] : queue[t][n] = [type |-> "create", id |-> k]}
Holders(k) ==
  Cardinality(Queued(k)) + Cardinality({s \in Sockets : socketOf[s] = k})
    + Cardinality({x \in {"incoming", "posted", "destroyed"} :
                     \/ x = "incoming" /\ incoming = k
                     \/ x = "posted" /\ k \in posted
                     \/ x = "destroyed" /\ k \in destroyed})
SocketInOnePlace ==
  \A k \in accepted : Holders(k) = 1 \/ (Holders(k) = 0 /\ stopping > 1)

\* When main cleans up the sessions of a thread, and from then on, nothing of them is left to
\* the handlers that are still running; and when it has deleted the packet buffers nobody runs.
StoppedIsQuiet ==
  /\ \A t \in 1 .. stopping - 1 :
       /\ lpc[t] = "ended" /\ active[t] = <<>>
       /\ \A i \in Slots : slot[t][i] = None
  /\ main = "done" => /\ apc \in {"waiting", "stopped"}
                      /\ \A s \in Sockets : socketOf[s] = None /\ state[s] = "None"

\* Stopping ends, though a full command queue may refuse the command to shut down.
StopEnds == main # "run" ~> main = "done"

\* A connection that waits for its session gets it or is destroyed, unless the server stops.
Waiting(k) == incoming = k \/ Queued(k) # {}
ConnectionIsServed == \A k \in Sockets : Waiting(k) ~> (~Waiting(k) \/ main # "run")
================================================================================
