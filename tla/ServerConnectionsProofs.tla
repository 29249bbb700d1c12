------------------------- MODULE ServerConnectionsProofs -------------------------
(* What becomes of a connection, for any number of local threads, slots and connections: *)
(* a command to remove a session finds that session, and a socket is in one place.       *)
EXTENDS ServerProofs

\* The n-th command of thread t is to remove session s, or to end the thread.
Removes(t, n, s) == n \in DOMAIN queue[t] /\ queue[t][n].type = "remove" /\ queue[t][n].id = s
Shuts(t, n) == n \in DOMAIN queue[t] /\ queue[t][n].type = "shutdown"
InSlotOf(t, s) == \E i \in Slots : slot[t][i] = s

\* What is to be removed has given its socket away, and nothing can give it one.
GivenAway(s) == socketOf[s] = None /\ state[s] \in {"Active", "Closed"}

\* A command to remove a session: the walk has passed it, and the thread does not end before.
TargetOK(t, n, s) ==
  /\ InSlotOf(t, s) /\ GivenAway(s)
  /\ \A m \in Nat : Removes(t, m, s) => m = n
  /\ lpc[t] \in {"sessions", "packets"} => s \notin unvisited[t]
  /\ lpc[t] = "commands" => \A m \in Nat : m < n => ~Shuts(t, m)

RemovalAt(t) ==
  /\ \A n \in Nat, s \in Sockets : Removes(t, n, s) => TargetOK(t, n, s)
  /\ \A n \in Nat : Shuts(t, n) => ~running[t]
  /\ lpc[t] = "packets" => InSlotOf(t, current[t]) /\ current[t] \notin unvisited[t]

\* A session with a socket is no other's to restore.
BoundAlive == \A s \in Sockets : socketOf[s] # None => state[s] \in {"Active", "Closed"}

RemovalOK == BoundAlive /\ \A t \in Locals : t >= stopping => RemovalAt(t)

--------------------------------------------------------------------------------
(* The command queues                                                             *)

LEMMA PushedCommands ==
  ASSUME NEW t \in Locals, NEW c \in Command, queue \in [Locals -> Seq(Command)],
         queue' = Pushed(t, c)
  PROVE  /\ \A u \in Locals : \A n \in DOMAIN queue[u] : n \in DOMAIN queue'[u] /\ queue'[u][n] = queue[u][n]
         /\ \A u \in Locals : \A n \in DOMAIN queue'[u] :
              n \in DOMAIN queue[u] \/ (u = t /\ n = Len(queue[t]) + 1 /\ queue'[u][n] = c /\ queue' # queue)
         /\ queue' = queue \/ (Len(queue[t]) + 1 \in DOMAIN queue'[t] /\ queue'[t][Len(queue[t]) + 1] = c)
<1>1. CASE queue' = queue
  BY <1>1
<1>2. CASE queue' = [queue EXCEPT ![t] = Append(@, c)]
  <2>1. queue[t] \in Seq(Command) /\ queue'[t] = Append(queue[t], c) /\ \A u \in Locals \ {t} : queue'[u] = queue[u]
    BY <1>2
  <2>2. /\ DOMAIN queue[t] = 1 .. Len(queue[t]) /\ DOMAIN queue'[t] = 1 .. Len(queue[t]) + 1
        /\ Len(queue[t]) \in Nat
    BY <2>1
  <2>3. \A n \in 1 .. Len(queue[t]) + 1 : queue'[t][n] = IF n = Len(queue[t]) + 1 THEN c ELSE queue[t][n]
    BY <2>1
  <2>4. Len(queue'[t]) # Len(queue[t])
    BY <2>1
  <2>5. /\ \A n \in DOMAIN queue[t] : n \in DOMAIN queue'[t] /\ queue'[t][n] = queue[t][n]
        /\ \A n \in DOMAIN queue'[t] : n \in DOMAIN queue[t] \/ (n = Len(queue[t]) + 1 /\ queue'[t][n] = c)
        /\ Len(queue[t]) + 1 \in DOMAIN queue'[t] /\ queue'[t][Len(queue[t]) + 1] = c
    BY <2>2, <2>3
  <2>6. queue' # queue
    BY <2>4
  <2> QED
    BY <2>1, <2>5, <2>6
<1> QED
  BY <1>1, <1>2 DEF Pushed

LEMMA PoppedCommands ==
  ASSUME NEW t \in Locals, queue \in [Locals -> Seq(Command)], queue[t] # <<>>,
         queue' = [queue EXCEPT ![t] = Tail(@)]
  PROVE  /\ \A u \in Locals \ {t} : queue'[u] = queue[u]
         /\ \A n \in DOMAIN queue'[t] : n \in Nat /\ n + 1 \in DOMAIN queue[t] /\ queue'[t][n] = queue[t][n + 1]
         /\ \A n \in DOMAIN queue[t] : n = 1 \/ (n - 1 \in DOMAIN queue'[t] /\ queue'[t][n - 1] = queue[t][n])
         /\ Head(queue[t]) = queue[t][1] /\ 1 \in DOMAIN queue[t] /\ 0 \notin DOMAIN queue'[t]
<1>1. queue[t] \in Seq(Command) /\ queue'[t] = Tail(queue[t]) /\ Len(queue[t]) \in Nat \ {0}
  OBVIOUS
<1>2. /\ DOMAIN queue[t] = 1 .. Len(queue[t]) /\ DOMAIN queue'[t] = 1 .. Len(queue[t]) - 1
      /\ \A n \in 1 .. Len(queue[t]) - 1 : queue'[t][n] = queue[t][n + 1]
  BY <1>1
<1> QED
  BY <1>1, <1>2

\* Of a thread whose commands, slots and walk a step leaves alone only the sessions matter.
LEMMA RemovalFrame ==
  ASSUME NEW u \in Locals, RemovalAt(u), queue'[u] = queue[u],
         lpc'[u] = lpc[u], unvisited'[u] = unvisited[u], current'[u] = current[u], running'[u] => running[u],
         slot'[u] = slot[u],
         \A s \in Sockets : InSlotOf(u, s) /\ GivenAway(s) => GivenAway(s)'
  PROVE  RemovalAt(u)'
<1>1. \A n \in Nat, s \in Sockets : Removes(u, n, s)' = Removes(u, n, s)
  BY DEF Removes
<1>2. \A n \in Nat : Shuts(u, n)' = Shuts(u, n)
  BY DEF Shuts
<1>3. \A n \in Nat, s \in Sockets : Removes(u, n, s)' => TargetOK(u, n, s)'
  BY <1>1, <1>2 DEF RemovalAt, TargetOK, InSlotOf
<1>4. lpc'[u] = "packets" => InSlotOf(u, current[u])' /\ current'[u] \notin unvisited'[u]
  BY DEF RemovalAt, InSlotOf
<1> QED
  BY <1>2, <1>3, <1>4 DEF RemovalAt

--------------------------------------------------------------------------------
(* A command to remove a session finds it                                         *)

\* AllocateSession takes a slot that was free.
LEMMA CreatedIn ==
  ASSUME SessionsOK, NEW t \in Locals, NEW s \in Sockets, CreateSession(t, s)
  PROVE  \/ UNCHANGED <<slot, state, socketOf, posted>> /\ destroyed' = destroyed \cup {s}
         \/ /\ \E i \in Slots : slot[t][i] = None /\ slot' = [slot EXCEPT ![t][i] = s]
            /\ state' = [state EXCEPT ![s] = "Active"] /\ socketOf' = [socketOf EXCEPT ![s] = s]
            /\ UNCHANGED <<posted, destroyed>>
<1>1. CASE count[t] >= MaxSessions
  BY <1>1 DEF CreateSession, slotVars
<1>2. CASE ~(count[t] >= MaxSessions)
  <2> DEFINE i == CHOOSE j \in Slots : slot[t][j] = None /\ \A h \in 1 .. j - 1 : slot[t][h] # None
  <2>1. Lists(active[t], {j \in Slots : slot[t][j] # None}) /\ count[t] = Len(active[t])
    BY ActiveLists DEF SessionsOK, Used
  <2>2. /\ slot[t] \in [Slots -> Sockets \cup {None}] /\ active[t] \in Seq(Slots)
        /\ Len(active[t]) < MaxSessions
    BY <2>1, <1>2, CountAssumption DEF SessionsOK, Slots
  <2>3. i \in Slots /\ slot[t][i] = None
    <3> HIDE DEF i
    <3> QED
      BY <2>1, <2>2, FirstFree DEF i
  <2>4. /\ slot' = [slot EXCEPT ![t][i] = s]
        /\ state' = [state EXCEPT ![s] = "Active"] /\ socketOf' = [socketOf EXCEPT ![s] = s]
        /\ UNCHANGED <<posted, destroyed>>
    BY <1>2 DEF CreateSession
  <2> HIDE DEF i
  <2> QED
    BY <2>3, <2>4
<1> QED
  BY <1>1, <1>2

LEMMA RemovedFrom ==
  ASSUME SessionsOK, NEW t \in Locals, NEW s \in Sockets, RemoveSession(t, s)
  PROVE  /\ \E i \in Slots : slot[t][i] = s /\ slot' = [slot EXCEPT ![t][i] = None]
         /\ state' = [state EXCEPT ![s] = "None"] /\ socketOf' = [socketOf EXCEPT ![s] = None]
         /\ destroyed' = IF socketOf[s] = None THEN destroyed ELSE destroyed \cup {socketOf[s]}
         /\ posted' = posted
<1> DEFINE n == CHOOSE m \in DOMAIN active[t] : slot[t][active[t][m]] = s
           i == active[t][n]
<1>1. n \in DOMAIN active[t] /\ slot[t][i] = s
  BY DEF RemoveSession, Ids
<1>2. slot' = [slot EXCEPT ![t][i] = None]
  BY DEF RemoveSession
<1>3. /\ state' = [state EXCEPT ![s] = "None"] /\ socketOf' = [socketOf EXCEPT ![s] = None]
      /\ destroyed' = IF socketOf[s] = None THEN destroyed ELSE destroyed \cup {socketOf[s]}
      /\ posted' = posted
  BY DEF RemoveSession
<1>4. i \in Slots
  <2>1. active[t] \in Seq(Slots)
    BY DEF SessionsOK
  <2> HIDE DEF n
  <2> QED
    BY <1>1, <2>1
<1> HIDE DEF i
<1> QED
  BY <1>1, <1>2, <1>3, <1>4

\* A new session takes nothing from those that are there ...
LEMMA CreateKeeps ==
  ASSUME Inv, NEW t \in Locals, NEW s \in Sockets, CreateSession(t, s), ~InSlot(s)
  PROVE  /\ \A u \in Locals, r \in Sockets : InSlotOf(u, r) => InSlotOf(u, r)'
         /\ \A u \in Locals, r \in Sockets : InSlotOf(u, r) /\ GivenAway(r) => GivenAway(r)'
         /\ BoundAlive => BoundAlive'
<1>1. /\ slot \in [Locals -> [Slots -> Sockets \cup {None}]]
      /\ state \in [Sockets -> {"None", "Active", "TempDisconnect", "Closed"}]
      /\ socketOf \in [Sockets -> Sockets \cup {None}]
  BY DEF Inv, TypeOK
<1>2. \A u \in Locals : ~InSlotOf(u, s)
  BY DEF InSlot, InSlotOf
<1>3. CASE UNCHANGED <<slot, state, socketOf>>
  BY <1>3 DEF InSlotOf, GivenAway, BoundAlive
<1>4. CASE /\ \E i \in Slots : slot[t][i] = None /\ slot' = [slot EXCEPT ![t][i] = s]
           /\ state' = [state EXCEPT ![s] = "Active"] /\ socketOf' = [socketOf EXCEPT ![s] = s]
  <2>1. \A u \in Locals, r \in Sockets : InSlotOf(u, r) => InSlotOf(u, r)'
    <3>1. PICK i \in Slots : slot[t][i] = None /\ slot' = [slot EXCEPT ![t][i] = s]
      BY <1>4
    <3>2. ASSUME NEW u \in Locals, NEW r \in Sockets, NEW j \in Slots, slot[u][j] = r PROVE slot'[u][j] = r
      BY <1>1, <3>1, <3>2, NoneAssumption
    <3> QED
      BY <3>2 DEF InSlotOf
  <2>2. \A r \in Sockets \ {s} : state'[r] = state[r] /\ socketOf'[r] = socketOf[r]
    BY <1>1, <1>4
  <2>3. state'[s] = "Active"
    BY <1>1, <1>4
  <2> QED
    BY <1>2, <2>1, <2>2, <2>3 DEF GivenAway, BoundAlive
<1> QED
  BY <1>3, <1>4, CreatedIn, InvSessions

\* ... and one that is removed nothing from the others.
LEMMA RemoveKeeps ==
  ASSUME Inv, FreshOK, NEW t \in Locals, NEW s \in Sockets, RemoveSession(t, s)
  PROVE  /\ InSlotOf(t, s) /\ \A u \in Locals \ {t} : ~InSlotOf(u, s)
         /\ \A u \in Locals, r \in Sockets \ {s} : InSlotOf(u, r) => InSlotOf(u, r)'
         /\ \A r \in Sockets \ {s} : GivenAway(r) => GivenAway(r)'
         /\ BoundAlive => BoundAlive'
<1>1. /\ slot \in [Locals -> [Slots -> Sockets \cup {None}]]
      /\ state \in [Sockets -> {"None", "Active", "TempDisconnect", "Closed"}]
      /\ socketOf \in [Sockets -> Sockets \cup {None}]
  BY DEF Inv, TypeOK
<1>2. /\ \E i \in Slots : slot[t][i] = s /\ slot' = [slot EXCEPT ![t][i] = None]
      /\ state' = [state EXCEPT ![s] = "None"] /\ socketOf' = [socketOf EXCEPT ![s] = None]
  BY RemovedFrom, InvSessions
<1>3. PICK i \in Slots : slot[t][i] = s /\ slot' = [slot EXCEPT ![t][i] = None]
  BY <1>2
<1>4. InSlotOf(t, s) /\ \A u \in Locals \ {t} : ~InSlotOf(u, s)
  <2>1. s # None
    BY NoneAssumption
  <2>2. ASSUME NEW u \in Locals \ {t}, NEW j \in Slots, slot[u][j] = s PROVE FALSE
    BY <1>3, <2>1, <2>2 DEF FreshOK
  <2> QED
    BY <1>3, <2>2 DEF InSlotOf
<1>5. \A u \in Locals, r \in Sockets \ {s} : InSlotOf(u, r) => InSlotOf(u, r)'
  <2>1. ASSUME NEW u \in Locals, NEW r \in Sockets \ {s}, NEW j \in Slots, slot[u][j] = r
        PROVE  slot'[u][j] = r
    BY <1>1, <1>3, <2>1
  <2> QED
    BY <2>1 DEF InSlotOf
<1>6. \A r \in Sockets \ {s} : state'[r] = state[r] /\ socketOf'[r] = socketOf[r]
  BY <1>1, <1>2
<1>7. socketOf'[s] = None
  BY <1>1, <1>2
<1> QED
  BY <1>4, <1>5, <1>6, <1>7 DEF GivenAway, BoundAlive

\* The command at the head of the queue of thread t is handled, and leaves the others a target.
LEMMA RemovalsPopped ==
  ASSUME NEW t \in Locals, RemovalAt(t), lpc[t] = "commands", lpc' = lpc, running' = running,
         queue \in [Locals -> Seq(Command)], queue[t] # <<>>, queue' = [queue EXCEPT ![t] = Tail(@)],
         \A n \in Nat, s \in Sockets :
           Removes(t, n, s) /\ n # 1 => InSlotOf(t, s)' /\ GivenAway(s)'
  PROVE  RemovalAt(t)'
<1>1. /\ \A n \in DOMAIN queue'[t] : n \in Nat /\ n + 1 \in DOMAIN queue[t] /\ queue'[t][n] = queue[t][n + 1]
      /\ 0 \notin DOMAIN queue'[t]
  BY PoppedCommands
<1>2. \A n \in Nat, s \in Sockets : Removes(t, n, s)' => Removes(t, n + 1, s) /\ n + 1 # 1
  BY <1>1 DEF Removes
<1>3. \A n \in Nat : Shuts(t, n)' => Shuts(t, n + 1)
  BY <1>1 DEF Shuts
<1>4. ASSUME NEW n \in Nat, NEW s \in Sockets, Removes(t, n, s)' PROVE TargetOK(t, n, s)'
  <2>1. Removes(t, n + 1, s) /\ n + 1 # 1
    BY <1>2, <1>4
  <2>2. TargetOK(t, n + 1, s)
    BY <2>1 DEF RemovalAt
  <2>3. \A m \in Nat : Removes(t, m, s)' => m = n
    <3>1. ASSUME NEW m \in Nat, Removes(t, m, s)' PROVE m = n
      <4>1. Removes(t, m + 1, s)
        BY <1>2, <3>1
      <4>2. m + 1 = n + 1
        BY <4>1, <2>2 DEF TargetOK
      <4> QED
        BY <4>2
    <3> QED
      BY <3>1
  <2>4. \A m \in Nat : m < n => ~Shuts(t, m)'
    BY <1>3, <2>2 DEF TargetOK
  <2>5. lpc'[t] = "commands"
    OBVIOUS
  <2>6. InSlotOf(t, s)' /\ GivenAway(s)'
    BY <2>1
  <2> QED
    BY <2>3, <2>4, <2>5, <2>6 DEF TargetOK
<1>5. \A n \in Nat : Shuts(t, n)' => ~running'[t]
  BY <1>3 DEF RemovalAt
<1> QED
  BY <1>4, <1>5 DEF RemovalAt

\* A command that removes nothing is pushed.
LEMMA RemovalsPushed ==
  ASSUME NEW t \in Locals, NEW c \in Command, c.type # "remove",
         queue \in [Locals -> Seq(Command)], queue' = Pushed(t, c),
         UNCHANGED <<lpc, unvisited, current, slot, state, socketOf>>,
         NEW u \in Locals, RemovalAt(u), running'[u] => running[u] /\ (u = t => c.type # "shutdown")
  PROVE  RemovalAt(u)'
<1>1. /\ \A n \in DOMAIN queue'[u] : n \in DOMAIN queue[u] \/ (u = t /\ n = Len(queue[t]) + 1 /\ queue'[u][n] = c)
      /\ \A n \in DOMAIN queue[u] : queue'[u][n] = queue[u][n]
  BY PushedCommands
<1>2. \A n \in Nat, s \in Sockets : Removes(u, n, s)' => Removes(u, n, s)
  BY <1>1 DEF Removes
<1>3. \A n \in Nat : Shuts(u, n)' =>
        Shuts(u, n) \/ (u = t /\ n = Len(queue[t]) + 1 /\ c.type = "shutdown")
  BY <1>1 DEF Shuts
<1>4. ASSUME NEW n \in Nat, NEW s \in Sockets, Removes(u, n, s)' PROVE TargetOK(u, n, s)'
  <2>1. Removes(u, n, s) /\ TargetOK(u, n, s)
    BY <1>2, <1>4 DEF RemovalAt
  <2>2. n <= Len(queue[u])
    BY <2>1 DEF Removes
  <2>3. lpc'[u] = "commands" => \A m \in Nat : m < n => ~Shuts(u, m)'
    BY <1>3, <2>1, <2>2 DEF TargetOK
  <2> QED
    BY <1>2, <2>1, <2>3 DEF TargetOK, InSlotOf, GivenAway
<1>5. \A n \in Nat : Shuts(u, n)' => ~running'[u]
  BY <1>3 DEF RemovalAt
<1>6. lpc'[u] = "packets" => InSlotOf(u, current[u])' /\ current'[u] \notin unvisited'[u]
  BY DEF RemovalAt, InSlotOf
<1> QED
  BY <1>4, <1>5, <1>6 DEF RemovalAt

\* The thread whose step it is has to show its own, the other threads only lose no target.
LEMMA RemovalLocal ==
  ASSUME RemovalOK, NEW t \in Locals, OnlyOf(t), stopping' = stopping, BoundAlive', RemovalAt(t)',
         \A u \in Locals \ {t} : /\ queue'[u] = queue[u] /\ lpc'[u] = lpc[u] /\ unvisited'[u] = unvisited[u]
                                 /\ current'[u] = current[u] /\ running'[u] = running[u],
         \A u \in Locals \ {t}, s \in Sockets : InSlotOf(u, s) /\ GivenAway(s) => GivenAway(s)'
  PROVE  RemovalOK'
<1>1. ASSUME NEW u \in Locals \ {t}, u >= stopping PROVE RemovalAt(u)'
  <2>1. RemovalAt(u)
    BY <1>1 DEF RemovalOK
  <2>2. slot'[u] = slot[u]
    BY DEF OnlyOf
  <2> QED
    BY <2>1, <2>2, RemovalFrame
<1> QED
  BY <1>1 DEF RemovalOK

\* Every command is handled before a walk begins: none to remove a session is behind one to end.
LEMMA RemovalsDone ==
  ASSUME NEW t \in Locals, lpc'[t] \notin {"commands", "packets"},
         \A n \in Nat, s \in Sockets : ~Removes(t, n, s)',
         \A n \in Nat : Shuts(t, n)' => ~running'[t]
  PROVE  RemovalAt(t)'
  BY DEF RemovalAt

\* What the steps need of the types.
LEMMA ThreadTypes ==
  ASSUME Inv
  PROVE  /\ lpc \in [Locals -> {"tick", "commands", "sessions", "packets", "ended"}]
         /\ index \in [Locals -> 0 .. MaxSessions] /\ current \in [Locals -> Sockets \cup {None}]
         /\ unvisited \in [Locals -> SUBSET Sockets] /\ running \in [Locals -> BOOLEAN]
         /\ queue \in [Locals -> Seq(Command)]
         /\ state \in [Sockets -> {"None", "Active", "TempDisconnect", "Closed"}]
         /\ socketOf \in [Sockets -> Sockets \cup {None}]
  BY DEF Inv, TypeOK

\* A thread that takes a step is not one that main has stopped.
LEMMA NotStopped ==
  ASSUME Inv, NEW t \in Locals, lpc[t] # "ended"
  PROVE  t >= stopping
<1>1. t \notin 1 .. stopping - 1
  BY DEF Inv, StopOK
<1>2. stopping \in Int /\ t \in Nat /\ t >= 1
  BY CountAssumption DEF Inv, TypeOK, Locals
<1> QED
  BY <1>1, <1>2

LEMMA TickRemovals == ASSUME Inv, RemovalOK, NEW t \in Locals, Tick(t) PROVE RemovalOK'
<1> USE DEF slotVars, sessionVars, walkVars, mainVars
<1>1. RemovalAt(t) /\ BoundAlive
  BY NotStopped DEF Tick, RemovalOK
<1>2. lpc' = [lpc EXCEPT ![t] = IF running[t] THEN "commands" ELSE "ended"]
  BY DEF Tick, Goto
<1>3. lpc'[t] \in {"commands", "ended"} /\ (lpc'[t] = "commands" => running[t])
  BY <1>2, ThreadTypes
<1>4. UNCHANGED <<stopping, running, index, current, unvisited, queue, slot, active, state, socketOf>>
  BY DEF Tick
<1>5. RemovalAt(t)'
  <2>1. \A n \in Nat, s \in Sockets : Removes(t, n, s)' = Removes(t, n, s)
    BY <1>4 DEF Removes
  <2>2. \A n \in Nat : Shuts(t, n)' = Shuts(t, n)
    BY <1>4 DEF Shuts
  <2>3. running[t] => \A n \in Nat : ~Shuts(t, n)
    BY <1>1 DEF RemovalAt
  <2>4. \A n \in Nat, s \in Sockets : Removes(t, n, s)' => TargetOK(t, n, s)'
    BY <1>1, <1>3, <1>4, <2>1, <2>2, <2>3 DEF RemovalAt, TargetOK, InSlotOf, GivenAway
  <2> QED
    BY <1>1, <1>3, <1>4, <2>2, <2>4 DEF RemovalAt
<1>6. OnlyOf(t) /\ BoundAlive'
  BY <1>1, <1>4 DEF OnlyOf, BoundAlive
<1>7. \A u \in Locals \ {t} : lpc'[u] = lpc[u]
  BY <1>2, ThreadTypes
<1>8. \A s \in Sockets : GivenAway(s)' = GivenAway(s)
  BY <1>4 DEF GivenAway
<1> QED
  BY <1>4, <1>5, <1>6, <1>7, <1>8, RemovalLocal

LEMMA CommandRemovals ==
  ASSUME Inv, FreshOK, RemovalOK, NEW t \in Locals, ProcessCommands(t) PROVE RemovalOK'
<1> USE DEF slotVars, sessionVars, walkVars, mainVars
<1>1. RemovalAt(t) /\ BoundAlive
  BY NotStopped DEF ProcessCommands, RemovalOK
<1>2. lpc[t] = "commands" /\ stopping' = stopping /\ queue \in [Locals -> Seq(Command)]
  BY ThreadTypes DEF ProcessCommands
<1>3. ASSUME StartWalk(t)
      PROVE  /\ lpc'[t] = "sessions"
             /\ \A u \in Locals \ {t} :
                  lpc'[u] = lpc[u] /\ unvisited'[u] = unvisited[u] /\ current'[u] = current[u]
  BY <1>3, ThreadTypes DEF StartWalk, Goto
<1>4. ASSUME UNCHANGED <<slot, active, state, socketOf>>
      PROVE  OnlyOf(t) /\ BoundAlive' /\ \A s \in Sockets : GivenAway(s)' = GivenAway(s)
  BY <1>1, <1>4 DEF OnlyOf, BoundAlive, GivenAway
<1>5. CASE queue[t] = <<>>
  <2>1. StartWalk(t) /\ UNCHANGED <<running, queue, slot, active, state, socketOf>>
    BY <1>5 DEF ProcessCommands
  <2>2. \A n \in Nat : n \notin DOMAIN queue'[t]
    BY <1>5, <2>1
  <2>3. RemovalAt(t)'
    BY <1>3, <2>1, <2>2, RemovalsDone DEF Removes, Shuts
  <2> QED
    BY <1>2, <1>3, <1>4, <2>1, <2>3, RemovalLocal
<1>6. CASE queue[t] # <<>>
  <2> DEFINE command == Head(queue[t])
  <2>1. queue' = [queue EXCEPT ![t] = Tail(@)]
    BY <1>6 DEF ProcessCommands
  <2>2. /\ command = queue[t][1] /\ 1 \in DOMAIN queue[t] /\ command \in Command
        /\ \A u \in Locals \ {t} : queue'[u] = queue[u]
    BY <1>2, <1>6, <2>1, PoppedCommands
  <2> HIDE DEF command
  <2>3. CASE command.type = "create" /\ CreateSession(t, command.id) /\ UNCHANGED <<running, lpc, walkVars>>
    <3>1. command.id \in Sockets /\ Creates(t, 1, command.id)
      BY <2>2, <2>3 DEF Command, Creates
    <3>2. ~InSlot(command.id)
      BY <3>1 DEF FreshOK
    <3>3. /\ \A u \in Locals, r \in Sockets : InSlotOf(u, r) => InSlotOf(u, r)'
          /\ \A u \in Locals, r \in Sockets : InSlotOf(u, r) /\ GivenAway(r) => GivenAway(r)'
          /\ BoundAlive'
      BY <1>1, <2>3, <3>1, <3>2, CreateKeeps
    <3>4. \A n \in Nat, s \in Sockets : Removes(t, n, s) => InSlotOf(t, s)' /\ GivenAway(s)'
      BY <1>1, <3>3 DEF RemovalAt, TargetOK
    <3>5. RemovalAt(t)'
      BY <1>1, <1>2, <1>6, <2>1, <2>3, <3>4, RemovalsPopped
    <3>6. OnlyOf(t)
      BY <2>3, <3>1, CreateSessionStep, InvSessions
    <3> QED
      BY <1>2, <2>2, <2>3, <3>3, <3>5, <3>6, RemovalLocal
  <2>4. CASE command.type = "remove" /\ RemoveSession(t, command.id) /\ UNCHANGED <<running, lpc, walkVars>>
    <3> DEFINE k == command.id
    <3>1. k \in Sockets /\ Removes(t, 1, k)
      BY <2>2, <2>4 DEF Command, Removes
    <3> HIDE DEF k
    <3>2. /\ \A u \in Locals \ {t} : ~InSlotOf(u, k)
          /\ \A u \in Locals, r \in Sockets \ {k} : InSlotOf(u, r) => InSlotOf(u, r)'
          /\ \A r \in Sockets \ {k} : GivenAway(r) => GivenAway(r)'
          /\ BoundAlive'
      BY <1>1, <2>4, <3>1, RemoveKeeps DEF k
    <3>3. \A n \in Nat, s \in Sockets : Removes(t, n, s) /\ n # 1 => s # k
      BY <1>1, <3>1 DEF RemovalAt, TargetOK
    <3>4. \A n \in Nat, s \in Sockets : Removes(t, n, s) /\ n # 1 => InSlotOf(t, s)' /\ GivenAway(s)'
      BY <1>1, <3>2, <3>3 DEF RemovalAt, TargetOK
    <3>5. RemovalAt(t)'
      BY <1>1, <1>2, <1>6, <2>1, <2>4, <3>4, RemovalsPopped
    <3>6. OnlyOf(t)
      BY <2>4, <3>1, RemoveSessionStep, InvSessions DEF k
    <3> QED
      BY <1>2, <2>2, <2>4, <3>2, <3>5, <3>6, RemovalLocal
  <2>5. CASE /\ command.type = "shutdown" /\ running' = [running EXCEPT ![t] = FALSE] /\ StartWalk(t)
             /\ UNCHANGED <<slotVars, sessionVars>>
    <3>1. Shuts(t, 1)
      BY <2>2, <2>5 DEF Shuts
    <3>2. \A n \in DOMAIN queue'[t] : n \in Nat /\ n + 1 \in DOMAIN queue[t] /\ queue'[t][n] = queue[t][n + 1]
                                       /\ n # 0
      BY <1>2, <1>6, <2>1, PoppedCommands
    <3>3. \A n \in Nat, s \in Sockets : ~Removes(t, n, s)'
      <4>1. ASSUME NEW n \in Nat, NEW s \in Sockets, Removes(t, n, s)' PROVE FALSE
        <5>1. Removes(t, n + 1, s) /\ n # 0
          BY <3>2, <4>1 DEF Removes
        <5>2. \A m \in Nat : m < n + 1 => ~Shuts(t, m)
          BY <1>1, <1>2, <5>1 DEF RemovalAt, TargetOK
        <5> QED
          BY <3>1, <5>1, <5>2
      <4> QED
        BY <4>1
    <3>4. ~running'[t] /\ \A u \in Locals \ {t} : running'[u] = running[u]
      BY <2>5, ThreadTypes
    <3>5. RemovalAt(t)'
      BY <1>3, <2>5, <3>3, <3>4, RemovalsDone
    <3> QED
      BY <1>2, <1>3, <1>4, <2>2, <2>5, <3>4, <3>5, RemovalLocal
  <2> QED
    BY <1>6, <2>3, <2>4, <2>5 DEF ProcessCommands, command
<1> QED
  BY <1>5, <1>6

LEMMA SessionsRemovals ==
  ASSUME Inv, FreshOK, VisitOK, RemovalOK, NEW t \in Locals, ProcessSessions(t) PROVE RemovalOK'
<1> USE DEF slotVars, sessionVars, walkVars, mainVars
<1>1. RemovalAt(t) /\ BoundAlive
  BY NotStopped DEF ProcessSessions, RemovalOK
<1>2. lpc[t] = "sessions" /\ UNCHANGED <<stopping, running, queue>>
  BY DEF ProcessSessions
<1>3. \A n \in Nat, s \in Sockets : Removes(t, n, s)' = Removes(t, n, s)
  BY <1>2 DEF Removes
<1>4. \A n \in Nat : Shuts(t, n)' => ~running'[t]
  BY <1>1, <1>2 DEF RemovalAt, Shuts
<1>5. ASSUME lpc'[t] \in {"tick", "sessions", "packets"},
             unvisited'[t] \subseteq unvisited[t],
             \A n \in Nat, s \in Sockets : Removes(t, n, s) => InSlotOf(t, s)' /\ GivenAway(s)',
             lpc'[t] = "packets" => InSlotOf(t, current[t])' /\ current'[t] \notin unvisited'[t]
      PROVE  RemovalAt(t)'
  <2>1. \A n \in Nat, s \in Sockets : Removes(t, n, s)' => TargetOK(t, n, s)'
    BY <1>1, <1>2, <1>3, <1>5 DEF RemovalAt, TargetOK
  <2> QED
    BY <1>4, <1>5, <2>1 DEF RemovalAt
<1>6. ASSUME UNCHANGED <<slot, active, state, socketOf>>
      PROVE  /\ OnlyOf(t) /\ BoundAlive' /\ \A s \in Sockets : GivenAway(s)' = GivenAway(s)
             /\ \A n \in Nat, s \in Sockets : Removes(t, n, s) => InSlotOf(t, s)' /\ GivenAway(s)'
  BY <1>1, <1>6 DEF OnlyOf, BoundAlive, GivenAway, RemovalAt, TargetOK, InSlotOf
<1>7. CASE Goto(t, "tick") /\ UNCHANGED <<walkVars, slotVars, sessionVars>>
  <2>1. lpc'[t] = "tick" /\ \A u \in Locals \ {t} : lpc'[u] = lpc[u]
    BY <1>7, ThreadTypes DEF Goto
  <2>2. RemovalAt(t)'
    BY <1>5, <1>6, <1>7, <2>1
  <2> QED
    BY <1>2, <1>6, <1>7, <2>1, <2>2, RemovalLocal
<1>8. CASE index[t] > 0 /\ Visit(t, index[t])
  <2> DEFINE h == index[t]
             s == slot[t][active[t][h]]
  <2>1. h \in DOMAIN active[t] /\ h \in 1 .. h /\ active[t][h] \in Slots
    <3>1. index[t] <= Len(active[t]) /\ index[t] \in 0 .. MaxSessions /\ active[t] \in Seq(Slots)
      BY <1>2 DEF Inv, TypeOK, WalkOK, WalkAt
    <3> QED
      BY <3>1, <1>8, CountAssumption
  <2>2. s \in Sockets
    <3>1. s \in Ids(t)
      BY <2>1 DEF Ids
    <3> QED
      BY <3>1, IdsType, InvSessions
  <2>3. s \in unvisited[t]
    BY <1>2, <2>1 DEF VisitOK, VisitAt
  <2>4. InSlotOf(t, s)
    BY <2>1 DEF InSlotOf
  <2>5. /\ unvisited'[t] = unvisited[t] \ {s}
        /\ \A u \in Locals \ {t} : unvisited'[u] = unvisited[u]
    BY <1>8, ThreadTypes DEF Visit
  <2>6. \A n \in Nat, r \in Sockets : Removes(t, n, r) => r # s
    BY <1>1, <1>2, <2>3 DEF RemovalAt, TargetOK
  <2> HIDE DEF h, s
  <2>7. CASE /\ Goto(t, "packets") /\ current' = [current EXCEPT ![t] = s]
             /\ UNCHANGED <<slotVars, sessionVars>>
    <3>1. /\ lpc'[t] = "packets" /\ current'[t] = s
          /\ \A u \in Locals \ {t} : lpc'[u] = lpc[u] /\ current'[u] = current[u]
      BY <2>7, ThreadTypes DEF Goto
    <3>2. InSlotOf(t, current[t])' /\ current'[t] \notin unvisited'[t]
      BY <2>4, <2>5, <2>7, <3>1 DEF InSlotOf
    <3>3. RemovalAt(t)'
      BY <1>5, <1>6, <2>5, <2>7, <3>1, <3>2
    <3> QED
      BY <1>2, <1>6, <2>5, <2>7, <3>1, <3>3, RemovalLocal
  <2>8. CASE UNCHANGED <<lpc, current, slotVars, sessionVars>>
    <3>1. RemovalAt(t)'
      BY <1>2, <1>5, <1>6, <2>5, <2>8
    <3> QED
      BY <1>2, <1>6, <2>5, <2>8, <3>1, RemovalLocal
  <2>9. CASE RemoveSession(t, s) /\ UNCHANGED <<lpc, current>>
    <3>1. /\ \A u \in Locals \ {t} : ~InSlotOf(u, s)
          /\ \A u \in Locals, r \in Sockets \ {s} : InSlotOf(u, r) => InSlotOf(u, r)'
          /\ \A r \in Sockets \ {s} : GivenAway(r) => GivenAway(r)'
          /\ BoundAlive'
      BY <1>1, <2>2, <2>9, RemoveKeeps
    <3>2. \A n \in Nat, r \in Sockets : Removes(t, n, r) => InSlotOf(t, r)' /\ GivenAway(r)'
      BY <1>1, <2>6, <3>1 DEF RemovalAt, TargetOK
    <3>3. RemovalAt(t)'
      BY <1>2, <1>5, <2>5, <2>9, <3>2
    <3>4. OnlyOf(t)
      BY <2>2, <2>9, RemoveSessionStep, InvSessions
    <3> QED
      BY <1>2, <2>5, <2>9, <3>1, <3>3, <3>4, RemovalLocal
  <2> QED
    BY <1>8, <2>7, <2>8, <2>9 DEF Visit, s, h
<1> QED
  BY <1>7, <1>8 DEF ProcessSessions

\* A login posts the removal of the session that has given its socket away, once.
LEMMA PacketsRemovals ==
  ASSUME Inv, RemovalOK, NEW t \in Locals, ProcessSessionPackets(t) PROVE RemovalOK'
<1> USE DEF slotVars, sessionVars, mainVars
<1>1. RemovalAt(t) /\ BoundAlive
  BY NotStopped DEF ProcessSessionPackets, RemovalOK
<1>2. lpc[t] = "packets" /\ UNCHANGED <<stopping, running, index, unvisited>>
  BY DEF ProcessSessionPackets
<1>3. UNCHANGED <<slot, active>>
  BY DEF ProcessSessionPackets, Restore, Refuse
<1>4. OnlyOf(t)
  BY <1>3 DEF OnlyOf
<1>5. PICK s \in Sockets : s = current[t] /\ InSlotOf(t, s) /\ s \notin unvisited[t]
  BY <1>1, <1>2 DEF Inv, WalkOK, WalkAt, RemovalAt
<1>6. CASE Restore(t, s) /\ UNCHANGED <<lpc, current>>
  <2> DEFINE c == [type |-> "remove", id |-> s]
  <2>1. PICK old \in Sockets : /\ state[old] = "TempDisconnect"
                               /\ socketOf' = [socketOf EXCEPT ![s] = None, ![old] = socketOf[s]]
                               /\ state' = [state EXCEPT ![old] = "Active"]
    BY <1>6 DEF Restore
  <2>2. queue' = Pushed(t, c) /\ socketOf[s] # None
    BY <1>6 DEF Restore
  <2>3. c \in Command /\ c.type = "remove" /\ c.id = s
    BY <1>5 DEF Command
  <2> HIDE DEF c
  <2>4. old # s /\ state[s] \in {"Active", "Closed"}
    BY <1>1, <1>5, <2>1, <2>2 DEF BoundAlive
  <2>5. /\ socketOf'[s] = None /\ state'[s] = state[s] /\ state'[old] = "Active"
        /\ \A r \in Sockets \ {s, old} : socketOf'[r] = socketOf[r] /\ state'[r] = state[r]
    BY <1>5, <2>1, <2>4, ThreadTypes
  <2>6. GivenAway(s)' /\ BoundAlive' /\ \A r \in Sockets : GivenAway(r) => GivenAway(r)'
    BY <1>1, <2>1, <2>4, <2>5 DEF BoundAlive, GivenAway
  <2>7. /\ \A n \in DOMAIN queue'[t] :
             n \in DOMAIN queue[t] \/ (n = Len(queue[t]) + 1 /\ queue'[t][n] = c)
        /\ \A n \in DOMAIN queue[t] : queue'[t][n] = queue[t][n]
        /\ queue[t] \in Seq(Command)
    BY <2>2, <2>3, PushedCommands, ThreadTypes
  <2>8. \A n \in Nat, r \in Sockets : Removes(t, n, r)' =>
          Removes(t, n, r) \/ (n = Len(queue[t]) + 1 /\ r = s)
    BY <2>3, <2>7 DEF Removes
  <2>9. \A n \in Nat : Shuts(t, n)' => Shuts(t, n)
    BY <2>3, <2>7 DEF Shuts
  <2>10. \A n \in Nat : ~Removes(t, n, s)
    BY <1>1, <1>5, <2>2 DEF RemovalAt, TargetOK, GivenAway
  <2>11. ASSUME NEW n \in Nat, NEW r \in Sockets, Removes(t, n, r)' PROVE TargetOK(t, n, r)'
    <3>1. InSlotOf(t, r)' /\ GivenAway(r)' /\ r \notin unvisited'[t]
      <4>1. CASE Removes(t, n, r)
        BY <1>1, <1>2, <1>3, <2>6, <4>1 DEF RemovalAt, TargetOK, InSlotOf
      <4>2. CASE r = s
        BY <1>2, <1>3, <1>5, <2>6, <4>2 DEF InSlotOf
      <4> QED
        BY <2>8, <2>11, <4>1, <4>2
    <3>2. \A m \in Nat : Removes(t, m, r)' => m = n
      BY <1>1, <2>8, <2>10, <2>11 DEF RemovalAt, TargetOK
    <3> QED
      BY <1>2, <1>6, <3>1, <3>2 DEF TargetOK
  <2>12. InSlotOf(t, current[t])' /\ current'[t] \notin unvisited'[t]
    BY <1>2, <1>3, <1>5, <1>6 DEF InSlotOf
  <2>13. RemovalAt(t)'
    BY <1>1, <1>2, <2>9, <2>11, <2>12 DEF RemovalAt
  <2>14. \A u \in Locals \ {t} : queue'[u] = queue[u]
    BY <2>2, ThreadTypes DEF Pushed
  <2> QED
    BY <1>2, <1>4, <1>6, <2>6, <2>13, <2>14, RemovalLocal
<1>7. ASSUME UNCHANGED <<queue, socketOf>>, BoundAlive', \A r \in Sockets : GivenAway(r) => GivenAway(r)',
             lpc'[t] = "sessions" \/ UNCHANGED <<lpc, current>>,
             \A u \in Locals \ {t} : lpc'[u] = lpc[u] /\ current'[u] = current[u]
      PROVE  RemovalOK'
  <2>1. \A n \in Nat, r \in Sockets : Removes(t, n, r)' = Removes(t, n, r)
    BY <1>7 DEF Removes
  <2>2. \A n \in Nat : Shuts(t, n)' = Shuts(t, n)
    BY <1>7 DEF Shuts
  <2>3. \A n \in Nat, r \in Sockets : Removes(t, n, r)' => TargetOK(t, n, r)'
    BY <1>1, <1>2, <1>3, <1>7, <2>1 DEF RemovalAt, TargetOK, InSlotOf
  <2>4. lpc'[t] = "packets" => InSlotOf(t, current[t])' /\ current'[t] \notin unvisited'[t]
    BY <1>2, <1>3, <1>5, <1>7 DEF InSlotOf
  <2>5. RemovalAt(t)'
    BY <1>1, <1>2, <2>2, <2>3, <2>4 DEF RemovalAt
  <2> QED
    BY <1>2, <1>4, <1>7, <2>5, RemovalLocal
<1>8. CASE Refuse(t) /\ UNCHANGED <<lpc, current>>
  <2>1. UNCHANGED <<queue, socketOf>> /\ \E old \in Sockets : state' = [state EXCEPT ![old] = "Closed"]
    BY <1>8 DEF Refuse
  <2>2. \A r \in Sockets : state'[r] = state[r] \/ state'[r] = "Closed"
    BY <2>1, ThreadTypes
  <2>3. BoundAlive' /\ \A r \in Sockets : GivenAway(r) => GivenAway(r)'
    BY <1>1, <2>1, <2>2 DEF BoundAlive, GivenAway
  <2> QED
    BY <1>7, <1>8, <2>1, <2>3
<1>9. CASE /\ Goto(t, "sessions") /\ current' = [current EXCEPT ![t] = None]
           /\ UNCHANGED <<queue, slotVars, sessionVars>>
  <2>1. BoundAlive' /\ \A r \in Sockets : GivenAway(r) => GivenAway(r)'
    BY <1>1, <1>9 DEF BoundAlive, GivenAway
  <2>2. lpc'[t] = "sessions" /\ \A u \in Locals \ {t} : lpc'[u] = lpc[u] /\ current'[u] = current[u]
    BY <1>9, ThreadTypes DEF Goto
  <2> QED
    BY <1>7, <1>9, <2>1, <2>2
<1> QED
  BY <1>5, <1>6, <1>8, <1>9 DEF ProcessSessionPackets

\* What leaves the commands, the walks and the slots alone has only to leave the targets theirs.
LEMMA RemovalElsewhere ==
  ASSUME RemovalOK, stopping' = stopping, UNCHANGED <<lpc, unvisited, current, running, queue, slot>>,
         BoundAlive', \A s \in Sockets : GivenAway(s) => GivenAway(s)'
  PROVE  RemovalOK'
<1>1. ASSUME NEW u \in Locals, u >= stopping PROVE RemovalAt(u)'
  <2>1. RemovalAt(u)
    BY <1>1 DEF RemovalOK
  <2> QED
    BY <2>1, RemovalFrame
<1> QED
  BY <1>1 DEF RemovalOK

LEMMA OtherRemovals ==
  ASSUME Inv, RemovalOK,
         OnAccept \/ AcceptHandler \/ (\E s \in Sockets : OnSocketDisconnected(s)) \/ DestroyPosted
           \/ StopListener \/ StopThread \/ JoinThread \/ StopIo \/ JoinIo \/ ShutdownPool \/ UNCHANGED vars
  PROVE  RemovalOK'
<1> USE DEF slotVars, sessionVars, threadVars, walkVars, acceptVars, mainVars
<1>1. BoundAlive
  BY DEF RemovalOK
<1>2. CASE UNCHANGED <<stopping, lpc, unvisited, current, running, queue, slot, state, socketOf>>
  <2>1. BoundAlive' /\ \A s \in Sockets : GivenAway(s) => GivenAway(s)'
    BY <1>1, <1>2 DEF BoundAlive, GivenAway
  <2> QED
    BY <1>2, <2>1, RemovalElsewhere
<1>3. ASSUME NEW t \in Locals, NEW c \in Command, c.type # "remove", queue' = Pushed(t, c),
             UNCHANGED <<stopping, lpc, unvisited, current, slot, state, socketOf>>,
             \A u \in Locals : running'[u] => running[u] /\ (u = t => c.type # "shutdown")
      PROVE  RemovalOK'
  <2>1. ASSUME NEW u \in Locals, u >= stopping PROVE RemovalAt(u)'
    <3>1. RemovalAt(u)
      BY <2>1 DEF RemovalOK
    <3> QED
      BY <1>3, <3>1, RemovalsPushed, ThreadTypes
  <2>2. BoundAlive'
    BY <1>1, <1>3 DEF BoundAlive
  <2> QED
    BY <1>3, <2>1, <2>2 DEF RemovalOK
<1>4. CASE PostCreateSession
  <2>1. incoming \in Sockets /\ scan.best \in Locals
    BY <1>4 DEF PostCreateSession, Inv, TypeOK, IncomingOK
  <2>2. [type |-> "create", id |-> incoming] \in Command
    BY <2>1 DEF Command
  <2> QED
    BY <1>3, <1>4, <2>1, <2>2 DEF PostCreateSession
<1>5. CASE StopThread
  <2>1. stopping \in Locals /\ [type |-> "shutdown"] \in Command
    BY <1>5 DEF StopThread, Inv, StopOK, Command
  <2>2. \A u \in Locals : running'[u] => running[u] /\ u # stopping
    BY <1>5, <2>1, ThreadTypes DEF StopThread
  <2> QED
    BY <1>3, <1>5, <2>1, <2>2 DEF StopThread
<1>6. ASSUME NEW s \in Sockets, OnSocketDisconnected(s) PROVE RemovalOK'
  <2>1. /\ socketOf[s] # None /\ socketOf'[s] = None
        /\ \A r \in Sockets \ {s} : socketOf'[r] = socketOf[r] /\ state'[r] = state[r]
    BY <1>6, ThreadTypes DEF OnSocketDisconnected
  <2>2. BoundAlive' /\ \A r \in Sockets : GivenAway(r) => GivenAway(r)'
    BY <1>1, <2>1 DEF BoundAlive, GivenAway
  <2> QED
    BY <1>6, <2>2, RemovalElsewhere DEF OnSocketDisconnected
<1> QED
  BY <1>2, <1>4, <1>5, <1>6 DEF OnAccept, AcceptHandler, OnAborted, Scan, Route, DoAccept, DestroyPosted,
       StopListener, JoinThread, StopIo, JoinIo, ShutdownPool, vars

LEMMA CleanRemovals == ASSUME Inv, FreshOK, RemovalOK, CleanSessions PROVE RemovalOK'
<1> USE DEF threadVars, walkVars
<1> DEFINE ids == {slot[stopping][i] : i \in Slots}
<1>1. /\ stopping \in Locals /\ stopping' = stopping + 1 /\ UNCHANGED <<lpc, unvisited, current, running, queue>>
      /\ slot' = [slot EXCEPT ![stopping] = [i \in Slots |-> None]]
      /\ socketOf' = [s \in Sockets |-> IF s \in ids THEN None ELSE socketOf[s]]
      /\ state' = [s \in Sockets |-> IF s \in ids THEN "None" ELSE state[s]]
  BY DEF CleanSessions, Inv, StopOK
<1>2. \A u \in Locals \ {stopping}, s \in Sockets : InSlotOf(u, s) => s \notin ids
  <2>1. ASSUME NEW u \in Locals \ {stopping}, NEW s \in Sockets, NEW i \in Slots, NEW j \in Slots,
               slot[u][i] = s, slot[stopping][j] = s
        PROVE  FALSE
    BY <1>1, <2>1, NoneAssumption DEF FreshOK
  <2> QED
    BY <2>1 DEF InSlotOf
<1> HIDE DEF ids
<1>3. BoundAlive'
  BY <1>1 DEF RemovalOK, BoundAlive
<1>4. ASSUME NEW u \in Locals, u >= stopping + 1 PROVE RemovalAt(u)'
  <2>1. u # stopping /\ u >= stopping
    BY <1>1, <1>4, CountAssumption DEF Locals
  <2>2. RemovalAt(u)
    BY <2>1 DEF RemovalOK
  <2>3. slot'[u] = slot[u]
    <3>1. slot \in [Locals -> [Slots -> Sockets \cup {None}]]
      BY DEF Inv, TypeOK
    <3> QED
      BY <1>1, <2>1, <3>1
  <2>4. \A s \in Sockets : InSlotOf(u, s) /\ GivenAway(s) => GivenAway(s)'
    BY <1>1, <1>2, <2>1 DEF GivenAway
  <2> QED
    BY <1>1, <2>2, <2>3, <2>4, RemovalFrame
<1> QED
  BY <1>1, <1>3, <1>4 DEF RemovalOK

LEMMA RemovalStep == ASSUME Inv, FreshOK, VisitOK, RemovalOK, [Next]_vars PROVE RemovalOK'
<1>1. ASSUME NEW t \in Locals, LocalThread(t) PROVE RemovalOK'
  BY <1>1, TickRemovals, CommandRemovals, SessionsRemovals, PacketsRemovals DEF LocalThread
<1>2. CASE CleanSessions
  BY <1>2, CleanRemovals
<1>3. CASE \/ OnAccept \/ AcceptHandler \/ (\E s \in Sockets : OnSocketDisconnected(s)) \/ DestroyPosted
           \/ StopListener \/ StopThread \/ JoinThread \/ StopIo \/ JoinIo \/ ShutdownPool \/ UNCHANGED vars
  BY <1>3, OtherRemovals
<1> QED
  BY <1>1, <1>2, <1>3 DEF Next, Main

LEMMA RemovalInit == Init => RemovalOK
<1> SUFFICES ASSUME Init PROVE RemovalOK
  OBVIOUS
<1>1. \A t \in Locals, n \in Nat : n \notin DOMAIN queue[t]
  BY DEF Init
<1> QED
  BY <1>1 DEF Init, RemovalOK, BoundAlive, RemovalAt, Removes, Shuts

\* The invariant behind both theorems of this module.
LEMMA VisitInvariance == Spec => [](Inv /\ FreshOK /\ VisitOK)
<1>1. Init => VisitOK
  BY DEF Init, VisitOK, VisitAt
<1>2. Inv /\ FreshOK /\ VisitOK /\ [Next]_vars => FreshOK' /\ VisitOK'
  BY FreshStep, VisitStep
<1> QED
  BY <1>1, <1>2, FreshInit, Invariance, PTL DEF Spec

LEMMA RemovalInvariance == Spec => [](Inv /\ RemovalOK)
<1>1. Inv /\ FreshOK /\ VisitOK /\ RemovalOK /\ [Next]_vars => RemovalOK'
  BY RemovalStep
<1> QED
  BY <1>1, RemovalInit, VisitInvariance, PTL DEF Spec

\* A login with a token moves a socket and posts the removal of the session that gave it away
\* (Session.cpp, HandlePacket).  Whatever disconnects, logs in, is visited or stops in between,
\* the session is still in its slot when its thread handles the command, and no second command
\* would remove the next one to use the slot: the search in RemoveSession cannot fail.
THEOREM RemovalsFindTheirSession == Spec => []RemovalsHaveTargets
<1>1. Inv /\ RemovalOK => RemovalsHaveTargets
  <2> SUFFICES ASSUME Inv, RemovalOK, NEW t \in stopping .. LocalThreadCount, NEW n \in DOMAIN queue[t],
                      queue[t][n].type = "remove"
               PROVE  /\ queue[t][n].id \in Ids(t)
                      /\ \A m \in DOMAIN queue[t] : queue[t][m] = queue[t][n] => m = n
    BY DEF RemovalsHaveTargets
  <2>1. t \in Locals /\ t >= stopping
    BY CountAssumption DEF Inv, TypeOK, Locals
  <2>2. queue[t] \in Seq(Command) /\ active[t] \in Seq(Slots)
    BY <2>1 DEF Inv, TypeOK
  <2>3. n \in Nat /\ queue[t][n] \in Command /\ \A m \in DOMAIN queue[t] : m \in Nat
    BY <2>2
  <2>4. PICK s \in Sockets : queue[t][n].id = s
    BY <2>3 DEF Command
  <2>5. Removes(t, n, s)
    BY <2>4 DEF Removes
  <2>6. InSlotOf(t, s) /\ \A m \in Nat : Removes(t, m, s) => m = n
    BY <2>1, <2>3, <2>5 DEF RemovalOK, RemovalAt, TargetOK
  <2>7. s \in Ids(t)
    <3>1. Lists(active[t], Used(t))
      BY <2>1, ActiveLists DEF Inv
    <3>2. PICK i \in Slots : slot[t][i] = s
      BY <2>6 DEF InSlotOf
    <3>3. i \in Used(t)
      BY <3>2, NoneAssumption DEF Used
    <3>4. PICK m \in DOMAIN active[t] : active[t][m] = i
      BY <3>1, <3>3 DEF Lists
    <3> QED
      BY <3>2, <3>4 DEF Ids
  <2>8. \A m \in DOMAIN queue[t] : queue[t][m] = queue[t][n] => Removes(t, m, s)
    BY <2>4 DEF Removes
  <2> QED
    BY <2>3, <2>4, <2>6, <2>7, <2>8
<1> QED
  BY <1>1, RemovalInvariance, PTL

--------------------------------------------------------------------------------
(* A socket is in one place                                                       *)

InCommand(k) == \E t \in Locals, n \in Nat : Creates(t, n, k)
Bound(k) == \E s \in Sockets : socketOf[s] = k

\* No two sessions have one socket.
BoundOnce == \A r, s \in Sockets : socketOf[r] = socketOf[s] /\ socketOf[r] # None => r = s

\* The places exclude one another.
Exclusive(k) ==
  /\ InCommand(k) => incoming # k /\ ~Bound(k) /\ k \notin posted /\ k \notin destroyed
  /\ incoming = k => ~Bound(k) /\ k \notin posted /\ k \notin destroyed
  /\ Bound(k) => k \notin posted /\ k \notin destroyed
  /\ k \in posted => k \notin destroyed
Somewhere(k) == InCommand(k) \/ incoming = k \/ Bound(k) \/ k \in posted \/ k \in destroyed

\* Every accepted socket is somewhere until a local thread has been stopped.
PlaceAt(k) ==
  /\ Exclusive(k)
  /\ Somewhere(k) => k \in accepted
  /\ k \in accepted /\ stopping = 1 => Somewhere(k)

PlaceOK ==
  /\ apc \in {"route", "push"} <=> incoming # None
  /\ BoundOnce
  /\ \A k \in Sockets : PlaceAt(k)

\* A step leaves a socket where it is.
SamePlace(k) ==
  /\ InCommand(k)' <=> InCommand(k)
  /\ incoming' = k <=> incoming = k
  /\ Bound(k)' <=> Bound(k)
  /\ k \in posted' <=> k \in posted
  /\ k \in destroyed' <=> k \in destroyed
  /\ k \in accepted' <=> k \in accepted

\* A step moves at most one socket.
LEMMA OneMoves ==
  ASSUME PlaceOK, stopping' = stopping, apc' \in {"route", "push"} <=> incoming' # None, BoundOnce',
         NEW x, \A k \in Sockets \ {x} : SamePlace(k), x \in Sockets => PlaceAt(x)'
  PROVE  PlaceOK'
<1>1. ASSUME NEW k \in Sockets \ {x} PROVE PlaceAt(k)'
  <2>1. PlaceAt(k) /\ SamePlace(k)
    BY DEF PlaceOK
  <2> QED
    BY <2>1 DEF PlaceAt, Exclusive, Somewhere, SamePlace
<1> QED
  BY <1>1 DEF PlaceOK

LEMMA PushedCreates ==
  ASSUME NEW t \in Locals, NEW c \in Command, queue \in [Locals -> Seq(Command)], queue' = Pushed(t, c)
  PROVE  \A k \in Sockets : InCommand(k)' <=> InCommand(k) \/ (c.type = "create" /\ c.id = k /\ queue' # queue)
<1>1. /\ \A u \in Locals : \A n \in DOMAIN queue[u] : n \in DOMAIN queue'[u] /\ queue'[u][n] = queue[u][n]
      /\ \A u \in Locals : \A n \in DOMAIN queue'[u] :
           n \in DOMAIN queue[u] \/ (u = t /\ n = Len(queue[t]) + 1 /\ queue'[u][n] = c /\ queue' # queue)
      /\ queue' = queue \/ (Len(queue[t]) + 1 \in DOMAIN queue'[t] /\ queue'[t][Len(queue[t]) + 1] = c)
  BY PushedCommands
<1>2. \A u \in Locals, n \in Nat, k \in Sockets : Creates(u, n, k) => Creates(u, n, k)'
  BY <1>1 DEF Creates
<1>3. \A u \in Locals, n \in Nat, k \in Sockets : Creates(u, n, k)' =>
        Creates(u, n, k) \/ (c.type = "create" /\ c.id = k /\ queue' # queue)
  BY <1>1 DEF Creates
<1>4. PICK last \in Nat : last = Len(queue[t]) + 1
  OBVIOUS
<1>5. \A k \in Sockets : queue' # queue /\ c.type = "create" /\ c.id = k => Creates(t, last, k)'
  BY <1>1, <1>4 DEF Creates
<1> QED
  BY <1>2, <1>3, <1>5 DEF InCommand

LEMMA PoppedCreates ==
  ASSUME FreshOK, NEW t \in Locals, queue \in [Locals -> Seq(Command)], queue[t] # <<>>,
         queue' = [queue EXCEPT ![t] = Tail(@)]
  PROVE  \A k \in Sockets : InCommand(k)' <=> InCommand(k) /\ ~Creates(t, 1, k)
<1>1. /\ \A u \in Locals \ {t} : queue'[u] = queue[u]
      /\ \A n \in DOMAIN queue'[t] : n \in Nat /\ n + 1 \in DOMAIN queue[t] /\ queue'[t][n] = queue[t][n + 1]
      /\ \A n \in DOMAIN queue[t] : n = 1 \/ (n - 1 \in DOMAIN queue'[t] /\ queue'[t][n - 1] = queue[t][n])
      /\ 0 \notin DOMAIN queue'[t]
  BY PoppedCommands
<1> SUFFICES ASSUME NEW k \in Sockets PROVE InCommand(k)' <=> InCommand(k) /\ ~Creates(t, 1, k)
  OBVIOUS
<1>2. ASSUME NEW u \in Locals, NEW n \in Nat, Creates(u, n, k)' PROVE InCommand(k) /\ ~Creates(t, 1, k)
  <2>1. CASE u = t
    <3>1. Creates(t, n + 1, k) /\ n + 1 # 1
      BY <1>1, <1>2, <2>1 DEF Creates
    <3> QED
      BY <3>1 DEF InCommand, FreshOK
  <2>2. CASE u # t
    <3>1. Creates(u, n, k)
      BY <1>1, <1>2, <2>2 DEF Creates
    <3> QED
      BY <2>2, <3>1 DEF InCommand, FreshOK
  <2> QED
    BY <2>1, <2>2
<1>3. ASSUME NEW u \in Locals, NEW n \in Nat, Creates(u, n, k), ~Creates(t, 1, k) PROVE InCommand(k)'
  <2>1. CASE u = t
    <3>1. n - 1 \in DOMAIN queue'[t] /\ queue'[t][n - 1] = queue[t][n]
      BY <1>1, <1>3, <2>1 DEF Creates
    <3>2. n - 1 \in Nat
      BY <1>1, <3>1
    <3>3. Creates(t, n - 1, k)'
      BY <1>3, <2>1, <3>1 DEF Creates
    <3> QED
      BY <3>2, <3>3 DEF InCommand
  <2>2. CASE u # t
    <3>1. Creates(u, n, k)'
      BY <1>1, <1>3, <2>2 DEF Creates
    <3> QED
      BY <3>1 DEF InCommand
  <2> QED
    BY <2>1, <2>2
<1> QED
  BY <1>2, <1>3 DEF InCommand

\* The socket of a session that is created, or for which there is no room.
LEMMA CreatePlaces ==
  ASSUME Inv, FreshOK, PlaceOK, NEW t \in Locals, NEW s \in Sockets, CreateSession(t, s), Creates(t, 1, s),
         queue[t] # <<>>, queue' = [queue EXCEPT ![t] = Tail(@)],
         UNCHANGED <<stopping, apc, incoming, accepted>>
  PROVE  PlaceOK'
<1> USE NoneAssumption
<1>1. \A k \in Sockets : InCommand(k)' <=> InCommand(k) /\ ~Creates(t, 1, k)
  BY PoppedCreates, ThreadTypes
<1>2. \A k \in Sockets : Creates(t, 1, k) <=> k = s
  BY DEF Creates
<1>3. ~InSlot(s) /\ InCommand(s)
  <2>1. 1 \in Nat
    OBVIOUS
  <2> QED
    BY <2>1 DEF FreshOK, InCommand
<1>4. socketOf[s] = None
  BY <1>3 DEF Inv, Owned, InSlot
<1>5. /\ incoming # s /\ ~Bound(s) /\ s \notin posted /\ s \notin destroyed /\ s \in accepted
      /\ BoundOnce
  BY <1>3 DEF PlaceOK, PlaceAt, Exclusive, Somewhere
<1>6. CASE UNCHANGED <<socketOf, posted>> /\ destroyed' = destroyed \cup {s}
  <2>1. BoundOnce' /\ \A k \in Sockets : Bound(k)' <=> Bound(k)
    BY <1>5, <1>6 DEF BoundOnce, Bound
  <2>2. \A k \in Sockets \ {s} : SamePlace(k)
    BY <1>1, <1>2, <1>6, <2>1 DEF SamePlace
  <2>3. PlaceAt(s)'
    BY <1>1, <1>2, <1>5, <1>6, <2>1 DEF PlaceAt, Exclusive, Somewhere
  <2> QED
    BY <2>1, <2>2, <2>3, OneMoves DEF PlaceOK
<1>7. CASE socketOf' = [socketOf EXCEPT ![s] = s] /\ UNCHANGED <<posted, destroyed>>
  <2>1. socketOf'[s] = s /\ \A r \in Sockets \ {s} : socketOf'[r] = socketOf[r]
    BY <1>7, ThreadTypes
  <2>2. BoundOnce'
    BY <1>5, <2>1 DEF BoundOnce, Bound
  <2>3. \A k \in Sockets : Bound(k)' <=> Bound(k) \/ k = s
    BY <1>4, <2>1 DEF Bound
  <2>4. \A k \in Sockets \ {s} : SamePlace(k)
    BY <1>1, <1>2, <1>7, <2>3 DEF SamePlace
  <2>5. PlaceAt(s)'
    BY <1>1, <1>2, <1>5, <1>7, <2>3 DEF PlaceAt, Exclusive, Somewhere
  <2> QED
    BY <2>2, <2>4, <2>5, OneMoves DEF PlaceOK
<1> QED
  BY <1>6, <1>7, CreatedIn, InvSessions

\* RemoveSession destroys the socket of the session, if there is one.
LEMMA RemovePlaces ==
  ASSUME Inv, PlaceOK, NEW t \in Locals, NEW s \in Sockets, RemoveSession(t, s),
         \A k \in Sockets : InCommand(k)' <=> InCommand(k),
         UNCHANGED <<stopping, apc, incoming, accepted>>
  PROVE  PlaceOK'
<1> USE NoneAssumption
<1>1. /\ socketOf' = [socketOf EXCEPT ![s] = None] /\ posted' = posted
      /\ destroyed' = IF socketOf[s] = None THEN destroyed ELSE destroyed \cup {socketOf[s]}
  BY RemovedFrom, InvSessions
<1>2. socketOf'[s] = None /\ \A r \in Sockets \ {s} : socketOf'[r] = socketOf[r]
  BY <1>1, ThreadTypes
<1>3. BoundOnce /\ BoundOnce'
  BY <1>2 DEF PlaceOK, BoundOnce
<1>4. PICK x : x = socketOf[s]
  OBVIOUS
<1>5. \A k \in Sockets : Bound(k)' <=> Bound(k) /\ k # x
  BY <1>2, <1>3, <1>4 DEF Bound, BoundOnce
<1>6. \A k \in Sockets \ {x} : SamePlace(k)
  BY <1>1, <1>4, <1>5 DEF SamePlace
<1>7. ASSUME x \in Sockets PROVE PlaceAt(x)'
  <2>1. x # None /\ Bound(x) /\ PlaceAt(x)
    BY <1>4, <1>7 DEF Bound, PlaceOK
  <2>2. x \in destroyed' /\ ~Bound(x)'
    BY <1>1, <1>4, <1>5, <1>7, <2>1
  <2> QED
    BY <1>1, <1>7, <2>1, <2>2 DEF PlaceAt, Exclusive, Somewhere
<1> QED
  BY <1>3, <1>6, <1>7, OneMoves DEF PlaceOK

\* Steps that move no socket.
LEMMA NoneMoves ==
  ASSUME PlaceOK, stopping' = stopping, apc' \in {"route", "push"} <=> apc \in {"route", "push"},
         \A k \in Sockets : InCommand(k)' <=> InCommand(k),
         UNCHANGED <<incoming, socketOf, posted, destroyed, accepted>>
  PROVE  PlaceOK'
<1>1. BoundOnce'
  BY DEF PlaceOK, BoundOnce
<1>2. \A k \in Sockets : SamePlace(k)
  BY DEF SamePlace, Bound
<1> QED
  BY <1>1, <1>2, NoneAssumption, OneMoves DEF PlaceOK

LEMMA AcceptPlaces == ASSUME Inv, PlaceOK, OnAccept \/ AcceptHandler PROVE PlaceOK'
<1> USE NoneAssumption DEF mainVars, slotVars, sessionVars
<1>1. UNCHANGED <<stopping, socketOf, posted>>
  BY DEF OnAccept, AcceptHandler, OnAborted, Scan, Route, PostCreateSession, DoAccept
<1>2. BoundOnce' /\ \A k \in Sockets : Bound(k)' <=> Bound(k)
  BY <1>1 DEF PlaceOK, BoundOnce, Bound
<1>3. ASSUME UNCHANGED queue PROVE \A k \in Sockets : InCommand(k)' <=> InCommand(k)
  BY <1>3 DEF InCommand, Creates
<1>4. apc \in {"route", "push"} => incoming \in Sockets /\ PlaceAt(incoming)
  BY DEF Inv, IncomingOK, PlaceOK
<1>5. CASE OnAccept
  <2>1. apc = "waiting" /\ incoming = None /\ UNCHANGED <<queue, destroyed>>
    BY <1>5 DEF OnAccept, PlaceOK
  <2>2. CASE apc' = "again" /\ UNCHANGED <<incoming, accepted>>
    BY <1>1, <1>3, <2>1, <2>2, NoneMoves
  <2>3. ASSUME NEW k \in Sockets \ accepted, incoming' = k, accepted' = accepted \cup {k}, apc' = "route"
        PROVE  PlaceOK'
    <3>1. \A r \in Sockets \ {k} : SamePlace(r)
      BY <1>1, <1>2, <1>3, <2>1, <2>3 DEF SamePlace
    <3>2. ~Somewhere(k)
      BY <2>3 DEF PlaceOK, PlaceAt
    <3>3. PlaceAt(k)'
      BY <1>1, <1>2, <1>3, <2>1, <2>3, <3>2 DEF PlaceAt, Exclusive, Somewhere
    <3> QED
      BY <1>1, <1>2, <2>3, <3>1, <3>3, OneMoves
  <2> QED
    BY <1>5, <2>2, <2>3 DEF OnAccept
<1>6. CASE Route
  <2>1. apc = "route" /\ UNCHANGED <<queue, accepted>>
    BY <1>6 DEF Route
  <2>2. CASE apc' = "push" /\ UNCHANGED <<destroyed, incoming>>
    BY <1>1, <1>3, <2>1, <2>2, NoneMoves
  <2>3. CASE destroyed' = destroyed \cup {incoming} /\ incoming' = None /\ apc' = "again"
    <3>1. PICK k \in Sockets : k = incoming /\ PlaceAt(k)
      BY <1>4, <2>1
    <3>2. \A r \in Sockets \ {k} : SamePlace(r)
      BY <1>1, <1>2, <1>3, <2>1, <2>3, <3>1 DEF SamePlace
    <3>3. PlaceAt(k)'
      BY <1>1, <1>2, <1>3, <2>1, <2>3, <3>1 DEF PlaceAt, Exclusive, Somewhere
    <3> QED
      BY <1>1, <1>2, <2>3, <3>2, <3>3, OneMoves
  <2> QED
    BY <1>6, <2>2, <2>3 DEF Route
<1>7. CASE PostCreateSession
  <2>1. /\ apc = "push" /\ incoming' = None /\ apc' = "again" /\ accepted' = accepted
        /\ destroyed' = IF queue' = queue THEN destroyed \cup {incoming} ELSE destroyed
    BY <1>7 DEF PostCreateSession
  <2>2. PICK k \in Sockets : k = incoming /\ PlaceAt(k)
    BY <1>4, <2>1
  <2>3. \A r \in Sockets : InCommand(r)' <=> InCommand(r) \/ (r = k /\ queue' # queue)
    <3> DEFINE c == [type |-> "create", id |-> k]
    <3>1. c \in Command /\ c.type = "create" /\ c.id = k
      BY DEF Command
    <3>2. queue' = Pushed(scan.best, c) /\ scan.best \in Locals
      BY <1>7, <2>2 DEF PostCreateSession, Inv, TypeOK
    <3> HIDE DEF c
    <3> QED
      BY <3>1, <3>2, PushedCreates, ThreadTypes
  <2>4. \A r \in Sockets \ {k} : SamePlace(r)
    BY <1>1, <1>2, <2>1, <2>2, <2>3 DEF SamePlace
  <2>5. PlaceAt(k)'
    BY <1>1, <1>2, <2>1, <2>2, <2>3 DEF PlaceAt, Exclusive, Somewhere
  <2> QED
    BY <1>1, <1>2, <2>1, <2>4, <2>5, OneMoves
<1>8. CASE OnAborted \/ Scan \/ DoAccept
  <2>1. /\ UNCHANGED <<queue, incoming, accepted, destroyed>>
        /\ apc' \in {"route", "push"} <=> apc \in {"route", "push"}
    BY <1>8 DEF OnAborted, Scan, DoAccept
  <2> QED
    BY <1>1, <1>3, <2>1, NoneMoves
<1> QED
  BY <1>5, <1>6, <1>7, <1>8 DEF AcceptHandler

LEMMA HandlerPlaces ==
  ASSUME Inv, PlaceOK, (\E s \in Sockets : OnSocketDisconnected(s)) \/ DestroyPosted PROVE PlaceOK'
<1> USE NoneAssumption DEF mainVars, acceptVars
<1>1. UNCHANGED <<stopping, apc, incoming, accepted, queue>>
  BY DEF OnSocketDisconnected, DestroyPosted
<1>2. \A k \in Sockets : InCommand(k)' <=> InCommand(k)
  BY <1>1 DEF InCommand, Creates
<1>3. ASSUME NEW s \in Sockets, OnSocketDisconnected(s) PROVE PlaceOK'
  <2>1. PICK x \in Sockets : x = socketOf[s]
    BY <1>3, ThreadTypes DEF OnSocketDisconnected
  <2>2. /\ posted' = posted \cup {x} /\ destroyed' = destroyed
        /\ socketOf'[s] = None /\ \A r \in Sockets \ {s} : socketOf'[r] = socketOf[r]
    BY <1>3, <2>1, ThreadTypes DEF OnSocketDisconnected
  <2>3. BoundOnce /\ BoundOnce'
    BY <2>2 DEF PlaceOK, BoundOnce
  <2>4. \A k \in Sockets : Bound(k)' <=> Bound(k) /\ k # x
    BY <2>1, <2>2, <2>3 DEF Bound, BoundOnce
  <2>5. \A k \in Sockets \ {x} : SamePlace(k)
    BY <1>1, <1>2, <2>2, <2>4 DEF SamePlace
  <2>6. Bound(x) /\ PlaceAt(x)
    BY <2>1 DEF Bound, PlaceOK
  <2>7. PlaceAt(x)'
    BY <1>1, <1>2, <2>2, <2>4, <2>6 DEF PlaceAt, Exclusive, Somewhere
  <2> QED
    BY <1>1, <2>3, <2>5, <2>7, OneMoves DEF PlaceOK
<1>4. CASE DestroyPosted
  <2>1. PICK x \in posted : posted' = posted \ {x} /\ destroyed' = destroyed \cup {x}
    BY <1>4 DEF DestroyPosted
  <2>2. BoundOnce' /\ \A k \in Sockets : Bound(k)' <=> Bound(k)
    BY <1>4 DEF DestroyPosted, PlaceOK, BoundOnce, Bound
  <2>3. \A k \in Sockets \ {x} : SamePlace(k)
    BY <1>1, <1>2, <2>1, <2>2 DEF SamePlace
  <2>4. ASSUME x \in Sockets PROVE PlaceAt(x)'
    <3>1. PlaceAt(x)
      BY <2>4 DEF PlaceOK
    <3> QED
      BY <1>1, <1>2, <2>1, <2>2, <2>4, <3>1 DEF PlaceAt, Exclusive, Somewhere
  <2> QED
    BY <1>1, <2>2, <2>3, <2>4, OneMoves DEF PlaceOK
<1> QED
  BY <1>3, <1>4

LEMMA LocalPlaces ==
  ASSUME Inv, FreshOK, VisitOK, RemovalOK, PlaceOK, NEW t \in Locals, LocalThread(t) PROVE PlaceOK'
<1> USE NoneAssumption DEF mainVars, acceptVars, slotVars, sessionVars, walkVars
<1>1. UNCHANGED <<stopping, apc, incoming, accepted>>
  BY DEF LocalThread, Tick, ProcessCommands, ProcessSessions, ProcessSessionPackets
<1>2. ASSUME UNCHANGED queue PROVE \A k \in Sockets : InCommand(k)' <=> InCommand(k)
  BY <1>2 DEF InCommand, Creates
<1>3. CASE Tick(t)
  BY <1>1, <1>2, <1>3, NoneMoves DEF Tick
<1>4. CASE ProcessCommands(t)
  <2>1. CASE queue[t] = <<>>
    BY <1>1, <1>2, <1>4, <2>1, NoneMoves DEF ProcessCommands
  <2>2. CASE queue[t] # <<>>
    <3> DEFINE command == Head(queue[t])
    <3>1. queue' = [queue EXCEPT ![t] = Tail(@)]
      BY <1>4, <2>2 DEF ProcessCommands
    <3>2. command = queue[t][1] /\ 1 \in DOMAIN queue[t] /\ command \in Command
      BY <2>2, <3>1, PoppedCommands, ThreadTypes
    <3> HIDE DEF command
    <3>3. ASSUME command.type # "create" PROVE \A k \in Sockets : InCommand(k)' <=> InCommand(k)
      BY <2>2, <3>1, <3>2, <3>3, PoppedCreates, ThreadTypes DEF Creates
    <3>4. CASE command.type = "create" /\ CreateSession(t, command.id)
      <4>1. command.id \in Sockets /\ Creates(t, 1, command.id)
        BY <3>2, <3>4 DEF Command, Creates
      <4> QED
        BY <1>1, <2>2, <3>1, <3>4, <4>1, CreatePlaces
    <3>5. CASE command.type = "remove" /\ RemoveSession(t, command.id)
      <4>1. command.id \in Sockets
        BY <3>2, <3>5 DEF Command
      <4> QED
        BY <1>1, <3>3, <3>5, <4>1, RemovePlaces
    <3>6. CASE command.type = "shutdown" /\ UNCHANGED <<slotVars, sessionVars>>
      BY <1>1, <3>3, <3>6, NoneMoves
    <3> QED
      BY <1>4, <2>2, <3>4, <3>5, <3>6 DEF ProcessCommands, command
  <2> QED
    BY <2>1, <2>2
<1>5. CASE ProcessSessions(t)
  <2>1. \A k \in Sockets : InCommand(k)' <=> InCommand(k)
    BY <1>2, <1>5 DEF ProcessSessions
  <2>2. CASE UNCHANGED sessionVars
    BY <1>1, <2>1, <2>2, NoneMoves
  <2>3. ASSUME NEW s, RemoveSession(t, s) PROVE PlaceOK'
    <3>1. s \in Sockets
      BY <2>3, IdsType, InvSessions DEF RemoveSession
    <3> QED
      BY <1>1, <2>1, <2>3, <3>1, RemovePlaces
  <2> QED
    BY <1>5, <2>2, <2>3 DEF ProcessSessions, Visit
<1>6. CASE ProcessSessionPackets(t)
  <2>1. CASE UNCHANGED <<queue, socketOf, posted, destroyed>>
    BY <1>1, <1>2, <2>1, NoneMoves
  <2>2. CASE Restore(t, current[t])
    <3>1. PICK s \in Sockets : s = current[t]
      BY <1>6 DEF ProcessSessionPackets, Inv, WalkOK, WalkAt
    <3>2. PICK old \in Sockets : /\ state[old] = "TempDisconnect"
                                 /\ socketOf' = [socketOf EXCEPT ![s] = None, ![old] = socketOf[s]]
      BY <2>2, <3>1 DEF Restore
    <3>3. queue' = Pushed(t, [type |-> "remove", id |-> s]) /\ socketOf[s] # None
          /\ UNCHANGED <<posted, destroyed>>
      BY <2>2, <3>1 DEF Restore
    <3>4. socketOf[old] = None /\ old # s
      BY <3>2, <3>3 DEF RemovalOK, BoundAlive
    <3>5. /\ socketOf'[s] = None /\ socketOf'[old] = socketOf[s]
          /\ \A r \in Sockets \ {s, old} : socketOf'[r] = socketOf[r]
      BY <3>2, <3>4, ThreadTypes
    <3>6. BoundOnce'
      BY <3>4, <3>5 DEF PlaceOK, BoundOnce
    <3>7. \A k \in Sockets : Bound(k)' <=> Bound(k)
      BY <3>4, <3>5 DEF Bound
    <3>8. [type |-> "remove", id |-> s] \in Command /\ [type |-> "remove", id |-> s].type # "create"
      BY DEF Command
    <3>9. \A k \in Sockets : InCommand(k)' <=> InCommand(k)
      BY <3>3, <3>8, PushedCreates, ThreadTypes
    <3>10. \A k \in Sockets : SamePlace(k)
      BY <1>1, <3>3, <3>7, <3>9 DEF SamePlace
    <3> QED
      BY <1>1, <3>6, <3>10, OneMoves DEF PlaceOK
  <2> QED
    BY <1>6, <2>1, <2>2 DEF ProcessSessionPackets, Refuse
<1> QED
  BY <1>3, <1>4, <1>5, <1>6 DEF LocalThread

LEMMA MainPlaces == ASSUME Inv, PlaceOK, StopListener \/ Main \/ UNCHANGED vars PROVE PlaceOK'
<1> USE NoneAssumption DEF mainVars, acceptVars, threadVars, walkVars, slotVars, sessionVars
<1>1. UNCHANGED <<apc, incoming, accepted, posted, destroyed>>
  BY DEF StopListener, Main, StopThread, JoinThread, CleanSessions, StopIo, JoinIo, ShutdownPool, vars
<1>2. \A k \in Sockets : InCommand(k)' <=> InCommand(k)
  <2>1. CASE UNCHANGED queue
    BY <2>1 DEF InCommand, Creates
  <2>2. CASE StopThread
    <3>1. /\ stopping \in Locals /\ [type |-> "shutdown"] \in Command
          /\ [type |-> "shutdown"].type # "create"
      BY <2>2 DEF StopThread, Inv, StopOK, Command
    <3> QED
      BY <2>2, <3>1, PushedCreates, ThreadTypes DEF StopThread
  <2> QED
    BY <2>1, <2>2 DEF StopListener, Main, JoinThread, CleanSessions, StopIo, JoinIo, ShutdownPool, vars
<1>3. CASE CleanSessions
  <2>1. \A s \in Sockets : socketOf'[s] = socketOf[s] \/ socketOf'[s] = None
    BY <1>3 DEF CleanSessions
  <2>2. BoundOnce' /\ \A k \in Sockets : Bound(k)' => Bound(k)
    BY <2>1 DEF PlaceOK, BoundOnce, Bound
  <2>3. stopping' # 1
    BY <1>3, CountAssumption DEF CleanSessions, Inv, TypeOK
  <2>4. ASSUME NEW k \in Sockets PROVE PlaceAt(k)'
    <3>1. PlaceAt(k)
      BY DEF PlaceOK
    <3> QED
      BY <1>1, <1>2, <2>2, <2>3, <3>1 DEF PlaceAt, Exclusive, Somewhere
  <2> QED
    BY <1>1, <2>2, <2>4 DEF PlaceOK
<1>4. CASE StopListener \/ StopThread \/ JoinThread \/ StopIo \/ JoinIo \/ ShutdownPool \/ UNCHANGED vars
  <2>1. UNCHANGED <<stopping, socketOf>>
    BY <1>4 DEF StopListener, StopThread, JoinThread, StopIo, JoinIo, ShutdownPool, vars
  <2> QED
    BY <1>1, <1>2, <2>1, NoneMoves
<1> QED
  BY <1>3, <1>4 DEF Main

LEMMA PlaceStep ==
  ASSUME Inv, FreshOK, VisitOK, RemovalOK, PlaceOK, [Next]_vars PROVE PlaceOK'
  BY AcceptPlaces, HandlerPlaces, LocalPlaces, MainPlaces DEF Next

LEMMA PlaceInit == Init => PlaceOK
<1> SUFFICES ASSUME Init PROVE PlaceOK
  OBVIOUS
<1>1. \A t \in Locals, n \in Nat : n \notin DOMAIN queue[t]
  BY DEF Init
<1>2. \A k \in Sockets : ~Somewhere(k)
  BY <1>1, NoneAssumption DEF Init, Somewhere, InCommand, Creates, Bound
<1> QED
  BY <1>2 DEF Init, PlaceOK, BoundOnce, PlaceAt, Exclusive, Somewhere

\* A set whose elements are all equal.
LEMMA AtMostOne ==
  ASSUME NEW S, \A x, y \in S : x = y
  PROVE  Cardinality(S) = IF S = {} THEN 0 ELSE 1
<1>1. CASE S = {}
  BY <1>1, FS_EmptySet
<1>2. CASE S # {}
  <2>1. PICK x \in S : S = {x}
    BY <1>2
  <2> QED
    BY <1>2, <2>1, FS_Singleton
<1> QED
  BY <1>1, <1>2

LEMMA QueuedOnce ==
  ASSUME Inv, FreshOK, NEW k \in Sockets
  PROVE  Cardinality(Queued(k)) = IF InCommand(k) THEN 1 ELSE 0
<1>1. \A t \in Locals : t \in Queued(k) <=> \E n \in Nat : Creates(t, n, k)
  <2> SUFFICES ASSUME NEW t \in Locals PROVE t \in Queued(k) <=> \E n \in Nat : Creates(t, n, k)
    OBVIOUS
  <2>1. queue[t] \in Seq(Command)
    BY ThreadTypes
  <2>2. \A n \in DOMAIN queue[t] : n \in Nat /\ queue[t][n] \in Command
    BY <2>1
  <2>3. \A c \in Command : c = [type |-> "create", id |-> k] <=> c.type = "create" /\ c.id = k
    BY DEF Command
  <2> QED
    BY <2>2, <2>3 DEF Queued, Creates
<1>2. Queued(k) \subseteq Locals
  BY DEF Queued
<1>3. \A t, u \in Queued(k) : t = u
  BY <1>1, <1>2 DEF FreshOK
<1>4. Queued(k) = {} <=> ~InCommand(k)
  BY <1>1, <1>2 DEF InCommand
<1> QED
  BY <1>3, <1>4, AtMostOne

\* From the moment it is accepted until it is destroyed a socket is in one place: with the
\* accept handler (NetworkManager, CListener::OnAccept), in a command of a local thread, bound
\* to a session, or posted to be destroyed.  So none is destroyed twice and, until a local
\* thread is stopped, none is leaked: neither a full queue, nor a full thread, nor a login that
\* moves a socket from one session to another, in whatever order they happen.
THEOREM SocketsAreNotLeaked == Spec => []SocketInOnePlace
<1>1. Inv /\ FreshOK /\ PlaceOK => SocketInOnePlace
  <2> SUFFICES ASSUME Inv, FreshOK, PlaceOK, NEW k \in accepted
               PROVE  Holders(k) = 1 \/ (Holders(k) = 0 /\ stopping > 1)
    BY DEF SocketInOnePlace
  <2> DEFINE B == {s \in Sockets : socketOf[s] = k}
             E == {x \in {"incoming", "posted", "destroyed"} :
                     \/ x = "incoming" /\ incoming = k
                     \/ x = "posted" /\ k \in posted
                     \/ x = "destroyed" /\ k \in destroyed}
  <2>1. k \in Sockets /\ k # None
    BY NoneAssumption DEF Inv, TypeOK
  <2>2. PlaceAt(k) /\ BoundOnce
    BY <2>1 DEF PlaceOK
  <2>3. Cardinality(B) = IF Bound(k) THEN 1 ELSE 0
    <3>1. \A r, s \in B : r = s
      BY <2>1, <2>2 DEF BoundOnce
    <3>2. B = {} <=> ~Bound(k)
      BY DEF Bound
    <3> HIDE DEF B
    <3> QED
      BY <3>1, <3>2, AtMostOne
  <2>4. Cardinality(E) = IF incoming = k \/ k \in posted \/ k \in destroyed THEN 1 ELSE 0
    <3>1. \A x, y \in E : x = y
      BY <2>2 DEF PlaceAt, Exclusive
    <3>2. E = {} <=> ~(incoming = k \/ k \in posted \/ k \in destroyed)
      <4>1. /\ "incoming" \in E <=> incoming = k
            /\ "posted" \in E <=> k \in posted
            /\ "destroyed" \in E <=> k \in destroyed
        OBVIOUS
      <4>2. \A x \in E : x \in {"incoming", "posted", "destroyed"}
        OBVIOUS
      <4> HIDE DEF E
      <4> QED
        BY <4>1, <4>2
    <3> HIDE DEF E
    <3> QED
      BY <3>1, <3>2, AtMostOne
  <2>5. Holders(k) = Cardinality(Queued(k)) + Cardinality(B) + Cardinality(E)
    BY DEF Holders
  <2>6. Cardinality(Queued(k)) = IF InCommand(k) THEN 1 ELSE 0
    BY <2>1, QueuedOnce
  <2>7. stopping \in Int /\ stopping >= 1
    BY CountAssumption DEF Inv, TypeOK
  <2> HIDE DEF B, E
  <2>8. CASE Somewhere(k)
    <3>1. Holders(k) = 1
      BY <2>2, <2>3, <2>4, <2>5, <2>6, <2>8 DEF PlaceAt, Exclusive, Somewhere
    <3> QED
      BY <3>1
  <2>9. CASE ~Somewhere(k)
    <3>1. Holders(k) = 0
      BY <2>3, <2>4, <2>5, <2>6, <2>9 DEF Somewhere
    <3>2. stopping # 1
      BY <2>2, <2>9 DEF PlaceAt
    <3> QED
      BY <2>7, <3>1, <3>2
  <2> QED
    BY <2>8, <2>9
<1>2. Inv /\ FreshOK /\ VisitOK /\ RemovalOK /\ PlaceOK /\ [Next]_vars => PlaceOK'
  BY PlaceStep
<1> QED
  BY <1>1, <1>2, PlaceInit, VisitInvariance, RemovalInvariance, PTL DEF Spec

================================================================================
