------------------------------ MODULE ServerProofs ------------------------------
(* For any number of local threads, slots and connections: the array of active sessions *)
(* of a thread stays exact, and a server that has stopped has nothing left to do.       *)
EXTENDS Server, FiniteSetTheorems, WellFoundedInduction, TLAPS

\* The accept handler has a socket while it routes one.
IncomingOK == apc \in {"route", "push"} => incoming \in Sockets

\* The walk of a tick never stands behind the last active session.
WalkAt(t) ==
  /\ lpc[t] \in {"sessions", "packets"} => index[t] <= Len(active[t])
  /\ lpc[t] = "packets" => current[t] \in Sockets
WalkOK == \A t \in Locals : WalkAt(t)

\* A session with a state or a socket is in some slot.
Owned ==
  \A s \in Sockets :
    state[s] # "None" \/ socketOf[s] # None => \E t \in Locals, i \in Slots : slot[t][i] = s

\* How far main has stopped the server.
StopOK ==
  /\ main \in {"run", "stop", "join", "clean"} => stopping \in Locals
  /\ main = "clean" => lpc[stopping] = "ended"
  /\ main \in {"stopIo", "joinIo", "pool", "done"} => stopping = LocalThreadCount + 1
  /\ main \in {"joinIo", "pool", "done"} => ~ioRunning
  /\ main \in {"pool", "done"} => apc \in {"waiting", "stopped"}
  /\ \A t \in 1 .. stopping - 1 :
       lpc[t] = "ended" /\ active[t] = <<>> /\ \A i \in Slots : slot[t][i] = None

Inv == TypeOK /\ ActiveAreUsed /\ IncomingOK /\ WalkOK /\ Owned /\ StopOK

--------------------------------------------------------------------------------
(* The array of active sessions                                                   *)

\* A sequence that names each element of a set once.
Lists(q, S) ==
  /\ \A m, n \in DOMAIN q : q[m] = q[n] => m = n
  /\ {q[n] : n \in DOMAIN q} = S

LEMMA AppendLists ==
  ASSUME NEW S, NEW q \in Seq(S), NEW T, Lists(q, T), NEW x \in S, x \notin T
  PROVE  Append(q, x) \in Seq(S) /\ Len(Append(q, x)) = Len(q) + 1 /\ Lists(Append(q, x), T \cup {x})
<1> DEFINE r == Append(q, x)
<1>1. r \in Seq(S) /\ Len(r) = Len(q) + 1 /\ DOMAIN r = 1 .. Len(q) + 1
  OBVIOUS
<1>2. r[Len(q) + 1] = x /\ \A n \in 1 .. Len(q) : r[n] = q[n] /\ q[n] \in T
  BY DEF Lists
<1>3. DOMAIN q = 1 .. Len(q) /\ Len(q) \in Nat
  OBVIOUS
<1> HIDE DEF r
<1>4. \A m, n \in DOMAIN r : r[m] = r[n] => m = n
  BY <1>1, <1>2, <1>3 DEF Lists
<1>5. {r[n] : n \in DOMAIN r} = T \cup {x}
  <2>1. \A y \in T : \E n \in DOMAIN r : r[n] = y
    BY <1>1, <1>2, <1>3 DEF Lists
  <2>2. \A n \in DOMAIN r : r[n] \in T \cup {x}
    BY <1>1, <1>2, <1>3
  <2>3. Len(q) + 1 \in DOMAIN r
    BY <1>1, <1>3
  <2> QED
    BY <2>1, <2>2, <2>3, <1>2
<1> QED
  BY <1>1, <1>4, <1>5 DEF Lists, r

\* RemoveSession moves the last element into the gap.
LEMMA SwapRemoveLists ==
  ASSUME NEW S, NEW q \in Seq(S), NEW T, Lists(q, T), NEW n \in DOMAIN q
  PROVE  /\ SwapRemove(q, n) \in Seq(S) /\ Len(SwapRemove(q, n)) = Len(q) - 1
         /\ Lists(SwapRemove(q, n), T \ {q[n]})
<1> DEFINE r == SwapRemove(q, n)
           last == Len(q)
<1>1. DOMAIN q = 1 .. last /\ last \in Nat /\ last >= 1 /\ n \in 1 .. last
  OBVIOUS
<1>2. [q EXCEPT ![n] = q[Len(q)]] \in Seq(S) /\ Len([q EXCEPT ![n] = q[Len(q)]]) = Len(q)
  BY <1>1
<1>3. r \in Seq(S) /\ Len(r) = last - 1
  BY <1>1, <1>2 DEF SwapRemove
<1>4. \A m \in 1 .. last - 1 : r[m] = IF m = n THEN q[last] ELSE q[m]
  BY <1>1, <1>2 DEF SwapRemove
<1>5. DOMAIN r = 1 .. last - 1
  BY <1>1, <1>3
<1> HIDE DEF r, last
<1>6. \A m, k \in DOMAIN r : r[m] = r[k] => m = k
  BY <1>1, <1>4, <1>5 DEF Lists
<1>7. {r[m] : m \in DOMAIN r} = T \ {q[n]}
  <2>1. \A m \in DOMAIN r : r[m] \in T \ {q[n]}
    BY <1>1, <1>4, <1>5 DEF Lists
  <2>2. ASSUME NEW y \in T \ {q[n]} PROVE \E m \in DOMAIN r : r[m] = y
    <3>1. PICK k \in 1 .. last : q[k] = y
      BY <1>1 DEF Lists
    <3>2. CASE k = last
      BY <3>1, <3>2, <2>2, <1>1, <1>4, <1>5
    <3>3. CASE k # last
      BY <3>1, <3>3, <2>2, <1>1, <1>4, <1>5
    <3> QED
      BY <3>2, <3>3
  <2> QED
    BY <2>1, <2>2
<1> QED
  BY <1>3, <1>6, <1>7 DEF Lists, r, last

LEMMA LessIsWellFounded == IsWellFoundedOn({ss \in Nat \X Nat : ss[1] < ss[2]}, Nat)
  BY NatLessThanWellFounded DEF OpToRel

\* A thread that is not full has a free slot, and so a first one.
LEMMA FirstFree ==
  ASSUME NEW f \in [Slots -> Sockets \cup {None}], NEW q \in Seq(Slots),
         Lists(q, {i \in Slots : f[i] # None}), Len(q) < MaxSessions
  PROVE  LET i == CHOOSE j \in Slots : f[j] = None /\ \A h \in 1 .. j - 1 : f[h] # None
         IN  i \in Slots /\ f[i] = None
<1> USE CountAssumption DEF Slots
<1> DEFINE free == {i \in Slots : f[i] = None}
<1>1. free # {}
  <2> SUFFICES ASSUME free = {} PROVE FALSE
    OBVIOUS
  <2>1. {q[n] : n \in DOMAIN q} = Slots
    BY DEF Lists
  <2>2. q \in [1 .. Len(q) -> Slots] /\ DOMAIN q = 1 .. Len(q)
    OBVIOUS
  <2>3. q \in Surjection(1 .. Len(q), Slots)
    <3>1. \A i \in Slots : \E n \in 1 .. Len(q) : q[n] = i
      BY <2>1, <2>2
    <3> QED
      BY <2>2, <3>1 DEF Surjection
  <2>4. Cardinality(Slots) <= Len(q)
    BY <2>3, FS_SurjCardinalityBound DEF ExistsSurjection
  <2>5. Cardinality(Slots) = MaxSessions
    BY FS_Interval
  <2> QED
    BY <2>4, <2>5
<1> DEFINE R == {ss \in Nat \X Nat : ss[1] < ss[2]}
<1>2. PICK i \in free : \A j \in free : ~(<<j, i>> \in R)
  <2>1. free \subseteq Nat
    OBVIOUS
  <2>2. IsWellFoundedOn(R, Nat)
    BY LessIsWellFounded
  <2> HIDE DEF free, R
  <2> QED
    BY <1>1, <2>1, <2>2, WFMin
<1>3. \A j \in free : ~(j < i)
  <2> SUFFICES ASSUME NEW j \in free, j < i PROVE FALSE
    OBVIOUS
  <2>1. <<j, i>> \in Nat \X Nat /\ <<j, i>>[1] < <<j, i>>[2]
    OBVIOUS
  <2>2. <<j, i>> \in R
    BY <2>1, Zenon
  <2> QED
    BY <1>2, <2>2, Zenon
<1>4. \E j \in Slots : f[j] = None /\ \A h \in 1 .. j - 1 : f[h] # None
  BY <1>3
<1> QED
  BY <1>4, Zenon
--------------------------------------------------------------------------------
(* Creating and removing a session                                                *)

Used(t) == {i \in Slots : slot[t][i] # None}

\* What a change of the sessions has to keep.
SessionsOK ==
  /\ slot \in [Locals -> [Slots -> Sockets \cup {None}]]
  /\ active \in [Locals -> Seq(Slots)] /\ \A t \in Locals : Len(active[t]) <= MaxSessions
  /\ count \in [Locals -> 0 .. MaxSessions]
  /\ state \in [Sockets -> {"None", "Active", "TempDisconnect", "Closed"}]
  /\ socketOf \in [Sockets -> Sockets \cup {None}]
  /\ posted \subseteq Sockets /\ destroyed \subseteq Sockets
  /\ ActiveAreUsed /\ Owned

\* Only the sessions of thread t change.
OnlyOf(t) == \A u \in Locals \ {t} : active'[u] = active[u] /\ slot'[u] = slot[u]

LEMMA ActiveLists ==
  ActiveAreUsed <=> \A t \in Locals : Lists(active[t], Used(t)) /\ count[t] = Len(active[t])
  BY DEF ActiveAreUsed, Lists, Used

LEMMA ActiveListsNext ==
  ActiveAreUsed' <=> \A t \in Locals : Lists(active'[t], Used(t)') /\ count'[t] = Len(active'[t])
  BY DEF ActiveAreUsed, Lists, Used

LEMMA CreateSessionStep ==
  ASSUME SessionsOK, NEW t \in Locals, NEW s \in Sockets, CreateSession(t, s)
  PROVE  SessionsOK' /\ OnlyOf(t)
<1> USE CountAssumption, NoneAssumption
<1>1. CASE count[t] >= MaxSessions
  BY <1>1 DEF CreateSession, slotVars, SessionsOK, ActiveAreUsed, Owned, OnlyOf
<1>2. CASE ~(count[t] >= MaxSessions)
  <2> DEFINE i == CHOOSE j \in Slots : slot[t][j] = None /\ \A h \in 1 .. j - 1 : slot[t][h] # None
  <2>1. Lists(active[t], Used(t)) /\ count[t] = Len(active[t])
    BY ActiveLists DEF SessionsOK
  <2>2. /\ slot[t] \in [Slots -> Sockets \cup {None}] /\ active[t] \in Seq(Slots)
        /\ Len(active[t]) < MaxSessions /\ Len(active[t]) \in Nat
    BY <2>1, <1>2 DEF SessionsOK, Slots
  <2>3. i \in Slots /\ slot[t][i] = None
    <3>1. Lists(active[t], {j \in Slots : slot[t][j] # None})
      BY <2>1 DEF Used
    <3> HIDE DEF i
    <3> QED
      BY <3>1, <2>2, FirstFree DEF i
  <2>4. /\ slot' = [slot EXCEPT ![t][i] = s]
        /\ active' = [active EXCEPT ![t] = Append(@, i)]
        /\ count' = [count EXCEPT ![t] = @ + 1]
        /\ state' = [state EXCEPT ![s] = "Active"]
        /\ socketOf' = [socketOf EXCEPT ![s] = s]
        /\ UNCHANGED <<posted, destroyed>>
    BY <1>2 DEF CreateSession
  <2> HIDE DEF i
  <2>5. /\ Append(active[t], i) \in Seq(Slots) /\ Len(Append(active[t], i)) = Len(active[t]) + 1
        /\ Lists(Append(active[t], i), Used(t) \cup {i})
    BY <2>1, <2>2, <2>3, AppendLists DEF Used
  <2>6. slot' \in [Locals -> [Slots -> Sockets \cup {None}]]
    BY <2>3, <2>4 DEF SessionsOK
  <2>7. /\ slot'[t][i] = s /\ \A j \in Slots \ {i} : slot'[t][j] = slot[t][j]
        /\ \A u \in Locals \ {t} : slot'[u] = slot[u]
    BY <2>2, <2>3, <2>4 DEF SessionsOK
  <2>8. /\ active'[t] = Append(active[t], i) /\ count'[t] = count[t] + 1
        /\ \A u \in Locals \ {t} : active'[u] = active[u] /\ count'[u] = count[u]
    BY <2>4 DEF SessionsOK
  <2>9. active' \in [Locals -> Seq(Slots)] /\ count' \in [Locals -> 0 .. MaxSessions]
    BY <2>1, <2>2, <2>4, <2>5 DEF SessionsOK
  <2>10. \A u \in Locals : Len(active'[u]) <= MaxSessions
    <3>1. Len(active'[t]) = Len(active[t]) + 1
      BY <2>5, <2>8
    <3>2. Len(active'[t]) <= MaxSessions
      BY <3>1, <2>2
    <3> QED
      BY <3>2, <2>8 DEF SessionsOK
  <2>11. ActiveAreUsed'
    <3>1. Used(t)' = Used(t) \cup {i}
      BY <2>3, <2>7 DEF Used
    <3>2. \A u \in Locals \ {t} : Used(u)' = Used(u)
      BY <2>7 DEF Used
    <3>3. Lists(active'[t], Used(t)') /\ count'[t] = Len(active'[t])
      BY <3>1, <2>1, <2>5, <2>8
    <3>4. \A u \in Locals \ {t} : Lists(active'[u], Used(u)') /\ count'[u] = Len(active'[u])
      BY <3>2, <2>8, ActiveLists DEF SessionsOK
    <3> QED
      BY <3>3, <3>4, ActiveListsNext
  <2>12. Owned'
    <3> SUFFICES ASSUME NEW r \in Sockets, state'[r] # "None" \/ socketOf'[r] # None
                 PROVE  \E u \in Locals, j \in Slots : slot'[u][j] = r
      BY DEF Owned
    <3>1. CASE r = s
      BY <3>1, <2>3, <2>7
    <3>2. CASE r # s
      <4>1. PICK u \in Locals, j \in Slots : slot[u][j] = r
        BY <3>2, <2>4 DEF SessionsOK, Owned
      <4>2. slot'[u][j] = r
        BY <4>1, <2>3, <2>7
      <4> QED
        BY <4>2
    <3> QED
      BY <3>1, <3>2
  <2>13. /\ state' \in [Sockets -> {"None", "Active", "TempDisconnect", "Closed"}]
         /\ socketOf' \in [Sockets -> Sockets \cup {None}]
         /\ posted' \subseteq Sockets /\ destroyed' \subseteq Sockets
    BY <2>4 DEF SessionsOK
  <2> QED
    BY <2>6, <2>7, <2>8, <2>9, <2>10, <2>11, <2>12, <2>13 DEF SessionsOK, OnlyOf
<1> QED
  BY <1>1, <1>2

LEMMA RemoveSessionStep ==
  ASSUME SessionsOK, NEW t \in Locals, NEW s \in Sockets, RemoveSession(t, s)
  PROVE  SessionsOK' /\ OnlyOf(t) /\ Len(active'[t]) = Len(active[t]) - 1
<1> USE CountAssumption, NoneAssumption
<1> DEFINE n == CHOOSE m \in DOMAIN active[t] : slot[t][active[t][m]] = s
           i == active[t][n]
<1>1. Lists(active[t], Used(t)) /\ count[t] = Len(active[t])
  BY ActiveLists DEF SessionsOK
<1>2. slot[t] \in [Slots -> Sockets \cup {None}] /\ active[t] \in Seq(Slots)
  BY DEF SessionsOK
<1>3. n \in DOMAIN active[t] /\ slot[t][active[t][n]] = s
  BY DEF RemoveSession, Ids
<1>4. /\ destroyed' = IF socketOf[s] = None THEN destroyed ELSE destroyed \cup {socketOf[s]}
      /\ socketOf' = [socketOf EXCEPT ![s] = None]
      /\ state' = [state EXCEPT ![s] = "None"]
      /\ slot' = [slot EXCEPT ![t][i] = None]
      /\ active' = [active EXCEPT ![t] = SwapRemove(@, n)]
      /\ count' = [count EXCEPT ![t] = @ - 1]
      /\ posted' = posted
  BY DEF RemoveSession
<1> HIDE DEF n
<1>5. i \in Slots /\ slot[t][i] = s /\ Len(active[t]) \in Nat \ {0}
  BY <1>2, <1>3
<1>6. /\ SwapRemove(active[t], n) \in Seq(Slots) /\ Len(SwapRemove(active[t], n)) = Len(active[t]) - 1
      /\ Lists(SwapRemove(active[t], n), Used(t) \ {i})
  BY <1>1, <1>2, <1>3, SwapRemoveLists
<1> HIDE DEF i
<1>7. slot' \in [Locals -> [Slots -> Sockets \cup {None}]]
  BY <1>4, <1>5 DEF SessionsOK
<1>8. /\ slot'[t][i] = None /\ \A j \in Slots \ {i} : slot'[t][j] = slot[t][j]
      /\ \A u \in Locals \ {t} : slot'[u] = slot[u]
  BY <1>2, <1>4, <1>5 DEF SessionsOK
<1>9. /\ active'[t] = SwapRemove(active[t], n) /\ count'[t] = count[t] - 1
      /\ \A u \in Locals \ {t} : active'[u] = active[u] /\ count'[u] = count[u]
  BY <1>4 DEF SessionsOK
<1>10. active' \in [Locals -> Seq(Slots)] /\ count' \in [Locals -> 0 .. MaxSessions]
  <2>1. count[t] - 1 \in 0 .. MaxSessions
    BY <1>1, <1>5 DEF SessionsOK
  <2> QED
    BY <2>1, <1>4, <1>6 DEF SessionsOK
<1>11. \A u \in Locals : Len(active'[u]) <= MaxSessions
  BY <1>5, <1>6, <1>9 DEF SessionsOK
<1>12. ActiveAreUsed'
  <2>1. Used(t)' = Used(t) \ {i}
    BY <1>5, <1>8 DEF Used
  <2>2. \A u \in Locals \ {t} : Used(u)' = Used(u)
    BY <1>8 DEF Used
  <2>3. Lists(active'[t], Used(t)') /\ count'[t] = Len(active'[t])
    BY <2>1, <1>1, <1>6, <1>9
  <2>4. \A u \in Locals \ {t} : Lists(active'[u], Used(u)') /\ count'[u] = Len(active'[u])
    BY <2>2, <1>9, ActiveLists DEF SessionsOK
  <2> QED
    BY <2>3, <2>4, ActiveListsNext
<1>13. Owned'
  <2> SUFFICES ASSUME NEW r \in Sockets, state'[r] # "None" \/ socketOf'[r] # None
               PROVE  \E u \in Locals, j \in Slots : slot'[u][j] = r
    BY DEF Owned
  <2>1. r # s /\ (state[r] # "None" \/ socketOf[r] # None)
    BY <1>4 DEF SessionsOK
  <2>2. PICK u \in Locals, j \in Slots : slot[u][j] = r
    BY <2>1 DEF SessionsOK, Owned
  <2>3. slot'[u][j] = r
    BY <2>1, <2>2, <1>5, <1>8
  <2> QED
    BY <2>3
<1>14. /\ state' \in [Sockets -> {"None", "Active", "TempDisconnect", "Closed"}]
       /\ socketOf' \in [Sockets -> Sockets \cup {None}]
       /\ posted' \subseteq Sockets /\ destroyed' \subseteq Sockets
  BY <1>4 DEF SessionsOK
<1> QED
  BY <1>6, <1>7, <1>8, <1>9, <1>10, <1>11, <1>12, <1>13, <1>14 DEF SessionsOK, OnlyOf
LEMMA InvSessions == Inv => SessionsOK
  BY DEF Inv, TypeOK, SessionsOK

--------------------------------------------------------------------------------
(* The invariant                                                                  *)

LEMMA InitInv == Init => Inv
<1> SUFFICES ASSUME Init PROVE Inv
  OBVIOUS
<1> USE CountAssumption, NoneAssumption DEF Locals, Slots
<1>1. \A t \in Locals : active[t] = <<>> /\ Len(active[t]) = 0 /\ count[t] = 0
  BY DEF Init
<1>2. TypeOK
  <2>1. <<>> \in Seq(Slots) /\ <<>> \in Seq(Command) /\ Len(<<>>) = 0
    OBVIOUS
  <2>2. scan \in [next : 1 .. LocalThreadCount + 1, best : Locals, least : 0 .. MaxSessions]
    BY DEF Init
  <2> QED
    BY <2>1, <2>2, <1>1 DEF Init, TypeOK
<1>3. ActiveAreUsed
  BY <1>1 DEF Init, ActiveAreUsed
<1>4. IncomingOK /\ WalkOK /\ Owned /\ StopOK
  BY DEF Init, IncomingOK, WalkOK, WalkAt, Owned, StopOK
<1> QED
  BY <1>2, <1>3, <1>4 DEF Inv

LEMMA PushType ==
  ASSUME queue \in [Locals -> Seq(Command)], \A u \in Locals : Len(queue[u]) <= QueueSize,
         NEW t \in Locals, NEW c \in Command
  PROVE  /\ Pushed(t, c) \in [Locals -> Seq(Command)]
         /\ \A u \in Locals : Len(Pushed(t, c)[u]) <= QueueSize
<1>1. CASE Len(queue[t]) < QueueSize
  <2>1. /\ Append(queue[t], c) \in Seq(Command) /\ Len(Append(queue[t], c)) = Len(queue[t]) + 1
        /\ Len(queue[t]) \in Nat
    OBVIOUS
  <2>2. Len(Append(queue[t], c)) <= QueueSize
    BY <2>1, <1>1, CountAssumption
  <2> QED
    BY <2>1, <2>2, <1>1 DEF Pushed
<1>2. CASE ~(Len(queue[t]) < QueueSize)
  BY <1>2 DEF Pushed
<1> QED
  BY <1>1, <1>2

LEMMA AcceptStep == ASSUME Inv, OnAccept \/ AcceptHandler PROVE Inv'
<1> USE CountAssumption, NoneAssumption
<1> USE DEF slotVars, sessionVars, threadVars, walkVars, mainVars, Inv
<1>1. UNCHANGED <<mainVars, listening, ioRunning, threadVars, slotVars, state, socketOf, posted>>
  BY DEF OnAccept, AcceptHandler, OnAborted, Scan, Route, PostCreateSession, DoAccept
<1>2. /\ apc' \in {"waiting", "route", "push", "again", "stopped"}
      /\ incoming' \in Sockets \cup {None} /\ accepted' \subseteq Sockets
      /\ destroyed' \subseteq Sockets /\ IncomingOK'
  BY DEF OnAccept, AcceptHandler, OnAborted, Scan, Route, PostCreateSession, DoAccept, TypeOK, IncomingOK
<1>3. scan' \in [next : 1 .. LocalThreadCount + 1, best : Locals, least : 0 .. MaxSessions]
  <2>1. CASE OnAccept
    <3>1. count[1] \in 0 .. MaxSessions /\ 1 \in Locals
      BY DEF TypeOK, Locals
    <3> QED
      BY <2>1, <3>1 DEF OnAccept, TypeOK
  <2>2. CASE Scan
    <3>1. scan.next \in Locals /\ count[scan.next] \in 0 .. MaxSessions
      BY <2>2 DEF Scan, TypeOK, Locals
    <3>2. /\ scan \in [next : 1 .. LocalThreadCount + 1, best : Locals, least : 0 .. MaxSessions]
          /\ scan.next + 1 \in 1 .. LocalThreadCount + 1
      <4>1. scan \in [next : 1 .. LocalThreadCount + 1, best : Locals, least : 0 .. MaxSessions]
        BY DEF TypeOK
      <4>2. scan.next + 1 \in 1 .. LocalThreadCount + 1
        BY <3>1 DEF Locals
      <4> QED
        BY <4>1, <4>2
    <3>3. CASE count[scan.next] < scan.least
      <4>1. scan' = [next |-> scan.next + 1, best |-> scan.next, least |-> count[scan.next]]
        BY <2>2, <3>3 DEF Scan
      <4> QED
        BY <3>1, <3>2, <4>1
    <3>4. CASE ~(count[scan.next] < scan.least)
      <4>1. scan' = [scan EXCEPT !.next = scan.next + 1]
        BY <2>2, <3>4 DEF Scan
      <4> QED
        BY <3>2, <4>1
    <3> QED
      BY <3>3, <3>4
  <2>3. CASE OnAborted \/ Route \/ PostCreateSession
    BY <2>3 DEF OnAborted, Route, PostCreateSession, TypeOK
  <2>4. CASE DoAccept
    BY <2>4 DEF DoAccept, TypeOK, Locals
  <2> QED
    BY <2>1, <2>2, <2>3, <2>4 DEF AcceptHandler
<1>4. queue' \in [Locals -> Seq(Command)] /\ \A t \in Locals : Len(queue'[t]) <= QueueSize
  <2>1. CASE PostCreateSession
    <3>1. scan.best \in Locals
      BY DEF TypeOK
    <3>2. incoming \in Sockets
      BY <2>1 DEF PostCreateSession, IncomingOK
    <3>3. [type |-> "create", id |-> incoming] \in Command
      BY <3>2 DEF Command
    <3>4. queue \in [Locals -> Seq(Command)] /\ \A u \in Locals : Len(queue[u]) <= QueueSize
      BY DEF TypeOK
    <3>5. queue' = Pushed(scan.best, [type |-> "create", id |-> incoming])
      BY <2>1 DEF PostCreateSession
    <3> QED
      BY <3>1, <3>3, <3>4, <3>5, PushType
  <2>2. CASE OnAccept \/ OnAborted \/ Scan \/ Route \/ DoAccept
    BY <2>2 DEF OnAccept, OnAborted, Scan, Route, DoAccept, TypeOK
  <2> QED
    BY <2>1, <2>2 DEF AcceptHandler
<1>5. TypeOK'
  BY <1>1, <1>2, <1>3, <1>4 DEF TypeOK
<1>6. ActiveAreUsed' /\ WalkOK' /\ Owned'
  BY <1>1 DEF ActiveAreUsed, WalkOK, WalkAt, Owned
<1>7. StopOK'
  <2>1. main \in {"pool", "done"} => apc' \in {"waiting", "stopped"}
    BY DEF StopOK, OnAccept, AcceptHandler, OnAborted, Scan, Route, PostCreateSession, DoAccept
  <2> QED
    BY <1>1, <2>1 DEF StopOK
<1> QED
  BY <1>2, <1>5, <1>6, <1>7

LEMMA DisconnectStep ==
  ASSUME Inv, (\E s \in Sockets : OnSocketDisconnected(s)) \/ DestroyPosted PROVE Inv'
<1> USE CountAssumption, NoneAssumption
<1> USE DEF acceptVars, slotVars, threadVars, walkVars, mainVars, Inv
<1>1. CASE DestroyPosted
  <2>1. posted' \subseteq Sockets /\ destroyed' \subseteq Sockets
    BY <1>1 DEF DestroyPosted, TypeOK
  <2>2. TypeOK'
    BY <1>1, <2>1 DEF DestroyPosted, TypeOK
  <2> QED
    BY <1>1, <2>2 DEF DestroyPosted, ActiveAreUsed, IncomingOK, WalkOK, WalkAt, Owned, StopOK
<1>2. ASSUME NEW s \in Sockets, OnSocketDisconnected(s) PROVE Inv'
  <2>1. /\ posted' \subseteq Sockets /\ destroyed' = destroyed
        /\ state' \in [Sockets -> {"None", "Active", "TempDisconnect", "Closed"}]
        /\ socketOf' \in [Sockets -> Sockets \cup {None}]
    BY <1>2 DEF OnSocketDisconnected, TypeOK
  <2>2. UNCHANGED <<mainVars, acceptVars, ioRunning, threadVars, queue, slotVars>>
    BY <1>2 DEF OnSocketDisconnected
  <2>3. TypeOK'
    BY <2>1, <2>2 DEF TypeOK
  <2>4. Owned'
    <3> SUFFICES ASSUME NEW r \in Sockets, state'[r] # "None" \/ socketOf'[r] # None
                 PROVE  \E u \in Locals, j \in Slots : slot'[u][j] = r
      BY DEF Owned
    <3>1. state[r] # "None" \/ socketOf[r] # None
      BY <1>2 DEF OnSocketDisconnected, TypeOK
    <3> QED
      BY <3>1, <2>2 DEF Owned
  <2> QED
    BY <2>2, <2>3, <2>4 DEF ActiveAreUsed, IncomingOK, WalkOK, WalkAt, StopOK
<1> QED
  BY <1>1, <1>2
\* What a step of local thread t has to show: main stops only threads that have ended.
LEMMA LocalFrame ==
  ASSUME Inv, NEW t \in Locals, lpc[t] # "ended",
         UNCHANGED <<mainVars, acceptVars, ioRunning>>,
         SessionsOK', OnlyOf(t), WalkAt(t)',
         \A u \in Locals \ {t} : lpc'[u] = lpc[u] /\ index'[u] = index[u] /\ current'[u] = current[u],
         running' \in [Locals -> BOOLEAN],
         lpc' \in [Locals -> {"tick", "commands", "sessions", "packets", "ended"}],
         index' \in [Locals -> 0 .. MaxSessions],
         current' \in [Locals -> Sockets \cup {None}],
         unvisited' \in [Locals -> SUBSET Sockets],
         queue' \in [Locals -> Seq(Command)], \A u \in Locals : Len(queue'[u]) <= QueueSize
  PROVE  Inv'
<1> USE DEF mainVars, acceptVars, Inv
<1>1. TypeOK'
  BY DEF TypeOK, SessionsOK
<1>2. ActiveAreUsed' /\ Owned'
  BY DEF SessionsOK
<1>3. IncomingOK'
  BY DEF IncomingOK
<1>4. WalkOK'
  <2>1. \A u \in Locals \ {t} : WalkAt(u)'
    BY DEF WalkOK, WalkAt, OnlyOf
  <2> QED
    BY <2>1 DEF WalkOK
<1>5. StopOK'
  <2>1. t \notin 1 .. stopping - 1 /\ (main = "clean" => stopping # t)
    BY DEF StopOK
  <2>2. 1 .. stopping - 1 \subseteq Locals \ {t} /\ stopping \in Int
    BY <2>1, CountAssumption DEF TypeOK, Locals
  <2>3. \A u \in 1 .. stopping - 1 :
          lpc'[u] = "ended" /\ active'[u] = <<>> /\ \A i \in Slots : slot'[u][i] = None
    <3> SUFFICES ASSUME NEW u \in 1 .. stopping - 1
                 PROVE  lpc'[u] = "ended" /\ active'[u] = <<>> /\ \A i \in Slots : slot'[u][i] = None
      OBVIOUS
    <3>1. lpc[u] = "ended" /\ active[u] = <<>> /\ \A i \in Slots : slot[u][i] = None
      BY DEF StopOK
    <3>2. u \in Locals \ {t}
      BY <2>2
    <3>3. lpc'[u] = lpc[u] /\ active'[u] = active[u] /\ slot'[u] = slot[u]
      BY <3>2 DEF OnlyOf
    <3> QED
      BY <3>1, <3>3, Zenon
  <2>4. main = "clean" => lpc'[stopping] = "ended"
    BY <2>1 DEF StopOK
  <2> QED
    BY <2>3, <2>4 DEF StopOK
<1> QED
  BY <1>1, <1>2, <1>3, <1>4, <1>5

\* What a thread has in its slots are sessions.
LEMMA IdsType == ASSUME SessionsOK, NEW t \in Locals PROVE Ids(t) \subseteq Sockets
<1> SUFFICES ASSUME NEW n \in DOMAIN active[t] PROVE slot[t][active[t][n]] \in Sockets
  BY DEF Ids
<1>1. active[t] \in Seq(Slots) /\ slot[t] \in [Slots -> Sockets \cup {None}]
  BY DEF SessionsOK
<1>2. active[t][n] \in Slots
  BY <1>1
<1>3. slot[t][active[t][n]] # None
  BY <1>2 DEF SessionsOK, ActiveAreUsed
<1> QED
  BY <1>1, <1>2, <1>3

LEMMA StartWalkStep ==
  ASSUME Inv, NEW t \in Locals, StartWalk(t), UNCHANGED slotVars
  PROVE  /\ lpc' \in [Locals -> {"tick", "commands", "sessions", "packets", "ended"}]
         /\ index' \in [Locals -> 0 .. MaxSessions]
         /\ current' \in [Locals -> Sockets \cup {None}]
         /\ unvisited' \in [Locals -> SUBSET Sockets]
         /\ WalkAt(t)'
         /\ \A u \in Locals \ {t} : lpc'[u] = lpc[u] /\ index'[u] = index[u] /\ current'[u] = current[u]
<1> USE CountAssumption DEF slotVars, Inv
<1>1. Ids(t) \subseteq Sockets
  BY IdsType, InvSessions
<1>2. Len(active[t]) \in 0 .. MaxSessions
  BY DEF TypeOK
<1>3. /\ lpc' = [lpc EXCEPT ![t] = "sessions"] /\ index' = [index EXCEPT ![t] = Len(active[t])]
      /\ unvisited' = [unvisited EXCEPT ![t] = Ids(t)] /\ current' = current
  BY DEF StartWalk, Goto
<1>4. lpc'[t] = "sessions" /\ index'[t] = Len(active[t]) /\ active' = active
  BY <1>3 DEF TypeOK
<1>5. WalkAt(t)'
  BY <1>2, <1>4 DEF WalkAt
<1> QED
  BY <1>1, <1>2, <1>3, <1>5 DEF TypeOK

LEMMA TickStep == ASSUME Inv, NEW t \in Locals, Tick(t) PROVE Inv'
<1> USE DEF walkVars, slotVars, sessionVars
<1>1. SessionsOK' /\ OnlyOf(t)
  BY InvSessions DEF Tick, SessionsOK, ActiveAreUsed, Owned, OnlyOf
<1>2. /\ lpc' \in [Locals -> {"tick", "commands", "sessions", "packets", "ended"}]
      /\ lpc'[t] \in {"commands", "ended"} /\ \A u \in Locals \ {t} : lpc'[u] = lpc[u]
  BY DEF Tick, Goto, Inv, TypeOK
<1>3. WalkAt(t)'
  BY <1>2 DEF WalkAt
<1>4. UNCHANGED <<mainVars, acceptVars, ioRunning, running, queue, index, current, unvisited>> /\ lpc[t] # "ended"
  BY DEF Tick
<1> QED
  BY <1>1, <1>2, <1>3, <1>4, LocalFrame DEF Inv, TypeOK

LEMMA CommandStep == ASSUME Inv, NEW t \in Locals, ProcessCommands(t) PROVE Inv'
<1> USE DEF walkVars, slotVars, sessionVars
<1>1. UNCHANGED <<mainVars, acceptVars, ioRunning>> /\ lpc[t] # "ended" /\ lpc[t] = "commands"
  BY DEF ProcessCommands
<1>2. /\ running \in [Locals -> BOOLEAN]
      /\ lpc \in [Locals -> {"tick", "commands", "sessions", "packets", "ended"}]
      /\ index \in [Locals -> 0 .. MaxSessions]
      /\ current \in [Locals -> Sockets \cup {None}]
      /\ unvisited \in [Locals -> SUBSET Sockets]
      /\ queue \in [Locals -> Seq(Command)] /\ \A u \in Locals : Len(queue[u]) <= QueueSize
  BY DEF Inv, TypeOK
<1>3. UNCHANGED <<slotVars, sessionVars>> => SessionsOK' /\ OnlyOf(t)
  BY InvSessions DEF SessionsOK, ActiveAreUsed, Owned, OnlyOf
<1>4. CASE queue[t] = <<>> /\ StartWalk(t) /\ UNCHANGED <<running, queue, slotVars, sessionVars>>
  BY <1>1, <1>2, <1>3, <1>4, StartWalkStep, LocalFrame
<1>5. CASE queue[t] # <<>>
  <2> DEFINE command == Head(queue[t])
  <2>1. command \in Command /\ Tail(queue[t]) \in Seq(Command) /\ Len(Tail(queue[t])) <= QueueSize
    <3>1. /\ Head(queue[t]) \in Command /\ Tail(queue[t]) \in Seq(Command)
          /\ Len(Tail(queue[t])) = Len(queue[t]) - 1 /\ Len(queue[t]) \in Nat
      BY <1>2, <1>5
    <3> QED
      BY <3>1, <1>2, CountAssumption
  <2>2. queue' = [queue EXCEPT ![t] = Tail(@)]
    BY <1>5 DEF ProcessCommands
  <2>3. queue' \in [Locals -> Seq(Command)] /\ \A u \in Locals : Len(queue'[u]) <= QueueSize
    BY <1>2, <2>1, <2>2
  <2>4. CASE command.type = "create" /\ CreateSession(t, command.id) /\ UNCHANGED <<running, lpc, walkVars>>
    <3>1. command.id \in Sockets
      BY <2>1, <2>4 DEF Command
    <3>2. SessionsOK' /\ OnlyOf(t)
      BY <3>1, <2>4, CreateSessionStep, InvSessions
    <3>3. WalkAt(t)'
      BY <1>1, <2>4 DEF WalkAt
    <3> QED
      BY <1>1, <1>2, <2>3, <2>4, <3>2, <3>3, LocalFrame
  <2>5. CASE command.type = "remove" /\ RemoveSession(t, command.id) /\ UNCHANGED <<running, lpc, walkVars>>
    <3>1. command.id \in Sockets
      BY <2>1, <2>5 DEF Command
    <3>2. SessionsOK' /\ OnlyOf(t)
      BY <3>1, <2>5, RemoveSessionStep, InvSessions
    <3>3. WalkAt(t)'
      BY <1>1, <2>5 DEF WalkAt
    <3> QED
      BY <1>1, <1>2, <2>3, <2>5, <3>2, <3>3, LocalFrame
  <2>6. CASE /\ running' = [running EXCEPT ![t] = FALSE] /\ StartWalk(t)
             /\ UNCHANGED <<slotVars, sessionVars>>
    <3>1. running' \in [Locals -> BOOLEAN]
      BY <1>2, <2>6
    <3> QED
      BY <1>1, <1>3, <2>3, <2>6, <3>1, StartWalkStep, LocalFrame
  <2> QED
    BY <1>5, <2>4, <2>5, <2>6 DEF ProcessCommands
<1> QED
  BY <1>4, <1>5 DEF ProcessCommands
LEMMA SessionsStep == ASSUME Inv, NEW t \in Locals, ProcessSessions(t) PROVE Inv'
<1> USE DEF walkVars, slotVars, sessionVars
<1>1. UNCHANGED <<mainVars, acceptVars, ioRunning, running, queue>> /\ lpc[t] # "ended" /\ lpc[t] = "sessions"
  BY DEF ProcessSessions
<1>2. /\ running \in [Locals -> BOOLEAN]
      /\ lpc \in [Locals -> {"tick", "commands", "sessions", "packets", "ended"}]
      /\ index \in [Locals -> 0 .. MaxSessions]
      /\ current \in [Locals -> Sockets \cup {None}]
      /\ unvisited \in [Locals -> SUBSET Sockets]
      /\ queue \in [Locals -> Seq(Command)] /\ \A u \in Locals : Len(queue[u]) <= QueueSize
  BY DEF Inv, TypeOK
<1>3. UNCHANGED <<slotVars, sessionVars>> => SessionsOK' /\ OnlyOf(t)
  BY InvSessions DEF SessionsOK, ActiveAreUsed, Owned, OnlyOf
<1>4. CASE Goto(t, "tick") /\ UNCHANGED <<walkVars, slotVars, sessionVars>>
  <2>1. /\ lpc' \in [Locals -> {"tick", "commands", "sessions", "packets", "ended"}]
        /\ lpc'[t] = "tick" /\ \A u \in Locals \ {t} : lpc'[u] = lpc[u]
    BY <1>2, <1>4 DEF Goto
  <2>2. WalkAt(t)'
    BY <2>1 DEF WalkAt
  <2> QED
    BY <1>1, <1>2, <1>3, <1>4, <2>1, <2>2, LocalFrame
<1>5. CASE index[t] > 0 /\ Visit(t, index[t])
  <2> DEFINE s == slot[t][active[t][index[t]]]
  <2>1. /\ index[t] \in 1 .. Len(active[t]) /\ index[t] - 1 \in 0 .. MaxSessions
        /\ Len(active[t]) \in Nat
    <3>1. index[t] <= Len(active[t])
      BY <1>1 DEF Inv, WalkOK, WalkAt
    <3>2. index[t] \in 0 .. MaxSessions /\ active[t] \in Seq(Slots)
      BY <1>2, InvSessions DEF SessionsOK
    <3> QED
      BY <3>1, <3>2, <1>5, CountAssumption
  <2>2. s \in Sockets
    <3>1. index[t] \in DOMAIN active[t]
      BY <2>1, InvSessions DEF SessionsOK
    <3>2. s \in Ids(t)
      BY <3>1 DEF Ids
    <3> QED
      BY <3>2, IdsType, InvSessions
  <2>3. unvisited' = [unvisited EXCEPT ![t] = @ \ {s}] /\ index' = [index EXCEPT ![t] = @ - 1]
    BY <1>5 DEF Visit
  <2>4. /\ unvisited' \in [Locals -> SUBSET Sockets] /\ index' \in [Locals -> 0 .. MaxSessions]
        /\ index'[t] = index[t] - 1 /\ \A u \in Locals \ {t} : index'[u] = index[u]
    BY <1>2, <2>1, <2>3
  <2> HIDE DEF s
  <2>5. CASE /\ Goto(t, "packets") /\ current' = [current EXCEPT ![t] = s]
             /\ UNCHANGED <<slotVars, sessionVars>>
    <3>1. /\ lpc' \in [Locals -> {"tick", "commands", "sessions", "packets", "ended"}]
          /\ lpc'[t] = "packets" /\ \A u \in Locals \ {t} : lpc'[u] = lpc[u]
      BY <1>2, <2>5 DEF Goto
    <3>2. /\ current' \in [Locals -> Sockets \cup {None}]
          /\ current'[t] = s /\ \A u \in Locals \ {t} : current'[u] = current[u]
      BY <1>2, <2>2, <2>5
    <3>3. index'[t] <= Len(active'[t])
      BY <2>1, <2>4, <2>5
    <3>4. WalkAt(t)'
      BY <3>2, <3>3, <2>2 DEF WalkAt
    <3> QED
      BY <1>1, <1>2, <1>3, <2>4, <2>5, <3>1, <3>2, <3>4, LocalFrame
  <2>6. CASE UNCHANGED <<lpc, current, slotVars, sessionVars>>
    <3>1. WalkAt(t)'
      BY <1>1, <2>1, <2>4, <2>6 DEF WalkAt
    <3> QED
      BY <1>1, <1>2, <1>3, <2>4, <2>6, <3>1, LocalFrame
  <2>7. CASE RemoveSession(t, s) /\ UNCHANGED <<lpc, current>>
    <3>1. SessionsOK' /\ OnlyOf(t) /\ Len(active'[t]) = Len(active[t]) - 1
      BY <2>2, <2>7, RemoveSessionStep, InvSessions
    <3>2. WalkAt(t)'
      BY <1>1, <2>1, <2>4, <2>7, <3>1 DEF WalkAt
    <3> QED
      BY <1>1, <1>2, <2>4, <2>7, <3>1, <3>2, LocalFrame
  <2> QED
    BY <1>5, <2>5, <2>6, <2>7 DEF Visit, s
<1> QED
  BY <1>4, <1>5 DEF ProcessSessions

\* A login changes states and sockets of sessions that have one, and posts a removal.
LEMMA LoginStep ==
  ASSUME Inv, NEW t \in Locals, NEW s \in Sockets, Restore(t, s) \/ Refuse(t)
  PROVE  /\ SessionsOK' /\ UNCHANGED slotVars
         /\ queue' \in [Locals -> Seq(Command)] /\ \A u \in Locals : Len(queue'[u]) <= QueueSize
<1> USE NoneAssumption DEF slotVars
<1>1. UNCHANGED <<slotVars, posted, destroyed>>
  BY DEF Restore, Refuse
<1>2. /\ state' \in [Sockets -> {"None", "Active", "TempDisconnect", "Closed"}]
      /\ socketOf' \in [Sockets -> Sockets \cup {None}]
      /\ \A r \in Sockets : state'[r] # "None" \/ socketOf'[r] # None => state[r] # "None" \/ socketOf[r] # None
  <2>1. /\ state \in [Sockets -> {"None", "Active", "TempDisconnect", "Closed"}]
        /\ socketOf \in [Sockets -> Sockets \cup {None}]
    BY DEF Inv, TypeOK
  <2>2. ASSUME NEW old \in Sockets, state[old] = "TempDisconnect", socketOf[s] # None,
               socketOf' = [socketOf EXCEPT ![s] = None, ![old] = socketOf[s]],
               state' = [state EXCEPT ![old] = "Active"]
        PROVE  <1>2
    BY <2>1, <2>2
  <2>3. ASSUME NEW old \in Sockets, state[old] # "None",
               socketOf' = socketOf, state' = [state EXCEPT ![old] = "Closed"]
        PROVE  <1>2
    BY <2>1, <2>3
  <2> QED
    BY <2>2, <2>3 DEF Restore, Refuse
<1>3. Owned'
  <2> SUFFICES ASSUME NEW r \in Sockets, state'[r] # "None" \/ socketOf'[r] # None
               PROVE  \E u \in Locals, j \in Slots : slot'[u][j] = r
    BY DEF Owned
  <2>1. PICK u \in Locals, j \in Slots : slot[u][j] = r
    BY <1>2 DEF Inv, Owned
  <2> QED
    BY <2>1, <1>1
<1>4. SessionsOK'
  BY <1>1, <1>2, <1>3, InvSessions DEF SessionsOK, ActiveAreUsed
<1>5. queue \in [Locals -> Seq(Command)] /\ \A u \in Locals : Len(queue[u]) <= QueueSize
  BY DEF Inv, TypeOK
<1>6. queue' \in [Locals -> Seq(Command)] /\ \A u \in Locals : Len(queue'[u]) <= QueueSize
  <2>1. [type |-> "remove", id |-> s] \in Command
    BY DEF Command
  <2>2. queue' = queue \/ queue' = Pushed(t, [type |-> "remove", id |-> s])
    BY DEF Restore, Refuse
  <2> QED
    BY <1>5, <2>1, <2>2, PushType
<1> QED
  BY <1>1, <1>4, <1>6

LEMMA PacketsStep == ASSUME Inv, NEW t \in Locals, ProcessSessionPackets(t) PROVE Inv'
<1> USE DEF slotVars, sessionVars
<1>1. /\ UNCHANGED <<mainVars, acceptVars, ioRunning, running, index, unvisited>>
      /\ lpc[t] # "ended" /\ lpc[t] = "packets"
  BY DEF ProcessSessionPackets
<1>2. /\ running \in [Locals -> BOOLEAN]
      /\ lpc \in [Locals -> {"tick", "commands", "sessions", "packets", "ended"}]
      /\ index \in [Locals -> 0 .. MaxSessions]
      /\ current \in [Locals -> Sockets \cup {None}]
      /\ unvisited \in [Locals -> SUBSET Sockets]
      /\ queue \in [Locals -> Seq(Command)] /\ \A u \in Locals : Len(queue[u]) <= QueueSize
  BY DEF Inv, TypeOK
<1>3. current[t] \in Sockets /\ index[t] <= Len(active[t])
  BY <1>1 DEF Inv, WalkOK, WalkAt
<1>4. CASE (Restore(t, current[t]) \/ Refuse(t)) /\ UNCHANGED <<lpc, current>>
  <2>1. /\ SessionsOK' /\ UNCHANGED slotVars
        /\ queue' \in [Locals -> Seq(Command)] /\ \A u \in Locals : Len(queue'[u]) <= QueueSize
    BY <1>3, <1>4, LoginStep
  <2>2. OnlyOf(t) /\ WalkAt(t)'
    BY <1>1, <1>3, <1>4, <2>1 DEF OnlyOf, WalkAt
  <2> QED
    BY <1>1, <1>2, <1>4, <2>1, <2>2, LocalFrame
<1>5. CASE /\ Goto(t, "sessions") /\ current' = [current EXCEPT ![t] = None]
           /\ UNCHANGED <<queue, slotVars, sessionVars>>
  <2>1. SessionsOK' /\ OnlyOf(t)
    BY <1>5, InvSessions DEF SessionsOK, ActiveAreUsed, Owned, OnlyOf
  <2>2. /\ lpc' \in [Locals -> {"tick", "commands", "sessions", "packets", "ended"}]
        /\ lpc'[t] = "sessions" /\ \A u \in Locals \ {t} : lpc'[u] = lpc[u]
    BY <1>2, <1>5 DEF Goto
  <2>3. current' \in [Locals -> Sockets \cup {None}] /\ \A u \in Locals \ {t} : current'[u] = current[u]
    BY <1>2, <1>5
  <2>4. WalkAt(t)'
    BY <1>1, <1>3, <1>5, <2>2 DEF WalkAt
  <2> QED
    BY <1>1, <1>2, <1>5, <2>1, <2>2, <2>3, <2>4, LocalFrame
<1> QED
  BY <1>4, <1>5 DEF ProcessSessionPackets
\* The steps of main that touch no session.
LEMMA MainFrame ==
  ASSUME Inv, UNCHANGED <<acceptVars, lpc, walkVars, slotVars, sessionVars>>,
         main' \in {"run", "stop", "join", "clean", "stopIo", "joinIo", "pool", "done"},
         stopping' = stopping, StopOK',
         running' \in [Locals -> BOOLEAN], ioRunning' \in BOOLEAN,
         queue' \in [Locals -> Seq(Command)], \A u \in Locals : Len(queue'[u]) <= QueueSize
  PROVE  Inv'
<1> USE DEF acceptVars, walkVars, slotVars, sessionVars, Inv
<1>1. TypeOK'
  BY DEF TypeOK
<1>2. ActiveAreUsed' /\ IncomingOK' /\ WalkOK' /\ Owned'
  BY DEF ActiveAreUsed, IncomingOK, WalkOK, WalkAt, Owned
<1> QED
  BY <1>1, <1>2

LEMMA MainStep ==
  ASSUME Inv, StopThread \/ JoinThread \/ StopIo \/ JoinIo \/ ShutdownPool PROVE Inv'
<1> USE DEF acceptVars, threadVars, walkVars, slotVars, sessionVars
<1>1. /\ running \in [Locals -> BOOLEAN] /\ ioRunning \in BOOLEAN
      /\ queue \in [Locals -> Seq(Command)] /\ \A u \in Locals : Len(queue[u]) <= QueueSize
  BY DEF Inv, TypeOK
<1>2. CASE StopThread
  <2>1. stopping \in Locals
    BY <1>2 DEF StopThread, Inv, StopOK
  <2>2. running' \in [Locals -> BOOLEAN]
    BY <1>1, <1>2 DEF StopThread
  <2>3. queue' \in [Locals -> Seq(Command)] /\ \A u \in Locals : Len(queue'[u]) <= QueueSize
    <3>1. [type |-> "shutdown"] \in Command
      BY DEF Command
    <3>2. queue' = Pushed(stopping, [type |-> "shutdown"])
      BY <1>2 DEF StopThread
    <3> QED
      BY <1>1, <2>1, <3>1, <3>2, PushType
  <2>4. StopOK'
    BY <1>2, <2>1 DEF StopThread, Inv, StopOK
  <2> QED
    BY <1>1, <1>2, <2>2, <2>3, <2>4, MainFrame DEF StopThread
<1>3. CASE JoinThread
  <2>1. StopOK'
    BY <1>3 DEF JoinThread, Inv, StopOK
  <2> QED
    BY <1>1, <1>3, <2>1, MainFrame DEF JoinThread
<1>4. CASE StopIo
  <2>1. StopOK'
    BY <1>4 DEF StopIo, Inv, StopOK
  <2> QED
    BY <1>1, <1>4, <2>1, MainFrame DEF StopIo
<1>5. CASE JoinIo
  <2>1. StopOK'
    BY <1>5 DEF JoinIo, Inv, StopOK
  <2> QED
    BY <1>1, <1>5, <2>1, MainFrame DEF JoinIo
<1>6. CASE ShutdownPool
  <2>1. StopOK'
    BY <1>6 DEF ShutdownPool, Inv, StopOK
  <2> QED
    BY <1>1, <1>6, <2>1, MainFrame DEF ShutdownPool
<1> QED
  BY <1>2, <1>3, <1>4, <1>5, <1>6

LEMMA StopListenerStep == ASSUME Inv, StopListener PROVE Inv'
<1> USE DEF threadVars, walkVars, slotVars, sessionVars, Inv
<1>1. TypeOK'
  BY DEF StopListener, TypeOK
<1>2. StopOK'
  BY DEF StopListener, StopOK
<1>3. ActiveAreUsed' /\ IncomingOK' /\ WalkOK' /\ Owned'
  BY DEF StopListener, ActiveAreUsed, IncomingOK, WalkOK, WalkAt, Owned
<1> QED
  BY <1>1, <1>2, <1>3

LEMMA CleanStep == ASSUME Inv, CleanSessions PROVE Inv'
<1> USE CountAssumption, NoneAssumption
<1> USE DEF acceptVars, threadVars, walkVars
<1> DEFINE t == stopping
           ids == {slot[t][i] : i \in Slots}
<1>1. t \in Locals /\ lpc[t] = "ended" /\ main = "clean"
  BY DEF CleanSessions, Inv, StopOK
<1>2. /\ UNCHANGED <<acceptVars, ioRunning, threadVars, queue, posted, destroyed>>
      /\ socketOf' = [s \in Sockets |-> IF s \in ids THEN None ELSE socketOf[s]]
      /\ state' = [s \in Sockets |-> IF s \in ids THEN "None" ELSE state[s]]
      /\ slot' = [slot EXCEPT ![t] = [i \in Slots |-> None]]
      /\ active' = [active EXCEPT ![t] = <<>>]
      /\ count' = [count EXCEPT ![t] = 0]
      /\ stopping' = t + 1
      /\ main' = IF t = LocalThreadCount THEN "stopIo" ELSE "stop"
  BY DEF CleanSessions
<1>3. /\ slot \in [Locals -> [Slots -> Sockets \cup {None}]]
      /\ active \in [Locals -> Seq(Slots)] /\ \A u \in Locals : Len(active[u]) <= MaxSessions
      /\ count \in [Locals -> 0 .. MaxSessions]
      /\ state \in [Sockets -> {"None", "Active", "TempDisconnect", "Closed"}]
      /\ socketOf \in [Sockets -> Sockets \cup {None}]
      /\ posted \subseteq Sockets /\ destroyed \subseteq Sockets
  BY DEF Inv, TypeOK
<1> HIDE DEF ids
<1>4. /\ slot'[t] = [i \in Slots |-> None] /\ active'[t] = <<>> /\ count'[t] = 0
      /\ \A u \in Locals \ {t} : slot'[u] = slot[u] /\ active'[u] = active[u] /\ count'[u] = count[u]
  BY <1>1, <1>2, <1>3
<1>5. SessionsOK'
  <2>1. /\ slot' \in [Locals -> [Slots -> Sockets \cup {None}]]
        /\ state' \in [Sockets -> {"None", "Active", "TempDisconnect", "Closed"}]
        /\ socketOf' \in [Sockets -> Sockets \cup {None}]
        /\ count' \in [Locals -> 0 .. MaxSessions]
        /\ posted' \subseteq Sockets /\ destroyed' \subseteq Sockets
    <3>1. slot' \in [Locals -> [Slots -> Sockets \cup {None}]]
      BY <1>2, <1>3
    <3>2. count' \in [Locals -> 0 .. MaxSessions]
      <4>1. 0 \in 0 .. MaxSessions
        OBVIOUS
      <4>2. count' = [count EXCEPT ![t] = 0] /\ count \in [Locals -> 0 .. MaxSessions]
        BY <1>2, <1>3
      <4> HIDE DEF t
      <4> QED
        BY <4>1, <4>2
    <3>3. state' \in [Sockets -> {"None", "Active", "TempDisconnect", "Closed"}]
      BY <1>2, <1>3
    <3>4. socketOf' \in [Sockets -> Sockets \cup {None}]
      BY <1>2, <1>3
    <3> QED
      BY <3>1, <3>2, <3>3, <3>4, <1>2, <1>3
  <2>2. <<>> \in Seq(Slots) /\ Len(<<>>) = 0 /\ DOMAIN <<>> = {}
    OBVIOUS
  <2>3. active' \in [Locals -> Seq(Slots)]
    BY <1>2, <1>3, <2>2
  <2>4. \A u \in Locals : Len(active'[u]) <= MaxSessions
    BY <1>3, <1>4, <2>2
  <2>5. ActiveAreUsed'
    <3>1. \A u \in Locals \ {t} :
            Lists(active'[u], {i \in Slots : slot'[u][i] # None}) /\ count'[u] = Len(active'[u])
      BY <1>4, ActiveLists DEF Inv, Used
    <3>2. Lists(active'[t], {i \in Slots : slot'[t][i] # None}) /\ count'[t] = Len(active'[t])
      BY <1>4, <2>2 DEF Lists
    <3>3. \A u \in Locals :
            Lists(active'[u], {i \in Slots : slot'[u][i] # None}) /\ count'[u] = Len(active'[u])
      BY <3>1, <3>2
    <3> QED
      BY <3>3, ActiveListsNext DEF Used
  <2>6. Owned'
    <3> SUFFICES ASSUME NEW r \in Sockets, state'[r] # "None" \/ socketOf'[r] # None
                 PROVE  \E u \in Locals, j \in Slots : slot'[u][j] = r
      BY DEF Owned
    <3>1. r \notin ids /\ (state[r] # "None" \/ socketOf[r] # None)
      BY <1>2
    <3>2. PICK u \in Locals, j \in Slots : slot[u][j] = r
      BY <3>1 DEF Inv, Owned
    <3>3. u # t
      BY <3>1, <3>2 DEF ids
    <3> QED
      BY <3>2, <3>3, <1>4
  <2> QED
    BY <2>1, <2>3, <2>4, <2>5, <2>6 DEF SessionsOK
<1>6. TypeOK'
  <2>1. stopping' \in 1 .. LocalThreadCount + 1 /\ main' \in {"stop", "stopIo"}
    BY <1>1, <1>2 DEF Locals
  <2> QED
    BY <1>2, <1>5, <2>1 DEF Inv, TypeOK, SessionsOK
<1>7. IncomingOK'
  BY <1>2 DEF Inv, IncomingOK
<1>8. WalkOK'
  <2>1. ASSUME NEW u \in Locals PROVE WalkAt(u)'
    BY <1>1, <1>2, <1>4 DEF Inv, WalkOK, WalkAt
  <2> QED
    BY <2>1 DEF WalkOK
<1>9. StopOK'
  <2>1. \A u \in 1 .. t : lpc'[u] = "ended" /\ active'[u] = <<>> /\ \A i \in Slots : slot'[u][i] = None
    <3> SUFFICES ASSUME NEW u \in 1 .. t
                 PROVE  lpc'[u] = "ended" /\ active'[u] = <<>> /\ \A i \in Slots : slot'[u][i] = None
      OBVIOUS
    <3>1. CASE u = t
      BY <3>1, <1>1, <1>2, <1>4
    <3>2. CASE u # t
      <4>1. u \in 1 .. t - 1 /\ u \in Locals \ {t}
        BY <3>2, <1>1 DEF Locals
      <4>2. lpc[u] = "ended" /\ active[u] = <<>> /\ \A i \in Slots : slot[u][i] = None
        BY <4>1 DEF Inv, StopOK
      <4>3. lpc'[u] = lpc[u] /\ active'[u] = active[u] /\ slot'[u] = slot[u]
        BY <4>1, <1>2, <1>4
      <4> QED
        BY <4>2, <4>3, Zenon
    <3> QED
      BY <3>1, <3>2
  <2>2. stopping' - 1 = t
    BY <1>1, <1>2 DEF Locals
  <2>3. main' = "stop" => stopping' \in Locals
    BY <1>1, <1>2 DEF Locals
  <2>4. main' = "stopIo" => stopping' = LocalThreadCount + 1
    BY <1>2
  <2>5. main' \in {"stop", "stopIo"}
    BY <1>2
  <2> QED
    BY <2>1, <2>2, <2>3, <2>4, <2>5 DEF StopOK
<1> QED
  BY <1>5, <1>6, <1>7, <1>8, <1>9 DEF Inv, SessionsOK

LEMMA NextInv == Inv /\ [Next]_vars => Inv'
<1> SUFFICES ASSUME Inv, [Next]_vars PROVE Inv'
  OBVIOUS
<1>1. CASE OnAccept \/ AcceptHandler
  BY <1>1, AcceptStep
<1>2. CASE (\E s \in Sockets : OnSocketDisconnected(s)) \/ DestroyPosted
  BY <1>2, DisconnectStep
<1>3. CASE \E t \in Locals : LocalThread(t)
  BY <1>3, TickStep, CommandStep, SessionsStep, PacketsStep DEF LocalThread
<1>4. CASE StopListener
  BY <1>4, StopListenerStep
<1>5. CASE Main
  BY <1>5, MainStep, CleanStep DEF Main
<1>6. CASE UNCHANGED vars
  BY <1>6 DEF vars, mainVars, acceptVars, threadVars, walkVars, slotVars, sessionVars,
              Inv, TypeOK, ActiveAreUsed, IncomingOK, WalkOK, WalkAt, Owned, StopOK
<1> QED
  BY <1>1, <1>2, <1>3, <1>4, <1>5, <1>6 DEF Next

LEMMA Invariance == Spec => []Inv
  BY InitInv, NextInv, PTL DEF Spec

--------------------------------------------------------------------------------
(* Theorems                                                                       *)

\* Every reachable state of the server is well typed: no command queue exceeds its capacity
\* and no thread more sessions than it has slots, whoever pushes and creates.
THEOREM ServerIsTyped == Spec => []TypeOK
  BY Invariance, PTL DEF Inv

\* AllocateSession, RemoveSession (which moves the last of the active sessions into the gap)
\* and the cleaning up keep the array of active sessions exact: it names each used slot once,
\* and SessionCount, by which connections are routed, is its length.
THEOREM ActiveSessionsAreExact == Spec => []ActiveAreUsed
  BY Invariance, PTL DEF Inv

\* What CThreadManager::Shutdown has cleaned up stays so, while IO threads still run handlers;
\* and when main deletes the packet buffers there is no handler and no session left to use them.
THEOREM StoppedServerIsQuiet == Spec => []StoppedIsQuiet
<1>1. Inv => StoppedIsQuiet
  <2> SUFFICES ASSUME Inv PROVE StoppedIsQuiet
    OBVIOUS
  <2>1. \A t \in 1 .. stopping - 1 :
          lpc[t] = "ended" /\ active[t] = <<>> /\ \A i \in Slots : slot[t][i] = None
    BY DEF Inv, StopOK
  <2>2. ASSUME main = "done" PROVE \A s \in Sockets : socketOf[s] = None /\ state[s] = "None"
    <3>1. stopping - 1 = LocalThreadCount
      BY <2>2, CountAssumption DEF Inv, StopOK
    <3>2. \A t \in Locals, i \in Slots : slot[t][i] = None
      BY <2>1, <3>1 DEF Locals
    <3> QED
      BY <3>2, NoneAssumption DEF Inv, Owned
  <2>3. main = "done" => apc \in {"waiting", "stopped"}
    BY DEF Inv, StopOK
  <2> QED
    BY <2>1, <2>2, <2>3 DEF StoppedIsQuiet
<1> QED
  BY <1>1, Invariance, PTL
--------------------------------------------------------------------------------
(* Each session is visited once                                                   *)

\* The n-th command of thread t is to create session k.
Creates(t, n, k) == n \in DOMAIN queue[t] /\ queue[t][n].type = "create" /\ queue[t][n].id = k
InSlot(k) == \E t \in Locals, i \in Slots : slot[t][i] = k

\* A session is created once: what is about to be created is in no slot and in one command.
FreshOK ==
  /\ \A t \in Locals, n \in Nat, k \in Sockets :
       Creates(t, n, k) =>
         /\ k \in accepted /\ ~InSlot(k) /\ k # incoming
         /\ \A u \in Locals, m \in Nat : Creates(u, m, k) => u = t /\ m = n
  /\ incoming # None => incoming \in accepted /\ ~InSlot(incoming)
  /\ \A k \in Sockets : InSlot(k) => k \in accepted
  /\ \A t, u \in Locals : \A i, j \in Slots :
       slot[t][i] = slot[u][j] /\ slot[t][i] # None => t = u /\ i = j

\* What is to be visited is what stands up to the index.
VisitAt(t) ==
  lpc[t] \in {"sessions", "packets"} =>
    unvisited[t] = {slot[t][active[t][n]] : n \in 1 .. index[t]}
VisitOK == \A t \in Locals : VisitAt(t)

\* A step that creates nothing and that puts nothing into a slot keeps sessions fresh.
LEMMA KeepFresh ==
  ASSUME FreshOK,
         \A t \in Locals, i \in Slots : slot'[t][i] = slot[t][i] \/ slot'[t][i] = None,
         accepted \subseteq accepted', incoming' = incoming \/ incoming' = None,
         \A t \in Locals, n \in Nat, k \in Sockets : Creates(t, n, k)' => Creates(t, n, k)
  PROVE  FreshOK'
<1> USE NoneAssumption
<1>1. \A k : k # None /\ InSlot(k)' => InSlot(k)
  BY DEF InSlot
<1>2. ASSUME NEW t \in Locals, NEW n \in Nat, NEW k \in Sockets, Creates(t, n, k)'
      PROVE  /\ k \in accepted' /\ ~InSlot(k)' /\ k # incoming'
             /\ \A u \in Locals, m \in Nat : Creates(u, m, k)' => u = t /\ m = n
  <2>1. Creates(t, n, k)
    BY <1>2
  <2>2. /\ k \in accepted /\ ~InSlot(k) /\ k # incoming
        /\ \A u \in Locals, m \in Nat : Creates(u, m, k) => u = t /\ m = n
    BY <2>1 DEF FreshOK
  <2>3. k \in accepted' /\ ~InSlot(k)' /\ k # incoming'
    BY <1>1, <2>2
  <2>4. \A u \in Locals, m \in Nat : Creates(u, m, k)' => u = t /\ m = n
    BY <2>2
  <2> QED
    BY <2>3, <2>4
<1>3. incoming' # None => incoming' \in accepted' /\ ~InSlot(incoming)'
  BY <1>1 DEF FreshOK, InSlot
<1>4. \A k \in Sockets : InSlot(k)' => k \in accepted'
  BY <1>1 DEF FreshOK
<1>5. \A t, u \in Locals : \A i, j \in Slots :
        slot'[t][i] = slot'[u][j] /\ slot'[t][i] # None => t = u /\ i = j
  BY DEF FreshOK
<1> QED
  BY <1>2, <1>3, <1>4, <1>5 DEF FreshOK

LEMMA PushCreates ==
  ASSUME NEW t \in Locals, NEW c \in Command, queue \in [Locals -> Seq(Command)],
         queue' = Pushed(t, c),
         NEW u \in Locals, NEW n \in Nat, NEW k \in Sockets, Creates(u, n, k)'
  PROVE  \/ Creates(u, n, k)
         \/ u = t /\ n = Len(queue[t]) + 1 /\ c.type = "create" /\ c.id = k
<1>1. CASE queue' = queue
  BY <1>1 DEF Creates
<1>2. CASE queue' = [queue EXCEPT ![t] = Append(@, c)]
  <2>1. CASE u # t
    BY <1>2, <2>1 DEF Creates
  <2>2. CASE u = t
    <3>1. queue'[t] = Append(queue[t], c) /\ queue[t] \in Seq(Command)
      BY <1>2
    <3>2. n \in 1 .. Len(queue[t]) + 1 /\ queue'[t][n] = IF n = Len(queue[t]) + 1 THEN c ELSE queue[t][n]
      BY <2>2, <3>1 DEF Creates
    <3>3. CASE n = Len(queue[t]) + 1
      BY <2>2, <3>2, <3>3 DEF Creates
    <3>4. CASE n # Len(queue[t]) + 1
      <4>1. n \in DOMAIN queue[t] /\ queue'[t][n] = queue[t][n]
        BY <3>1, <3>2, <3>4
      <4> QED
        BY <2>2, <4>1 DEF Creates
    <3> QED
      BY <3>3, <3>4
  <2> QED
    BY <2>1, <2>2
<1> QED
  BY <1>1, <1>2 DEF Pushed

LEMMA TailCreates ==
  ASSUME NEW t \in Locals, queue \in [Locals -> Seq(Command)], queue[t] # <<>>,
         queue' = [queue EXCEPT ![t] = Tail(@)],
         NEW u \in Locals, NEW n \in Nat, NEW k \in Sockets, Creates(u, n, k)'
  PROVE  IF u = t THEN n >= 1 /\ Creates(t, n + 1, k) ELSE Creates(u, n, k)
<1>1. CASE u # t
  BY <1>1 DEF Creates
<1>2. CASE u = t
  <2>1. queue'[t] = Tail(queue[t]) /\ queue[t] \in Seq(Command)
    OBVIOUS
  <2>2. n \in 1 .. Len(queue[t]) - 1 /\ queue'[t][n] = queue[t][n + 1]
    BY <1>2, <2>1 DEF Creates
  <2>3. n + 1 \in DOMAIN queue[t]
    BY <2>1, <2>2
  <2> QED
    BY <1>2, <2>2, <2>3 DEF Creates
<1> QED
  BY <1>1, <1>2
LEMMA RemovedSlots ==
  ASSUME SessionsOK, NEW t \in Locals, NEW s, RemoveSession(t, s)
  PROVE  \A u \in Locals, j \in Slots : slot'[u][j] = slot[u][j] \/ slot'[u][j] = None
<1>1. PICK x : slot' = [slot EXCEPT ![t][x] = None]
  BY DEF RemoveSession
<1> QED
  BY <1>1 DEF SessionsOK

LEMMA CreatedSlots ==
  ASSUME SessionsOK, NEW t \in Locals, NEW s \in Sockets, CreateSession(t, s)
  PROVE  \/ slot' = slot
         \/ \E x : \A u \in Locals, j \in Slots : slot'[u][j] = IF u = t /\ j = x THEN s ELSE slot[u][j]
<1>1. CASE slot' = slot
  BY <1>1
<1>2. CASE \E x : slot' = [slot EXCEPT ![t][x] = s]
  <2>1. PICK x : slot' = [slot EXCEPT ![t][x] = s]
    BY <1>2
  <2>2. \A u \in Locals, j \in Slots : slot'[u][j] = IF u = t /\ j = x THEN s ELSE slot[u][j]
    BY <2>1 DEF SessionsOK
  <2> QED
    BY <2>2
<1> QED
  BY <1>1, <1>2 DEF CreateSession, slotVars

LEMMA FreshInit == Init => FreshOK
<1> SUFFICES ASSUME Init PROVE FreshOK
  OBVIOUS
<1>1. \A t \in Locals, n \in Nat, k \in Sockets : ~Creates(t, n, k)
  BY DEF Init, Creates
<1>2. \A t \in Locals, i \in Slots : slot[t][i] = None
  BY DEF Init
<1> QED
  BY <1>1, <1>2, NoneAssumption DEF Init, FreshOK, InSlot

LEMMA AcceptKeepsFresh == ASSUME Inv, FreshOK, OnAccept \/ AcceptHandler PROVE FreshOK'
<1> USE NoneAssumption DEF slotVars, sessionVars
<1>1. slot' = slot
  BY DEF OnAccept, AcceptHandler, OnAborted, Scan, Route, PostCreateSession, DoAccept
<1>2. \A k : InSlot(k)' <=> InSlot(k)
  BY <1>1 DEF InSlot
<1>3. CASE OnAborted \/ Scan \/ Route \/ DoAccept
  <2>1. queue' = queue /\ accepted' = accepted /\ (incoming' = incoming \/ incoming' = None)
    BY <1>3 DEF OnAborted, Scan, Route, DoAccept
  <2>2. \A t \in Locals, n \in Nat, k \in Sockets : Creates(t, n, k)' => Creates(t, n, k)
    BY <2>1 DEF Creates
  <2> QED
    BY <1>1, <2>1, <2>2, KeepFresh
<1>4. CASE OnAccept
  <2>1. queue' = queue
    BY <1>4 DEF OnAccept
  <2>2. \A t \in Locals, n \in Nat, k \in Sockets : Creates(t, n, k)' <=> Creates(t, n, k)
    BY <2>1 DEF Creates
  <2>3. CASE incoming' = incoming /\ accepted' = accepted
    BY <1>1, <2>2, <2>3, KeepFresh
  <2>4. CASE incoming' \in Sockets \ accepted /\ accepted' = accepted \cup {incoming'}
    <3>1. \A t \in Locals, n \in Nat, k \in Sockets : Creates(t, n, k)' => k \in accepted' /\ k # incoming'
      BY <2>2, <2>4 DEF FreshOK
    <3>2. incoming' \in accepted' /\ ~InSlot(incoming)'
      <4>1. ~ \E t \in Locals, i \in Slots : slot[t][i] = incoming'
        BY <2>4 DEF FreshOK, InSlot
      <4> QED
        BY <4>1, <1>1, <2>4 DEF InSlot
    <3>3. \A k \in Sockets : InSlot(k)' => k \in accepted'
      BY <1>2, <2>4 DEF FreshOK
    <3>4. \A t \in Locals, n \in Nat, k \in Sockets : Creates(t, n, k)' =>
            ~InSlot(k)' /\ \A u \in Locals, m \in Nat : Creates(u, m, k)' => u = t /\ m = n
      BY <1>2, <2>2 DEF FreshOK
    <3>5. \A t, u \in Locals : \A i, j \in Slots :
            slot'[t][i] = slot'[u][j] /\ slot'[t][i] # None => t = u /\ i = j
      BY <1>1 DEF FreshOK
    <3> QED
      BY <3>1, <3>2, <3>3, <3>4, <3>5 DEF FreshOK
  <2> QED
    BY <1>4, <2>3, <2>4 DEF OnAccept
<1>5. CASE PostCreateSession
  <2> DEFINE c == [type |-> "create", id |-> incoming]
  <2>1. /\ queue' = Pushed(scan.best, c) /\ incoming' = None /\ accepted' = accepted
        /\ incoming \in Sockets /\ scan.best \in Locals
    BY <1>5 DEF PostCreateSession, Inv, TypeOK, IncomingOK
  <2>2. c \in Command /\ queue \in [Locals -> Seq(Command)]
    BY <2>1 DEF Command, Inv, TypeOK
  <2>3. c.id = incoming
    OBVIOUS
  <2> HIDE DEF c
  <2>4. \A t \in Locals, n \in Nat, k \in Sockets :
          Creates(t, n, k)' => \/ Creates(t, n, k)
                               \/ t = scan.best /\ n = Len(queue[scan.best]) + 1 /\ k = incoming
    BY <2>1, <2>2, <2>3, PushCreates
  <2>5. incoming \in accepted /\ ~InSlot(incoming)
    BY <2>1 DEF FreshOK
  <2>6. ASSUME NEW t \in Locals, NEW n \in Nat, NEW k \in Sockets, Creates(t, n, k)'
        PROVE  /\ k \in accepted' /\ ~InSlot(k)' /\ k # incoming'
               /\ \A u \in Locals, m \in Nat : Creates(u, m, k)' => u = t /\ m = n
    <3>1. CASE Creates(t, n, k)
      <4>1. /\ k \in accepted /\ ~InSlot(k) /\ k # incoming
            /\ \A u \in Locals, m \in Nat : Creates(u, m, k) => u = t /\ m = n
        BY <3>1 DEF FreshOK
      <4> QED
        BY <4>1, <1>2, <2>1, <2>4
    <3>2. CASE t = scan.best /\ n = Len(queue[scan.best]) + 1 /\ k = incoming
      <4>1. \A u \in Locals, m \in Nat : ~Creates(u, m, k)
        BY <3>2 DEF FreshOK
      <4> QED
        BY <3>2, <4>1, <1>2, <2>1, <2>4, <2>5
    <3> QED
      BY <2>6, <2>4, <3>1, <3>2
  <2>7. \A t, u \in Locals : \A i, j \in Slots :
          slot'[t][i] = slot'[u][j] /\ slot'[t][i] # None => t = u /\ i = j
    BY <1>1 DEF FreshOK
  <2>8. \A k \in Sockets : InSlot(k)' => k \in accepted'
    BY <1>2, <2>1 DEF FreshOK
  <2> QED
    BY <2>1, <2>6, <2>7, <2>8 DEF FreshOK
<1> QED
  BY <1>3, <1>4, <1>5 DEF AcceptHandler

LEMMA CreateKeepsFresh ==
  ASSUME Inv, FreshOK, NEW t \in Locals, NEW s \in Sockets, CreateSession(t, s), Creates(t, 1, s),
         queue' = [queue EXCEPT ![t] = Tail(@)], incoming' = incoming, accepted' = accepted
  PROVE  FreshOK'
<1> USE NoneAssumption
<1>1. /\ s \in accepted /\ ~InSlot(s) /\ s # incoming
      /\ \A u \in Locals, m \in Nat : Creates(u, m, s) => u = t /\ m = 1
  BY DEF FreshOK
<1>2. queue \in [Locals -> Seq(Command)] /\ queue[t] # <<>>
  BY DEF Creates, Inv, TypeOK
<1>3. \A u \in Locals, n \in Nat, k \in Sockets : Creates(u, n, k)' =>
        IF u = t THEN n >= 1 /\ Creates(t, n + 1, k) ELSE Creates(u, n, k)
  BY <1>2, TailCreates
<1>4. \A k : InSlot(k)' => InSlot(k) \/ k = s
  BY CreatedSlots, InvSessions DEF InSlot
<1>5. ASSUME NEW u \in Locals, NEW n \in Nat, NEW k \in Sockets, Creates(u, n, k)'
      PROVE  /\ k \in accepted' /\ ~InSlot(k)' /\ k # incoming'
             /\ \A v \in Locals, m \in Nat : Creates(v, m, k)' => v = u /\ m = n
  <2> DEFINE old == IF u = t THEN n + 1 ELSE n
  <2>1. old \in Nat /\ Creates(u, old, k) /\ (u = t => n >= 1)
    BY <1>3, <1>5
  <2>2. /\ k \in accepted /\ ~InSlot(k) /\ k # incoming
        /\ \A v \in Locals, m \in Nat : Creates(v, m, k) => v = u /\ m = old
    BY <2>1 DEF FreshOK
  <2>3. k # s
    BY <1>1, <2>1
  <2>4. ASSUME NEW v \in Locals, NEW m \in Nat, Creates(v, m, k)' PROVE v = u /\ m = n
    <3>1. IF v = t THEN Creates(t, m + 1, k) ELSE Creates(v, m, k)
      BY <1>3, <2>4
    <3>2. v = u /\ (IF v = t THEN m + 1 ELSE m) = old
      BY <2>2, <3>1
    <3> QED
      BY <3>2
  <2> QED
    BY <1>4, <2>2, <2>3, <2>4
<1>6. incoming # None => incoming \in accepted /\ ~InSlot(incoming)'
  <2>1. ~InSlot(incoming) /\ incoming # s => ~InSlot(incoming)'
    <3>1. InSlot(incoming)' => \E u \in Locals, i \in Slots : slot'[u][i] = incoming
      BY DEF InSlot
    <3>2. \A u \in Locals, i \in Slots : slot'[u][i] = s \/ slot'[u][i] = slot[u][i]
      BY CreatedSlots, InvSessions
    <3> QED
      BY <3>1, <3>2 DEF InSlot
  <2> QED
    BY <1>1, <2>1 DEF FreshOK
<1>7. \A k \in Sockets : InSlot(k)' => k \in accepted'
  BY <1>1, <1>4 DEF FreshOK
<1>8. \A v, u \in Locals : \A i, j \in Slots :
        slot'[v][i] = slot'[u][j] /\ slot'[v][i] # None => v = u /\ i = j
  <2>1. CASE slot' = slot
    BY <2>1 DEF FreshOK
  <2>2. CASE \E x : \A u \in Locals, j \in Slots : slot'[u][j] = IF u = t /\ j = x THEN s ELSE slot[u][j]
    BY <1>1, <2>2 DEF FreshOK, InSlot
  <2> QED
    BY <2>1, <2>2, CreatedSlots, InvSessions
<1> QED
  BY <1>5, <1>6, <1>7, <1>8 DEF FreshOK
LEMMA FreshStep == ASSUME Inv, FreshOK, [Next]_vars PROVE FreshOK'
<1> USE NoneAssumption DEF acceptVars, slotVars, sessionVars, threadVars, walkVars
<1>1. CASE OnAccept \/ AcceptHandler
  BY <1>1, AcceptKeepsFresh
<1>2. CASE slot' = slot /\ queue' = queue /\ incoming' = incoming /\ accepted' = accepted
  <2>1. \A t \in Locals, n \in Nat, k \in Sockets : Creates(t, n, k)' => Creates(t, n, k)
    BY <1>2 DEF Creates
  <2> QED
    BY <1>2, <2>1, KeepFresh
<1>3. ASSUME NEW t \in Locals, NEW c \in Command, c.type # "create", queue' = Pushed(t, c),
             slot' = slot, incoming' = incoming, accepted' = accepted
      PROVE  FreshOK'
  <2>1. queue \in [Locals -> Seq(Command)]
    BY DEF Inv, TypeOK
  <2>2. \A u \in Locals, n \in Nat, k \in Sockets : Creates(u, n, k)' => Creates(u, n, k)
    BY <1>3, <2>1, PushCreates
  <2> QED
    BY <1>3, <2>2, KeepFresh
<1>4. ASSUME NEW t \in Locals, ProcessCommands(t) PROVE FreshOK'
  <2>1. incoming' = incoming /\ accepted' = accepted /\ queue \in [Locals -> Seq(Command)]
    BY <1>4 DEF ProcessCommands, Inv, TypeOK
  <2>2. CASE queue[t] = <<>>
    BY <1>2, <1>4, <2>1, <2>2 DEF ProcessCommands
  <2>3. CASE queue[t] # <<>>
    <3>1. queue' = [queue EXCEPT ![t] = Tail(@)]
      BY <1>4, <2>3 DEF ProcessCommands
    <3>2. /\ Head(queue[t]) \in Command /\ Head(queue[t]) = queue[t][1] /\ 1 \in DOMAIN queue[t]
      BY <2>1, <2>3
    <3>3. CASE Head(queue[t]).type = "create" /\ CreateSession(t, Head(queue[t]).id)
      <4>1. Head(queue[t]).id \in Sockets /\ Creates(t, 1, Head(queue[t]).id)
        BY <3>2, <3>3 DEF Command, Creates
      <4> QED
        BY <2>1, <3>1, <3>3, <4>1, CreateKeepsFresh
    <3>4. CASE \A u \in Locals, j \in Slots : slot'[u][j] = slot[u][j] \/ slot'[u][j] = None
      <4>1. \A u \in Locals, n \in Nat, k \in Sockets : Creates(u, n, k)' =>
              \E m \in Nat : Creates(u, m, k) /\ (u = t => m = n + 1) /\ (u # t => m = n)
        <5> SUFFICES ASSUME NEW u \in Locals, NEW n \in Nat, NEW k \in Sockets, Creates(u, n, k)'
                     PROVE  \E m \in Nat : Creates(u, m, k) /\ (u = t => m = n + 1) /\ (u # t => m = n)
          OBVIOUS
        <5>1. IF u = t THEN n >= 1 /\ Creates(t, n + 1, k) ELSE Creates(u, n, k)
          BY <2>1, <2>3, <3>1, TailCreates
        <5>2. CASE u = t
          BY <5>1, <5>2
        <5>3. CASE u # t
          BY <5>1, <5>3
        <5> QED
          BY <5>2, <5>3
      <4>2. \A k : InSlot(k)' /\ k # None => InSlot(k)
        BY <3>4 DEF InSlot
      <4>3. ASSUME NEW u \in Locals, NEW n \in Nat, NEW k \in Sockets, Creates(u, n, k)'
            PROVE  /\ k \in accepted' /\ ~InSlot(k)' /\ k # incoming'
                   /\ \A v \in Locals, m \in Nat : Creates(v, m, k)' => v = u /\ m = n
        <5>1. PICK old \in Nat : Creates(u, old, k) /\ (u = t => old = n + 1) /\ (u # t => old = n)
          BY <4>1, <4>3
        <5>2. /\ k \in accepted /\ ~InSlot(k) /\ k # incoming
              /\ \A v \in Locals, m \in Nat : Creates(v, m, k) => v = u /\ m = old
          BY <5>1 DEF FreshOK
        <5>3. ASSUME NEW v \in Locals, NEW m \in Nat, Creates(v, m, k)' PROVE v = u /\ m = n
          <6>1. PICK p \in Nat : Creates(v, p, k) /\ (v = t => p = m + 1) /\ (v # t => p = m)
            BY <4>1, <5>3
          <6>2. v = u /\ p = old
            BY <5>2, <6>1
          <6> QED
            BY <5>1, <6>1, <6>2
        <5> QED
          BY <2>1, <4>2, <5>2, <5>3
      <4>4. incoming # None => incoming \in accepted /\ ~InSlot(incoming)'
        <5>1. ASSUME incoming # None, NEW u \in Locals, NEW j \in Slots, slot'[u][j] = incoming PROVE FALSE
          <6>1. slot[u][j] = incoming
            BY <3>4, <5>1
          <6> QED
            BY <5>1, <6>1 DEF FreshOK, InSlot
        <5>2. InSlot(incoming)' => \E u \in Locals, j \in Slots : slot'[u][j] = incoming
          BY <2>1 DEF InSlot
        <5> QED
          BY <5>1, <5>2 DEF FreshOK
      <4>5. \A k \in Sockets : InSlot(k)' => k \in accepted
        BY <4>2 DEF FreshOK
      <4>6. \A v, u \in Locals : \A i, j \in Slots :
              slot'[v][i] = slot'[u][j] /\ slot'[v][i] # None => v = u /\ i = j
        BY <3>4 DEF FreshOK
      <4> QED
        BY <2>1, <4>3, <4>4, <4>5, <4>6 DEF FreshOK
    <3> QED
      BY <1>4, <2>3, <3>3, <3>4, RemovedSlots, InvSessions DEF ProcessCommands
  <2> QED
    BY <2>2, <2>3
<1>5. ASSUME NEW t \in Locals, ProcessSessions(t) PROVE FreshOK'
  <2>1. queue' = queue /\ incoming' = incoming /\ accepted' = accepted
    BY <1>5 DEF ProcessSessions
  <2>2. \A u \in Locals, j \in Slots : slot'[u][j] = slot[u][j] \/ slot'[u][j] = None
    BY <1>5, RemovedSlots, InvSessions DEF ProcessSessions, Visit
  <2>3. \A u \in Locals, n \in Nat, k \in Sockets : Creates(u, n, k)' => Creates(u, n, k)
    BY <2>1 DEF Creates
  <2> QED
    BY <2>1, <2>2, <2>3, KeepFresh
<1>6. ASSUME NEW t \in Locals, ProcessSessionPackets(t) PROVE FreshOK'
  <2>1. slot' = slot /\ incoming' = incoming /\ accepted' = accepted
    BY <1>6 DEF ProcessSessionPackets, Restore, Refuse
  <2>2. current[t] \in Sockets
    BY <1>6 DEF ProcessSessionPackets, Inv, WalkOK, WalkAt
  <2>3. [type |-> "remove", id |-> current[t]] \in Command
    BY <2>2 DEF Command
  <2>4. queue' = queue \/ queue' = Pushed(t, [type |-> "remove", id |-> current[t]])
    BY <1>6 DEF ProcessSessionPackets, Restore, Refuse
  <2> QED
    BY <1>2, <1>3, <2>1, <2>3, <2>4
<1>7. CASE StopThread
  <2>1. stopping \in Locals /\ [type |-> "shutdown"] \in Command
    BY <1>7 DEF StopThread, Inv, StopOK, Command
  <2> QED
    BY <1>3, <1>7, <2>1 DEF StopThread
<1>8. CASE CleanSessions
  <2>1. queue' = queue /\ incoming' = incoming /\ accepted' = accepted
    BY <1>8 DEF CleanSessions
  <2>2. \A u \in Locals, j \in Slots : slot'[u][j] = slot[u][j] \/ slot'[u][j] = None
    BY <1>8 DEF CleanSessions, Inv, TypeOK
  <2>3. \A u \in Locals, n \in Nat, k \in Sockets : Creates(u, n, k)' => Creates(u, n, k)
    BY <2>1 DEF Creates
  <2> QED
    BY <2>1, <2>2, <2>3, KeepFresh
<1>9. CASE \/ \E s \in Sockets : OnSocketDisconnected(s)
           \/ DestroyPosted \/ (\E t \in Locals : Tick(t)) \/ StopListener
           \/ JoinThread \/ StopIo \/ JoinIo \/ ShutdownPool \/ UNCHANGED vars
  BY <1>2, <1>9 DEF OnSocketDisconnected, DestroyPosted, Tick, StopListener, JoinThread, StopIo, JoinIo,
                    ShutdownPool, vars
<1> QED
  BY <1>1, <1>4, <1>5, <1>6, <1>7, <1>8, <1>9 DEF Next, LocalThread, Main

\* Where neither the thread nor its sessions change, neither does what it has to visit.
LEMMA KeepVisit ==
  ASSUME NEW u \in Locals, VisitAt(u),
         lpc'[u] \in {"sessions", "packets"} => lpc[u] \in {"sessions", "packets"},
         index'[u] = index[u], unvisited'[u] = unvisited[u], slot'[u] = slot[u], active'[u] = active[u]
  PROVE  VisitAt(u)'
  BY DEF VisitAt
\* RemoveSession at the index of the walk: what stands before it stays where it was.
LEMMA RemovedAtIndex ==
  ASSUME Inv, FreshOK, NEW t \in Locals, NEW h \in DOMAIN active[t],
         RemoveSession(t, slot[t][active[t][h]])
  PROVE  \A n \in 1 .. h - 1 : slot'[t][active'[t][n]] = slot[t][active[t][n]]
<1> DEFINE s == slot[t][active[t][h]]
           g == CHOOSE m \in DOMAIN active[t] : slot[t][active[t][m]] = s
<1>1. /\ active[t] \in Seq(Slots) /\ slot[t] \in [Slots -> Sockets \cup {None}]
      /\ slot \in [Locals -> [Slots -> Sockets \cup {None}]] /\ active \in [Locals -> Seq(Slots)]
  BY DEF Inv, TypeOK
<1>2. Lists(active[t], Used(t))
  BY ActiveLists DEF Inv
<1>3. \A m \in DOMAIN active[t] : active[t][m] \in Slots /\ slot[t][active[t][m]] # None
  BY <1>2 DEF Lists, Used
<1>4. \A m, n \in DOMAIN active[t] : slot[t][active[t][m]] = slot[t][active[t][n]] => m = n
  BY <1>2, <1>3 DEF Lists, FreshOK
<1>5. g \in DOMAIN active[t] /\ slot[t][active[t][g]] = s
  OBVIOUS
<1>6. g = h
  BY <1>4, <1>5
<1>7. slot' = [slot EXCEPT ![t][active[t][g]] = None] /\ active' = [active EXCEPT ![t] = SwapRemove(@, g)]
  BY DEF RemoveSession
<1> HIDE DEF g, s
<1>8. slot'[t] = [slot[t] EXCEPT ![active[t][h]] = None] /\ active'[t] = SwapRemove(active[t], h)
  BY <1>1, <1>6, <1>7
<1> SUFFICES ASSUME NEW n \in 1 .. h - 1 PROVE slot'[t][active'[t][n]] = slot[t][active[t][n]]
  OBVIOUS
<1>9. n \in DOMAIN active[t] /\ n # h /\ n \in 1 .. Len(active[t]) - 1 /\ h \in 1 .. Len(active[t])
  BY <1>1
<1>10. active'[t][n] = active[t][n]
  BY <1>1, <1>8, <1>9 DEF SwapRemove
<1>11. active[t][n] # active[t][h] /\ active[t][n] \in Slots
  BY <1>2, <1>3, <1>9 DEF Lists
<1> QED
  BY <1>1, <1>8, <1>10, <1>11

LEMMA VisitStep == ASSUME Inv, FreshOK, VisitOK, [Next]_vars PROVE VisitOK'
<1> USE DEF walkVars, slotVars, sessionVars, threadVars, VisitOK
<1>1. /\ lpc \in [Locals -> {"tick", "commands", "sessions", "packets", "ended"}]
      /\ index \in [Locals -> 0 .. MaxSessions] /\ unvisited \in [Locals -> SUBSET Sockets]
      /\ slot \in [Locals -> [Slots -> Sockets \cup {None}]] /\ active \in [Locals -> Seq(Slots)]
  BY DEF Inv, TypeOK
<1>2. CASE UNCHANGED <<lpc, index, unvisited, slot, active>>
  BY <1>2 DEF VisitAt
<1>3. ASSUME NEW t \in Locals, OnlyOf(t), VisitAt(t)',
             \A u \in Locals \ {t} : lpc'[u] = lpc[u] /\ index'[u] = index[u] /\ unvisited'[u] = unvisited[u]
      PROVE  VisitOK'
  <2>1. ASSUME NEW u \in Locals \ {t} PROVE VisitAt(u)'
    <3>1. /\ VisitAt(u) /\ lpc'[u] = lpc[u] /\ index'[u] = index[u] /\ unvisited'[u] = unvisited[u]
          /\ slot'[u] = slot[u] /\ active'[u] = active[u]
      BY <1>3 DEF OnlyOf
    <3> QED
      BY <3>1, KeepVisit
  <2> QED
    BY <1>3, <2>1
<1>4. \A t \in Locals : UNCHANGED <<slot, active>> => OnlyOf(t)
  BY DEF OnlyOf
<1>5. ASSUME NEW t \in Locals, StartWalk(t), UNCHANGED <<slot, active>> PROVE VisitOK'
  <2>1. /\ lpc' = [lpc EXCEPT ![t] = "sessions"] /\ index' = [index EXCEPT ![t] = Len(active[t])]
        /\ unvisited' = [unvisited EXCEPT ![t] = Ids(t)]
    BY <1>5 DEF StartWalk, Goto
  <2>2. index'[t] = Len(active[t]) /\ unvisited'[t] = Ids(t) /\ DOMAIN active[t] = 1 .. Len(active[t])
    BY <1>1, <2>1
  <2>3. VisitAt(t)'
    BY <1>5, <2>2 DEF VisitAt, Ids
  <2>4. \A u \in Locals \ {t} : lpc'[u] = lpc[u] /\ index'[u] = index[u] /\ unvisited'[u] = unvisited[u]
    BY <1>1, <2>1
  <2> QED
    BY <1>3, <1>4, <1>5, <2>3, <2>4
<1>6. ASSUME NEW t \in Locals, Tick(t) PROVE VisitOK'
  <2>1. lpc'[t] \in {"commands", "ended"} /\ \A u \in Locals \ {t} : lpc'[u] = lpc[u]
    BY <1>1, <1>6 DEF Tick, Goto
  <2>2. VisitAt(t)' /\ UNCHANGED <<index, unvisited, slot, active>>
    BY <1>6, <2>1 DEF VisitAt, Tick
  <2> QED
    BY <1>3, <1>4, <2>1, <2>2
<1>7. ASSUME NEW t \in Locals, ProcessCommands(t) PROVE VisitOK'
  <2>1. CASE StartWalk(t) /\ UNCHANGED <<slot, active>>
    BY <1>5, <2>1
  <2>2. CASE UNCHANGED <<lpc, walkVars>> /\ OnlyOf(t)
    <3>1. VisitAt(t)'
      BY <1>7, <2>2 DEF VisitAt, ProcessCommands
    <3> QED
      BY <1>3, <2>2, <3>1
  <2>3. queue[t] # <<>> => Head(queue[t]) \in Command
    BY DEF Inv, TypeOK
  <2>4. ASSUME queue[t] # <<>>, Head(queue[t]).type = "create", CreateSession(t, Head(queue[t]).id)
        PROVE  OnlyOf(t)
    BY <2>3, <2>4, CreateSessionStep, InvSessions DEF Command
  <2>5. ASSUME queue[t] # <<>>, Head(queue[t]).type = "remove", RemoveSession(t, Head(queue[t]).id)
        PROVE  OnlyOf(t)
    BY <2>3, <2>5, RemoveSessionStep, InvSessions DEF Command
  <2> QED
    BY <1>7, <2>1, <2>2, <2>4, <2>5 DEF ProcessCommands
<1>8. ASSUME NEW t \in Locals, ProcessSessions(t) PROVE VisitOK'
  <2>1. CASE Goto(t, "tick") /\ UNCHANGED <<walkVars, slotVars, sessionVars>>
    <3>1. lpc'[t] = "tick" /\ \A u \in Locals \ {t} : lpc'[u] = lpc[u]
      BY <1>1, <2>1 DEF Goto
    <3>2. VisitAt(t)'
      BY <3>1 DEF VisitAt
    <3> QED
      BY <1>3, <1>4, <2>1, <3>1, <3>2
  <2>2. CASE index[t] > 0 /\ Visit(t, index[t])
    <3> DEFINE h == index[t]
               s == slot[t][active[t][h]]
    <3>1. lpc[t] = "sessions" /\ h \in Nat /\ h - 1 \in Nat
      BY <1>1, <1>8, <2>2 DEF ProcessSessions
    <3>2. h \in DOMAIN active[t] /\ DOMAIN active[t] = 1 .. Len(active[t])
      <4>1. h <= Len(active[t])
        BY <3>1 DEF Inv, WalkOK, WalkAt
      <4> QED
        BY <1>1, <2>2, <3>1, <4>1
    <3>3. unvisited[t] = {slot[t][active[t][n]] : n \in 1 .. h}
      BY <3>1 DEF VisitAt
    <3>4. /\ index'[t] = h - 1 /\ unvisited'[t] = unvisited[t] \ {s}
          /\ \A u \in Locals \ {t} : index'[u] = index[u] /\ unvisited'[u] = unvisited[u]
      BY <1>1, <2>2 DEF Visit
    <3>5. \A m, n \in DOMAIN active[t] : slot[t][active[t][m]] = slot[t][active[t][n]] => m = n
      <4>1. Lists(active[t], Used(t))
        BY ActiveLists DEF Inv
      <4>2. \A m \in DOMAIN active[t] : active[t][m] \in Slots /\ slot[t][active[t][m]] # None
        BY <4>1 DEF Lists, Used
      <4> QED
        BY <4>1, <4>2 DEF Lists, FreshOK
    <3> HIDE DEF h, s
    <3>6. unvisited'[t] = {slot[t][active[t][n]] : n \in 1 .. h - 1}
      <4>1. s = slot[t][active[t][h]]
        BY DEF s, h
      <4>2. \A n \in 1 .. h - 1 : n \in DOMAIN active[t] /\ slot[t][active[t][n]] # s
        BY <3>1, <3>2, <3>5, <4>1
      <4>3. \A n \in 1 .. h : n = h \/ n \in 1 .. h - 1
        BY <3>1
      <4>4. \A n \in 1 .. h - 1 : n \in 1 .. h
        BY <3>1
      <4> QED
        BY <3>3, <3>4, <4>1, <4>2, <4>3, <4>4
    <3>7. /\ \A u \in Locals \ {t} : lpc'[u] = lpc[u]
          /\ OnlyOf(t)
          /\ \A n \in 1 .. h - 1 : slot'[t][active'[t][n]] = slot[t][active[t][n]]
      <4>1. CASE UNCHANGED slotVars /\ (Goto(t, "packets") \/ lpc' = lpc)
        BY <1>1, <1>4, <4>1 DEF Goto
      <4>2. CASE RemoveSession(t, s) /\ lpc' = lpc
        <5>1. s \in Sockets
          <6>1. s \in Ids(t)
            BY <3>2 DEF Ids, s
          <6> QED
            BY <6>1, IdsType, InvSessions
        <5>2. OnlyOf(t)
          BY <4>2, <5>1, RemoveSessionStep, InvSessions
        <5>3. \A n \in 1 .. h - 1 : slot'[t][active'[t][n]] = slot[t][active[t][n]]
          BY <3>2, <4>2, RemovedAtIndex DEF s
        <5> QED
          BY <4>2, <5>2, <5>3
      <4> QED
        BY <2>2, <4>1, <4>2 DEF Visit, s, h
    <3>8. VisitAt(t)'
      BY <3>4, <3>6, <3>7 DEF VisitAt
    <3> QED
      BY <1>3, <3>4, <3>7, <3>8
  <2> QED
    BY <1>8, <2>1, <2>2 DEF ProcessSessions
<1>9. ASSUME NEW t \in Locals, ProcessSessionPackets(t) PROVE VisitOK'
  <2>1. UNCHANGED <<index, unvisited, slot, active>> /\ lpc[t] = "packets"
    BY <1>9 DEF ProcessSessionPackets, Restore, Refuse
  <2>2. \A u \in Locals \ {t} : lpc'[u] = lpc[u]
    BY <1>1, <1>9 DEF ProcessSessionPackets, Goto
  <2>3. VisitAt(t)'
    BY <2>1, KeepVisit
  <2> QED
    BY <1>3, <1>4, <2>1, <2>2, <2>3
<1>10. CASE CleanSessions
  <2>1. stopping \in Locals /\ lpc[stopping] = "ended" /\ UNCHANGED <<lpc, index, unvisited>>
    BY <1>10 DEF CleanSessions, Inv, StopOK
  <2>2. OnlyOf(stopping)
    BY <1>1, <1>10 DEF CleanSessions, OnlyOf
  <2>3. ASSUME NEW t \in Locals, t = stopping PROVE VisitAt(t)'
    BY <2>1, <2>3 DEF VisitAt
  <2>4. PICK t \in Locals : t = stopping
    BY <2>1
  <2> QED
    BY <1>3, <2>1, <2>2, <2>3, <2>4
<1>11. CASE \/ OnAccept \/ AcceptHandler \/ (\E s \in Sockets : OnSocketDisconnected(s)) \/ DestroyPosted
            \/ StopListener \/ StopThread \/ JoinThread \/ StopIo \/ JoinIo \/ ShutdownPool \/ UNCHANGED vars
  BY <1>2, <1>11 DEF OnAccept, AcceptHandler, OnAborted, Scan, Route, PostCreateSession, DoAccept,
                     OnSocketDisconnected, DestroyPosted, StopListener, StopThread, JoinThread, StopIo, JoinIo,
                     ShutdownPool, vars
<1> QED
  BY <1>6, <1>7, <1>8, <1>9, <1>10, <1>11 DEF Next, LocalThread, Main
\* ProcessSessions walks the active sessions backwards while RemoveSession moves the last one
\* into the gap: whatever is removed on the way, as many sessions are left to be visited as the
\* index says, so that each one that was there when the walk began is visited once.
THEOREM SessionsAreVisitedOnce == Spec => []EachVisitedOnce
<1>1. Inv /\ FreshOK /\ VisitOK => EachVisitedOnce
  <2> SUFFICES ASSUME Inv, FreshOK, VisitOK, NEW t \in Locals, lpc[t] \in {"sessions", "packets"}
               PROVE  index[t] <= Len(active[t]) /\ Cardinality(unvisited[t]) = index[t]
    BY DEF EachVisitedOnce
  <2> DEFINE S == 1 .. index[t]
             f == [n \in S |-> slot[t][active[t][n]]]
  <2>1. index[t] \in Nat /\ index[t] <= Len(active[t]) /\ active[t] \in Seq(Slots)
    <3>1. index[t] \in 0 .. MaxSessions /\ active[t] \in Seq(Slots)
      BY DEF Inv, TypeOK
    <3>2. index[t] <= Len(active[t])
      BY DEF Inv, WalkOK, WalkAt
    <3> QED
      BY <3>1, <3>2, CountAssumption
  <2>2. unvisited[t] = {f[n] : n \in S}
    BY DEF VisitOK, VisitAt
  <2>3. \A m, n \in S : f[m] = f[n] => m = n
    <3>1. Lists(active[t], Used(t))
      BY ActiveLists DEF Inv
    <3>2. \A m \in S : m \in DOMAIN active[t] /\ active[t][m] \in Slots /\ slot[t][active[t][m]] # None
      BY <2>1, <3>1 DEF Lists, Used
    <3> QED
      BY <3>1, <3>2 DEF Lists, FreshOK
  <2>4. IsFiniteSet(S) /\ Cardinality(S) = index[t]
    BY <2>1, FS_Interval
  <2>5. f \in [S -> unvisited[t]] /\ DOMAIN f = S
    BY <2>2
  <2> HIDE DEF S, f
  <2>6. f \in Surjection(S, unvisited[t]) /\ f \in Injection(S, unvisited[t])
    <3>1. \A k \in unvisited[t] : \E n \in S : f[n] = k
      BY <2>2
    <3>2. f \in Surjection(S, unvisited[t])
      BY <2>5, <3>1 DEF Surjection
    <3> QED
      BY <2>3, <2>5, <3>2 DEF Injection, IsInjective
  <2>7. Cardinality(unvisited[t]) = Cardinality(S)
    BY <2>4, <2>6, FS_Surjection
  <2> QED
    BY <2>1, <2>4, <2>7
<1>2. Init => VisitOK
  BY DEF Init, VisitOK, VisitAt
<1>3. Inv /\ FreshOK /\ VisitOK /\ [Next]_vars => FreshOK' /\ VisitOK'
  BY FreshStep, VisitStep
<1> QED
  BY <1>1, <1>2, <1>3, FreshInit, Invariance, PTL DEF Spec
================================================================================
