------------------------------- MODULE MPSCQueue -------------------------------
(***************************************************************************)
(* The lock-free ring with several producers and one consumer               *)
(* (MPSCQueue<T, Capacity>), one access to shared memory per step, and the  *)
(* two ways it is used: CSocket::Send looks at ApproximateSize first and    *)
(* does not push at the limit, CLocalThread::PostCommand just pushes (Limit *)
(* too large to matter).  The counters are size_t: they never wrap in the   *)
(* bounded life of a queue, but their difference is unsigned.               *)
(***************************************************************************)
EXTENDS Integers, Sequences, FiniteSets

CONSTANTS
  Producers,   \* the threads that push
  Capacity,    \* slots of the ring
  Limit,       \* CNetworkMonitor::GetCurrentSendQueueLimit()
  Word,        \* 2^64
  NoItem,      \* what an unused element of Buffer_ holds
  MaxPushes    \* bound: pushes a producer attempts

ASSUME SizeAssumption ==
  Capacity \in Nat \ {0} /\ Limit \in Nat \ {0} /\ MaxPushes \in Nat /\ Word \in Nat /\ Word >= Capacity
ASSUME ProducerAssumption == IsFiniteSet(Producers)

VARIABLES
  tail, head,       \* Tail_, Head_
  slots, buffer,    \* Slots_, Buffer_
  ppc,              \* where each producer is
  seen,             \* the head a producer has loaded in ApproximateSize
  ticket,           \* the tail it got from fetch_add
  pushes,           \* pushes it has begun; its item is the pair of its name and this number
  cpc, taken,       \* where the consumer is, and its out_item
  accepted, popped  \* history: items whose Push returned true; items popped, in order

ringVars     == <<tail, head, slots, buffer>>
producerVars == <<ppc, seen, ticket, pushes>>
consumerVars == <<cpc, taken>>
vars == <<ringVars, producerVars, consumerVars, accepted, popped>>

Items == Producers \X (1 .. MaxPushes)
Item(p) == <<p, pushes[p]>>
Elements == 0 .. Capacity - 1

\* tail & (Capacity - 1); Capacity is a power of two.  Mutant: the mask is the modulus.
IndexByMask(n) == n % (Capacity - 1)
Index(n) == n % Capacity

\* a - b in size_t.
Distance(a, b) == IF b <= a THEN a - b ELSE Word + a - b

\* Type correctness; in particular, no unused element is ever popped.
TypeOK ==
  /\ tail \in Nat /\ head \in Nat
  /\ slots \in [Elements -> BOOLEAN]
  /\ buffer \in [Elements -> Items \cup {NoItem}]
  /\ ppc \in [Producers -> {"idle", "measure", "claim", "examine", "store", "publish"}]
  /\ seen \in [Producers -> Nat]
  /\ ticket \in [Producers -> Nat]
  /\ pushes \in [Producers -> 0 .. MaxPushes]
  /\ cpc \in {"idle", "clear", "advance"}
  /\ taken \in Items \cup {NoItem}
  /\ accepted \subseteq Items
  /\ popped \in Seq(Items)

Init ==
  /\ tail = 0 /\ head = 0
  /\ slots = [i \in Elements |-> FALSE]
  /\ buffer = [i \in Elements |-> NoItem]
  /\ ppc = [p \in Producers |-> "idle"]
  /\ seen = [p \in Producers |-> 0]
  /\ ticket = [p \in Producers |-> 0]
  /\ pushes = [p \in Producers |-> 0]
  /\ cpc = "idle" /\ taken = NoItem
  /\ accepted = {} /\ popped = <<>>

-------------------------------------------------------------------------------
(* A producer: CSocket::Send.                                               *)

\* ApproximateSize: load Head_ ...
MeasureHead(p) ==
  /\ ppc[p] = "idle" /\ pushes[p] < MaxPushes
  /\ pushes' = [pushes EXCEPT ![p] = @ + 1]
  /\ seen' = [seen EXCEPT ![p] = head]
  /\ ppc' = [ppc EXCEPT ![p] = "measure"]
  /\ UNCHANGED <<ringVars, ticket, consumerVars, accepted, popped>>

\* ... then Tail_; a queue at its limit is not pushed to.  Mutant: the limit itself passes.
MeasureTailInclusive(p) ==
  /\ ppc[p] = "measure"
  /\ ppc' = [ppc EXCEPT ![p] = IF tail >= seen[p] /\ tail - seen[p] > Limit THEN "idle" ELSE "claim"]
  /\ UNCHANGED <<ringVars, seen, ticket, pushes, consumerVars, accepted, popped>>

MeasureTail(p) ==
  /\ ppc[p] = "measure"
  /\ ppc' = [ppc EXCEPT ![p] = IF tail >= seen[p] /\ tail - seen[p] >= Limit THEN "idle" ELSE "claim"]
  /\ UNCHANGED <<ringVars, seen, ticket, pushes, consumerVars, accepted, popped>>

\* Push: Tail_.fetch_add(1).
Claim(p) ==
  /\ ppc[p] = "claim"
  /\ ticket' = [ticket EXCEPT ![p] = tail]
  /\ tail' = tail + 1
  /\ ppc' = [ppc EXCEPT ![p] = "examine"]
  /\ UNCHANGED <<head, slots, buffer, seen, pushes, consumerVars, accepted, popped>>

\* Push: load Head_ and compare; a full queue gets its Tail_ back by fetch_sub(1).  The two
\* accesses are one step: what comes between them might as well come before the first,
\* since nobody who writes Head_ reads Tail_.
Examine(p) ==
  /\ ppc[p] = "examine"
  /\ IF Distance(ticket[p], head) >= Capacity
     THEN tail' = tail - 1 /\ ppc' = [ppc EXCEPT ![p] = "idle"]
     ELSE ppc' = [ppc EXCEPT ![p] = "store"] /\ UNCHANGED tail
  /\ UNCHANGED <<head, slots, buffer, seen, ticket, pushes, consumerVars, accepted, popped>>

\* Push: write the element ...
Store(p) ==
  /\ ppc[p] = "store"
  /\ buffer' = [buffer EXCEPT ![Index(ticket[p])] = Item(p)]
  /\ ppc' = [ppc EXCEPT ![p] = "publish"]
  /\ UNCHANGED <<tail, head, slots, seen, ticket, pushes, consumerVars, accepted, popped>>

\* ... and set its flag.  Mutant: the flag is not set.
PublishNothing(p) ==
  /\ ppc[p] = "publish"
  /\ accepted' = accepted \cup {Item(p)}
  /\ ppc' = [ppc EXCEPT ![p] = "idle"]
  /\ UNCHANGED <<ringVars, seen, ticket, pushes, consumerVars, popped>>

Publish(p) ==
  /\ ppc[p] = "publish"
  /\ slots' = [slots EXCEPT ![Index(ticket[p])] = TRUE]
  /\ accepted' = accepted \cup {Item(p)}
  /\ ppc' = [ppc EXCEPT ![p] = "idle"]
  /\ UNCHANGED <<tail, head, buffer, seen, ticket, pushes, consumerVars, popped>>

-------------------------------------------------------------------------------
(* The consumer: Pop, and each turn of PopBatch's loop.                     *)

\* Only a set flag lets the consumer read; the element is read while the flag is set.
\* Mutant: the consumer goes by the tail alone.
TakeBelowTail ==
  /\ cpc = "idle" /\ head < tail
  /\ taken' = buffer[Index(head)]
  /\ cpc' = "clear"
  /\ UNCHANGED <<ringVars, producerVars, accepted, popped>>

Take ==
  /\ cpc = "idle" /\ slots[Index(head)]
  /\ taken' = buffer[Index(head)]
  /\ cpc' = "clear"
  /\ UNCHANGED <<ringVars, producerVars, accepted, popped>>

\* Mutant: the flag stays set.
ClearNothing ==
  /\ cpc = "clear"
  /\ cpc' = "advance"
  /\ UNCHANGED <<ringVars, taken, producerVars, accepted, popped>>

Clear ==
  /\ cpc = "clear"
  /\ slots' = [slots EXCEPT ![Index(head)] = FALSE]
  /\ cpc' = "advance"
  /\ UNCHANGED <<tail, head, buffer, taken, producerVars, accepted, popped>>

Advance ==
  /\ cpc = "advance"
  /\ head' = head + 1
  /\ popped' = Append(popped, taken)
  /\ cpc' = "idle"
  /\ UNCHANGED <<tail, slots, buffer, taken, producerVars, accepted>>

ProducerStep(p) ==
  \/ MeasureHead(p) \/ MeasureTail(p) \/ Claim(p) \/ Examine(p) \/ Store(p) \/ Publish(p)

ConsumerStep == Take \/ Clear \/ Advance

Next == (\E p \in Producers : ProducerStep(p)) \/ ConsumerStep

Spec == Init /\ [][Next]_vars

\* A thread inside Push is not stopped for ever, and the consumer polls the queue: the
\* local thread in every tick, the strand of a socket whenever bIsSending is set.
FairSpec ==
  /\ Spec
  /\ \A p \in Producers : WF_vars(ProducerStep(p))
  /\ WF_vars(ConsumerStep)

-------------------------------------------------------------------------------
(* Properties.                                                              *)

InFlight == {p \in Producers : ppc[p] \in {"examine", "store", "publish"}}

\* A push made after the size check never finds the ring full, so the rollback of the
\* tail is never taken: the limit leaves room for every producer that measured the size
\* before the others pushed (CSocket::Send, MAX_SEND_QUEUE_SIZE_LOD0 against
\* SEND_QUEUE_CAPACITY).
NeverFull ==
  \A p \in Producers : ppc[p] = "examine" => Distance(ticket[p], head) < Capacity

\* An item whose Push returned true has been popped or waits in the window between head
\* and tail, with its flag set until the consumer takes it.
NothingLost ==
  \A i \in accepted :
    \/ \E n \in 1 .. Len(popped) : popped[n] = i
    \/ \E k \in head .. tail - 1 :
         buffer[Index(k)] = i /\ (slots[Index(k)] \/ (k = head /\ cpc = "advance"))

\* Nothing is popped twice, and nothing that was never pushed.
PoppedOnce ==
  /\ \A n \in 1 .. Len(popped) : popped[n] \in accepted
  /\ \A m, n \in 1 .. Len(popped) : popped[m] = popped[n] => m = n

\* Every item whose Push returned true is popped in the end.
EveryItemArrives ==
  \A i \in Items : i \in accepted ~> \E n \in 1 .. Len(popped) : popped[n] = i

\* The ring implements PacketFifo: the places are the tickets between head and tail.  A
\* place is ready once no producer is at work on it.
Holders(k) == {p \in InFlight : ticket[p] = k}
Place(k) ==
  [item  |-> IF Holders(k) = {} THEN buffer[Index(k)] ELSE Item(CHOOSE p \in Holders(k) : TRUE),
   ready |-> Holders(k) = {}]
Fifo == INSTANCE PacketFifo
          WITH queue <- [n \in 1 .. tail - head |-> Place(head + n - 1)], delivered <- popped
IsFifo == Fifo!Spec
=============================================================================
