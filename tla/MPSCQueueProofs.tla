---------------------------- MODULE MPSCQueueProofs ----------------------------
(* For any number of producers and a ring of any size: if the limit leaves a place for   *)
(* every producer that may have measured the queue before the others pushed, the ring is *)
(* never found full, loses nothing, hands out nothing twice, and is a queue.             *)
EXTENDS MPSCQueue, Remainders, FiniteSetTheorems, SequenceTheorems, TLAPS

\* What SEND_QUEUE_CAPACITY (8192) leaves above MAX_SEND_QUEUE_SIZE_LOD0 (4000), the
\* largest limit the network monitor sets: room for every thread that sends.
RoomForAll == Limit + Cardinality(Producers) <= Capacity + 1

\* Those who have found room and not yet taken a place.
Claiming == {p \in Producers : ppc[p] = "claim"}

Waiting == head .. tail - 1

\* A place whose element is there for the consumer: taken, and no producer at work on it.
Stored(k) == k \in Waiting /\ Holders(k) = {}

Popped == {popped[n] : n \in 1 .. Len(popped)}

\* The head a producer has seen only grows older, and what it was promised is still there.
CountOK ==
  /\ head <= tail
  /\ tail - head + Cardinality(Claiming) <= Limit + Cardinality(Producers) - 1
  /\ \A p \in Producers : seen[p] <= head

\* No two producers work on one place, and all of them between head and tail.
TicketsOK ==
  /\ \A p \in InFlight : ticket[p] \in Waiting
  /\ \A p, q \in InFlight : ticket[p] = ticket[q] => p = q
  /\ \A p \in Producers : ppc[p] = "publish" => buffer[Index(ticket[p])] = Item(p)

\* A flag is set for a stored element, until the consumer that has taken it clears it.
FlagsOK ==
  \A k \in head .. head + Capacity - 1 :
     slots[Index(k)] <=> Stored(k) /\ ~(k = head /\ cpc = "advance")

ConsumerOK == cpc # "idle" => Stored(head) /\ taken = buffer[Index(head)]

\* An item is stored once or popped once, and only if its Push returned true.
StoredOK ==
  /\ \A k \in Waiting : Stored(k) => buffer[Index(k)] \in accepted \ Popped
  /\ \A j, k \in Waiting : Stored(j) /\ Stored(k) /\ buffer[Index(j)] = buffer[Index(k)] => j = k
  /\ \A i \in accepted : i \in Popped \/ \E k \in Waiting : Stored(k) /\ buffer[Index(k)] = i

\* A producer numbers its pushes: the one it is at has not been accepted yet.
NumbersOK ==
  \A p \in Producers :
    /\ ppc[p] # "idle" => pushes[p] # 0
    /\ \A n \in 1 .. MaxPushes :
         <<p, n>> \in accepted => n <= pushes[p] /\ (ppc[p] # "idle" => n < pushes[p])

Inv ==
  TypeOK /\ CountOK /\ TicketsOK /\ FlagsOK /\ ConsumerOK /\ StoredOK /\ NumbersOK /\ PoppedOnce

--------------------------------------------------------------------------------
(* The ring: which counters share an element                                      *)

LEMMA IndexType == ASSUME NEW n \in Nat PROVE Index(n) \in Elements
  BY SizeAssumption, DivMod DEF Index, Elements

\* Two counters of one window have different elements.
LEMMA IndexApart ==
  ASSUME NEW h \in Nat, NEW j \in h .. h + Capacity - 1, NEW k \in h .. h + Capacity - 1, j # k
  PROVE  Index(j) # Index(k)
<1> USE SizeAssumption
<1>1. j \in Nat /\ k \in Nat /\ j < k + Capacity /\ k < j + Capacity
  OBVIOUS
<1>2. CASE j < k
  BY <1>1, <1>2, ModInjective DEF Index
<1>3. CASE k < j
  BY <1>1, <1>3, ModInjective DEF Index
<1> QED
  BY <1>1, <1>2, <1>3

LEMMA IndexAround == ASSUME NEW n \in Nat PROVE Index(n + Capacity) = Index(n)
  BY SizeAssumption, ModAround DEF Index

LEMMA ProducerCount == Cardinality(Producers) \in Nat
  BY ProducerAssumption, FS_CardinalityType

LEMMA ClaimingCount ==
  /\ IsFiniteSet(Claiming) /\ Cardinality(Claiming) \in Nat
  /\ Cardinality(Claiming) <= Cardinality(Producers)
  /\ \A p \in Producers : ppc[p] = "claim" => Cardinality(Claiming) >= 1
<1>1. Claiming \subseteq Producers
  BY DEF Claiming
<1>2. IsFiniteSet(Claiming) /\ Cardinality(Claiming) <= Cardinality(Producers)
  BY <1>1, ProducerAssumption, FS_Subset
<1>3. Cardinality(Claiming) \in Nat
  BY <1>2, FS_CardinalityType
<1>4. ASSUME NEW p \in Producers, ppc[p] = "claim" PROVE Cardinality(Claiming) >= 1
  <2>1. Claiming # {}
    BY <1>4 DEF Claiming
  <2>2. Cardinality(Claiming) # 0
    BY <1>2, <2>1, FS_EmptySet
  <2> QED
    BY <1>3, <2>2
<1> QED
  BY <1>2, <1>3, <1>4

LEMMA ClaimingCountNext ==
  /\ IsFiniteSet(Claiming') /\ Cardinality(Claiming') \in Nat
  /\ Cardinality(Claiming') <= Cardinality(Producers)
<1>1. Claiming' \subseteq Producers
  BY DEF Claiming
<1>2. IsFiniteSet(Claiming') /\ Cardinality(Claiming') <= Cardinality(Producers)
  BY <1>1, ProducerAssumption, FS_Subset
<1> QED
  BY <1>2, FS_CardinalityType

\* The window is never longer than the ring, and shorter when somebody may take a place.
LEMMA SpaceLeft ==
  ASSUME RoomForAll, TypeOK, CountOK
  PROVE  /\ tail <= head + Capacity
         /\ \A p \in Producers : ppc[p] = "claim" => tail < head + Capacity
  BY SizeAssumption, ProducerCount, ClaimingCount DEF RoomForAll, TypeOK, CountOK

LEMMA InitInv == ASSUME RoomForAll PROVE Init => Inv
<1> SUFFICES ASSUME Init PROVE Inv
  OBVIOUS
<1> USE SizeAssumption DEF Init
<1>1. TypeOK
  BY DEF TypeOK
<1>2. CountOK
  <2>1. Claiming = {}
    BY DEF Claiming
  <2>2. Cardinality(Claiming) = 0
    BY <2>1, FS_EmptySet
  <2> QED
    BY <2>2, ProducerCount DEF CountOK
<1>3. Waiting = {} /\ InFlight = {}
  BY DEF Waiting, InFlight
<1>4. TicketsOK
  BY <1>3 DEF TicketsOK
<1>5. FlagsOK
  <2> SUFFICES ASSUME NEW k \in head .. head + Capacity - 1 PROVE ~slots[Index(k)] /\ ~Stored(k)
    BY DEF FlagsOK
  <2>1. k \in Nat
    OBVIOUS
  <2> QED
    BY <1>3, <2>1, IndexType DEF Stored
<1>6. ConsumerOK /\ NumbersOK
  BY DEF ConsumerOK, NumbersOK
<1>7. StoredOK /\ PoppedOnce
  BY <1>3 DEF StoredOK, PoppedOnce
<1> QED
  BY <1>1, <1>2, <1>4, <1>5, <1>6, <1>7 DEF Inv

--------------------------------------------------------------------------------
(* The producers                                                                  *)

\* A step that touches neither the ring nor who works on which place.
LEMMA Elsewhere ==
  ASSUME Inv, TypeOK', UNCHANGED <<ringVars, ticket, consumerVars, accepted, popped>>,
         InFlight' = InFlight, \A q \in InFlight : pushes'[q] = pushes[q],
         \A q \in Producers : ppc'[q] = "publish" => ppc[q] = "publish"
  PROVE  TicketsOK' /\ FlagsOK' /\ ConsumerOK' /\ StoredOK' /\ PoppedOnce'
<1> USE DEF Inv, ringVars, consumerVars
<1>1. Waiting' = Waiting /\ Popped' = Popped /\ (\A k : Index(k)' = Index(k))
  BY DEF Waiting, Popped, Index
<1>2. \A k : Stored(k)' = Stored(k)
  BY <1>1 DEF Stored, Holders
<1>3. TicketsOK'
  <2>1. \A q \in Producers : ppc'[q] = "publish" => buffer'[Index(ticket'[q])] = Item(q)'
    BY DEF TicketsOK, Item, InFlight, Index
  <2> QED
    BY <1>1, <2>1 DEF TicketsOK
<1>4. FlagsOK' /\ ConsumerOK' /\ StoredOK' /\ PoppedOnce'
  BY <1>1, <1>2 DEF FlagsOK, ConsumerOK, StoredOK, PoppedOnce
<1> QED
  BY <1>3, <1>4

LEMMA MeasureHeadStep ==
  ASSUME Inv, NEW p \in Producers, MeasureHead(p) PROVE Inv'
<1> USE SizeAssumption DEF MeasureHead, ringVars, consumerVars
<1>1. TypeOK'
  BY DEF Inv, TypeOK
<1>2. InFlight' = InFlight /\ Claiming' = Claiming
  BY DEF Inv, TypeOK, InFlight, Claiming
<1>3. CountOK'
  BY <1>2 DEF Inv, TypeOK, CountOK
<1>4. \A q \in InFlight : pushes'[q] = pushes[q]
  BY DEF Inv, TypeOK, InFlight
<1>5. \A q \in Producers : ppc'[q] = "publish" => ppc[q] = "publish"
  BY DEF Inv, TypeOK
<1>6. TicketsOK' /\ FlagsOK' /\ ConsumerOK' /\ StoredOK' /\ PoppedOnce'
  BY <1>1, <1>2, <1>4, <1>5, Elsewhere
<1>7. NumbersOK'
  BY DEF Inv, TypeOK, NumbersOK
<1> QED
  BY <1>1, <1>3, <1>6, <1>7 DEF Inv

LEMMA MeasureTailStep ==
  ASSUME Inv, NEW p \in Producers, MeasureTail(p) PROVE Inv'
<1> USE SizeAssumption DEF MeasureTail, ringVars, consumerVars
<1>1. TypeOK'
  BY DEF Inv, TypeOK
<1>2. InFlight' = InFlight
  BY DEF Inv, TypeOK, InFlight
<1>3. CountOK'
  <2>1. CASE ppc'[p] = "claim"
    <3>1. tail - head < Limit
      BY <2>1 DEF Inv, TypeOK, CountOK
    <3> QED
      BY <3>1, ProducerCount, ClaimingCountNext DEF Inv, TypeOK, CountOK
  <2>2. CASE ppc'[p] # "claim"
    <3>1. Claiming' = Claiming
      BY <2>2 DEF Inv, TypeOK, Claiming
    <3> QED
      BY <3>1 DEF Inv, TypeOK, CountOK
  <2> QED
    BY <2>1, <2>2
<1>4. \A q \in Producers : ppc'[q] = "publish" => ppc[q] = "publish"
  BY DEF Inv, TypeOK
<1>6. TicketsOK' /\ FlagsOK' /\ ConsumerOK' /\ StoredOK' /\ PoppedOnce'
  BY <1>1, <1>2, <1>4, Elsewhere
<1>7. NumbersOK'
  BY DEF Inv, TypeOK, NumbersOK
<1> QED
  BY <1>1, <1>3, <1>6, <1>7 DEF Inv

\* Taking a place: the tail grows, and the new place is not stored.
LEMMA ClaimStep ==
  ASSUME RoomForAll, Inv, NEW p \in Producers, Claim(p) PROVE Inv'
<1> USE SizeAssumption DEF Claim, consumerVars
<1>1. TypeOK'
  BY DEF Inv, TypeOK
<1>2. tail < head + Capacity /\ head <= tail /\ head \in Nat /\ tail \in Nat
  BY SpaceLeft DEF Inv, TypeOK, CountOK
<1>3. CountOK'
  <2>1. Claiming' = Claiming \ {p} /\ p \in Claiming
    BY DEF Inv, TypeOK, Claiming
  <2>2. Cardinality(Claiming') = Cardinality(Claiming) - 1
    BY <2>1, ClaimingCount, FS_RemoveElement
  <2> QED
    BY <1>2, <2>2, ClaimingCount, ProducerCount DEF Inv, TypeOK, CountOK
<1>4. InFlight' = InFlight \cup {p} /\ p \notin InFlight
  BY DEF Inv, TypeOK, InFlight
<1>5. \A q \in Producers : ticket'[q] = IF q = p THEN tail ELSE ticket[q]
  BY DEF Inv, TypeOK
<1>6. Waiting' = Waiting \cup {tail} /\ tail \notin Waiting
  BY <1>2 DEF Waiting
<1>7. \A q \in InFlight : ticket'[q] = ticket[q] /\ ticket[q] \in Waiting /\ ticket[q] # tail
  BY <1>4, <1>5, <1>6 DEF InFlight, Inv, TicketsOK
<1>8. \A k : Stored(k)' <=> Stored(k)
  <2>1. \A k : k # tail => Holders(k)' = Holders(k)
    BY <1>4, <1>5, <1>7 DEF Holders, InFlight
  <2>2. \A k : k = tail => p \in Holders(k)'
    BY <1>4, <1>5 DEF Holders
  <2> QED
    BY <1>6, <2>1, <2>2 DEF Stored
<1>9. TicketsOK'
  <2>1. ASSUME NEW q \in InFlight' PROVE ticket'[q] \in Waiting'
    <3>1. CASE q = p
      BY <1>5, <1>6, <3>1
    <3>2. CASE q # p
      <4>1. q \in InFlight
        BY <1>4, <3>2, <2>1
      <4> QED
        BY <1>6, <1>7, <4>1
    <3> QED
      BY <3>1, <3>2
  <2>2. ASSUME NEW q \in InFlight', NEW r \in InFlight', ticket'[q] = ticket'[r], q # r PROVE FALSE
    <3>1. ticket'[p] = tail
      BY <1>5
    <3>2. CASE q # p /\ r # p
      <4>1. q \in InFlight /\ r \in InFlight
        BY <1>4, <3>2, <2>2
      <4>2. ticket[q] = ticket[r]
        BY <1>7, <2>2, <4>1
      <4> QED
        BY <2>2, <4>1, <4>2 DEF Inv, TicketsOK
    <3>3. CASE q = p
      <4>1. r \in InFlight
        BY <1>4, <2>2, <3>3
      <4> QED
        BY <1>7, <2>2, <3>1, <3>3, <4>1
    <3>4. CASE r = p
      <4>1. q \in InFlight
        BY <1>4, <2>2, <3>4
      <4> QED
        BY <1>7, <2>2, <3>1, <3>4, <4>1
    <3> QED
      BY <3>2, <3>3, <3>4
  <2>3. ASSUME NEW q \in Producers, ppc'[q] = "publish" PROVE buffer'[Index(ticket'[q])] = Item(q)'
    <3>1. ppc[q] = "publish" /\ q \in InFlight
      BY <2>3 DEF Inv, TypeOK, InFlight
    <3> QED
      BY <1>7, <3>1 DEF Inv, TicketsOK, Item
  <2> QED
    BY <2>1, <2>2, <2>3 DEF TicketsOK, Index
<1>10. FlagsOK' /\ ConsumerOK'
  BY <1>8 DEF Inv, FlagsOK, ConsumerOK, Index
<1>11. StoredOK'
  <2>1. Popped' = Popped /\ \A k : Stored(k) => k \in Waiting
    BY DEF Popped, Stored
  <2> QED
    BY <1>6, <1>8, <2>1 DEF Inv, StoredOK, Index
<1>12. NumbersOK' /\ PoppedOnce'
  BY DEF Inv, TypeOK, NumbersOK, PoppedOnce
<1> QED
  BY <1>1, <1>3, <1>9, <1>10, <1>11, <1>12 DEF Inv

LEMMA NotFull == ASSUME RoomForAll, Inv PROVE NeverFull
<1> USE SizeAssumption
<1>1. tail <= head + Capacity /\ head \in Nat /\ tail \in Nat
  BY SpaceLeft DEF Inv, TypeOK
<1>2. ASSUME NEW p \in Producers, ppc[p] = "examine" PROVE Distance(ticket[p], head) < Capacity
  <2>1. ticket[p] \in head .. tail - 1
    BY <1>2 DEF Inv, TicketsOK, InFlight, Waiting
  <2> QED
    BY <1>1, <2>1 DEF Distance
<1> QED
  BY <1>2 DEF NeverFull

\* So the rollback of the tail is never taken.
LEMMA ExaminePasses ==
  ASSUME RoomForAll, Inv, NEW p \in Producers, Examine(p)
  PROVE  /\ ppc[p] = "examine" /\ ppc' = [ppc EXCEPT ![p] = "store"]
         /\ UNCHANGED <<ringVars, seen, ticket, pushes, consumerVars, accepted, popped>>
<1> USE SizeAssumption DEF consumerVars
<1>1. Distance(ticket[p], head) < Capacity /\ Distance(ticket[p], head) \in Int
  BY NotFull DEF Examine, NeverFull, Distance, Inv, TypeOK
<1> QED
  BY <1>1 DEF Examine, ringVars

LEMMA ExamineStep ==
  ASSUME RoomForAll, Inv, NEW p \in Producers, Examine(p) PROVE Inv'
<1> USE SizeAssumption DEF consumerVars
<1>0. /\ ppc[p] = "examine" /\ ppc' = [ppc EXCEPT ![p] = "store"]
      /\ UNCHANGED <<ringVars, seen, ticket, pushes, consumerVars, accepted, popped>>
  BY ExaminePasses
<1>1. TypeOK'
  BY <1>0 DEF Inv, TypeOK, ringVars
<1>2. InFlight' = InFlight /\ Claiming' = Claiming
  BY <1>0 DEF Inv, TypeOK, InFlight, Claiming
<1>3. CountOK'
  BY <1>0, <1>2 DEF Inv, TypeOK, CountOK, ringVars
<1>4. \A q \in Producers : ppc'[q] = "publish" => ppc[q] = "publish"
  BY <1>0 DEF Inv, TypeOK
<1>6. TicketsOK' /\ FlagsOK' /\ ConsumerOK' /\ StoredOK' /\ PoppedOnce'
  BY <1>0, <1>1, <1>2, <1>4, Elsewhere
<1>7. NumbersOK'
  BY <1>0 DEF Inv, TypeOK, NumbersOK
<1> QED
  BY <1>1, <1>3, <1>6, <1>7 DEF Inv

\* The element a producer writes is not one that is stored, nor another producer's.
LEMMA Untouched ==
  ASSUME RoomForAll, Inv, NEW p \in InFlight,
         NEW k \in head .. head + Capacity - 1, k # ticket[p]
  PROVE  Index(k) # Index(ticket[p])
<1>1. tail <= head + Capacity /\ head \in Nat /\ tail \in Nat
  BY SpaceLeft DEF Inv, TypeOK
<1>2. ticket[p] \in head .. head + Capacity - 1
  BY <1>1, SizeAssumption DEF Inv, TicketsOK, Waiting
<1> QED
  BY <1>1, <1>2, IndexApart

LEMMA WindowInRing ==
  ASSUME RoomForAll, Inv, NEW k \in Waiting
  PROVE  k \in head .. head + Capacity - 1 /\ Index(k) \in Elements
<1>1. tail <= head + Capacity /\ head \in Nat /\ tail \in Nat
  BY SpaceLeft DEF Inv, TypeOK
<1>2. k \in Nat /\ k \in head .. head + Capacity - 1
  BY <1>1, SizeAssumption DEF Waiting
<1> QED
  BY <1>2, IndexType

LEMMA StoreStep ==
  ASSUME RoomForAll, Inv, NEW p \in Producers, Store(p) PROVE Inv'
<1> USE SizeAssumption DEF Store, consumerVars
<1>0. p \in InFlight /\ ticket[p] \in Waiting
  BY DEF InFlight, Inv, TicketsOK
<1>1. TypeOK'
  <2>1. pushes[p] \in 1 .. MaxPushes
    BY DEF Inv, TypeOK, NumbersOK
  <2>2. Item(p) \in Items
    BY <2>1 DEF Item, Items
  <2> QED
    BY <2>2 DEF Inv, TypeOK
<1>2. InFlight' = InFlight /\ Claiming' = Claiming /\ Waiting' = Waiting /\ Popped' = Popped
  BY DEF Inv, TypeOK, InFlight, Claiming, Waiting, Popped
<1>3. CountOK'
  BY <1>2 DEF Inv, TypeOK, CountOK
<1>4. \A k \in Waiting : k # ticket[p] => buffer'[Index(k)] = buffer[Index(k)]
  BY <1>0, Untouched, WindowInRing DEF Inv, TypeOK
<1>5. buffer'[Index(ticket[p])] = Item(p)
  BY <1>0, WindowInRing DEF Inv, TypeOK
<1>6. \A k : Stored(k)' <=> Stored(k)
  BY <1>2 DEF Stored, Holders
<1>7. \A k : Stored(k) => k \in Waiting /\ k # ticket[p]
  BY <1>0 DEF Stored, Holders
<1>8. TicketsOK'
  <2>1. ASSUME NEW q \in Producers, ppc'[q] = "publish" PROVE buffer'[Index(ticket'[q])] = Item(q)'
    <3>1. CASE q = p
      BY <1>5, <3>1 DEF Item
    <3>2. CASE q # p
      <4>1. ppc[q] = "publish" /\ q \in InFlight
        BY <2>1, <3>2 DEF Inv, TypeOK, InFlight
      <4>2. ticket[q] \in Waiting /\ ticket[q] # ticket[p] /\ buffer[Index(ticket[q])] = Item(q)
        BY <1>0, <3>2, <4>1 DEF Inv, TicketsOK
      <4> QED
        BY <1>4, <4>2 DEF Item
    <3> QED
      BY <3>1, <3>2
  <2> QED
    BY <1>2, <2>1 DEF Inv, TicketsOK, Index
<1>9. FlagsOK'
  BY <1>6 DEF Inv, FlagsOK, Index
<1>10. ConsumerOK'
  BY <1>4, <1>6, <1>7 DEF Inv, ConsumerOK, Index
<1>11. StoredOK'
  BY <1>2, <1>4, <1>6, <1>7 DEF Inv, StoredOK, Index
<1>12. NumbersOK' /\ PoppedOnce'
  BY DEF Inv, TypeOK, NumbersOK, PoppedOnce
<1> QED
  BY <1>1, <1>3, <1>8, <1>9, <1>10, <1>11, <1>12 DEF Inv

\* Setting the flag: the place of the producer is stored from now on, and its item is new.
LEMMA PublishStep ==
  ASSUME RoomForAll, Inv, NEW p \in Producers, Publish(p) PROVE Inv'
<1> USE SizeAssumption DEF Publish, consumerVars
<1>0. /\ p \in InFlight /\ ticket[p] \in Waiting /\ buffer[Index(ticket[p])] = Item(p)
      /\ accepted' = accepted \cup {Item(p)}
  BY DEF InFlight, Inv, TicketsOK
<1>1. Item(p) \in Items /\ Item(p) \notin accepted
  <2>1. pushes[p] \in 1 .. MaxPushes
    BY DEF Inv, TypeOK, NumbersOK
  <2>2. Item(p) \in Items
    BY <2>1 DEF Item, Items
  <2>3. Item(p) \notin accepted
    BY <2>1 DEF Item, Inv, NumbersOK
  <2> QED
    BY <2>2, <2>3
<1>2. TypeOK'
  BY <1>0, <1>1, WindowInRing DEF Inv, TypeOK
<1>3. /\ InFlight' = InFlight \ {p} /\ Claiming' = Claiming /\ Waiting' = Waiting
      /\ Popped' = Popped
  BY DEF Inv, TypeOK, InFlight, Claiming, Waiting, Popped
<1>4. CountOK'
  BY <1>3 DEF Inv, TypeOK, CountOK
<1>5. \A k : Stored(k)' <=> Stored(k) \/ k = ticket[p]
  <2>1. \A k : Holders(k)' = Holders(k) \ {p}
    BY <1>3 DEF Holders
  <2>2. \A k : k # ticket[p] => p \notin Holders(k)
    BY DEF Holders
  <2>3. Holders(ticket[p]) = {p}
    BY <1>0 DEF Holders, Inv, TicketsOK
  <2> QED
    BY <1>0, <1>3, <2>1, <2>2, <2>3 DEF Stored
<1>6. ~Stored(ticket[p])
  BY <1>0 DEF Stored, Holders
<1>7. TicketsOK'
  <2>1. ASSUME NEW q \in Producers, ppc'[q] = "publish" PROVE buffer'[Index(ticket'[q])] = Item(q)'
    BY <2>1 DEF Inv, TypeOK, TicketsOK, Item, Index
  <2> QED
    BY <1>3, <2>1 DEF Inv, TicketsOK
<1>8. FlagsOK'
  <2> SUFFICES ASSUME NEW k \in head .. head + Capacity - 1
               PROVE  slots'[Index(k)] <=> Stored(k)' /\ ~(k = head /\ cpc = "advance")
    BY DEF FlagsOK, Index
  <2>1. CASE k = ticket[p]
    <3>1. slots'[Index(k)]
      BY <1>0, <2>1, WindowInRing DEF Inv, TypeOK
    <3>2. cpc # "idle" => k # head
      BY <1>6, <2>1 DEF Inv, ConsumerOK
    <3> QED
      BY <1>5, <2>1, <3>1, <3>2
  <2>2. CASE k # ticket[p]
    <3>1. slots'[Index(k)] = slots[Index(k)]
      <4>1. Index(k) # Index(ticket[p])
        BY <1>0, <2>2, Untouched
      <4>2. k \in Nat
        BY DEF Inv, TypeOK
      <4> QED
        BY <4>1, <4>2, IndexType DEF Inv, TypeOK
    <3> QED
      BY <1>5, <2>2, <3>1 DEF Inv, FlagsOK
  <2> QED
    BY <2>1, <2>2
<1>9. ConsumerOK'
  BY <1>5 DEF Inv, ConsumerOK, Index
<1>10. StoredOK'
  <2>1. \A k : Stored(k) => k \in Waiting
    BY DEF Stored
  <2>2. Popped \subseteq accepted
    BY DEF Popped, Inv, PoppedOnce
  <2>3. \A k \in Waiting : Stored(k)' => buffer'[Index(k)] \in accepted' \ Popped
    BY <1>0, <1>1, <1>5, <2>2 DEF Inv, StoredOK
  <2>4. \A k \in Waiting : Stored(k) => buffer[Index(k)] \in accepted
    BY DEF Inv, StoredOK
  <2>5. \A j, k \in Waiting :
          Stored(j)' /\ Stored(k)' /\ buffer'[Index(j)] = buffer'[Index(k)] => j = k
    BY <1>0, <1>1, <1>5, <2>4 DEF Inv, StoredOK
  <2>6. \A i \in accepted' : i \in Popped \/ \E k \in Waiting : Stored(k)' /\ buffer'[Index(k)] = i
    BY <1>0, <1>5 DEF Inv, StoredOK
  <2> QED
    BY <1>3, <2>3, <2>5, <2>6 DEF StoredOK, Index
<1>11. NumbersOK'
  <2> SUFFICES ASSUME NEW q \in Producers
               PROVE  /\ ppc'[q] # "idle" => pushes[q] # 0
                      /\ \A n \in 1 .. MaxPushes :
                           <<q, n>> \in accepted' => n <= pushes[q] /\ (ppc'[q] # "idle" => n < pushes[q])
    BY DEF NumbersOK
  <2>1. CASE q = p
    BY <1>0, <2>1 DEF Item, Inv, TypeOK, NumbersOK
  <2>2. CASE q # p
    BY <1>0, <2>2 DEF Item, Inv, TypeOK, NumbersOK
  <2> QED
    BY <2>1, <2>2
<1>12. PoppedOnce'
  BY <1>0 DEF Inv, PoppedOnce
<1> QED
  BY <1>2, <1>4, <1>7, <1>8, <1>9, <1>10, <1>11, <1>12 DEF Inv

--------------------------------------------------------------------------------
(* The consumer                                                                   *)

\* A set flag at the head: there is an element, stored and not taken yet.
LEMMA TakeStep == ASSUME RoomForAll, Inv, Take PROVE Inv'
<1> USE SizeAssumption DEF Take, ringVars, producerVars
<1>1. Stored(head)
  <2>1. head \in head .. head + Capacity - 1
    BY DEF Inv, TypeOK
  <2> QED
    BY <2>1 DEF Inv, FlagsOK
<1>2. buffer[Index(head)] \in Items
  BY <1>1 DEF Inv, StoredOK, Stored, TypeOK
<1>3. TypeOK'
  BY <1>2 DEF Inv, TypeOK
<1>4. /\ InFlight' = InFlight /\ Claiming' = Claiming /\ Waiting' = Waiting /\ Popped' = Popped
      /\ \A k : Stored(k)' <=> Stored(k)
  BY DEF InFlight, Claiming, Waiting, Popped, Stored, Holders
<1>5. CountOK' /\ TicketsOK' /\ NumbersOK' /\ PoppedOnce'
  BY <1>4 DEF Inv, CountOK, TicketsOK, NumbersOK, PoppedOnce, Index, Item
<1>6. FlagsOK' /\ StoredOK'
  BY <1>4 DEF Inv, FlagsOK, StoredOK, Index
<1>7. ConsumerOK'
  BY <1>1, <1>4 DEF ConsumerOK, Index
<1> QED
  BY <1>3, <1>5, <1>6, <1>7 DEF Inv

LEMMA ClearStep == ASSUME RoomForAll, Inv, Clear PROVE Inv'
<1> USE SizeAssumption DEF Clear, producerVars
<1>1. TypeOK'
  BY DEF Inv, TypeOK
<1>2. /\ InFlight' = InFlight /\ Claiming' = Claiming /\ Waiting' = Waiting /\ Popped' = Popped
      /\ \A k : Stored(k)' <=> Stored(k)
  BY DEF InFlight, Claiming, Waiting, Popped, Stored, Holders
<1>3. CountOK' /\ TicketsOK' /\ NumbersOK' /\ PoppedOnce'
  BY <1>2 DEF Inv, CountOK, TicketsOK, NumbersOK, PoppedOnce, Index, Item
<1>4. StoredOK' /\ ConsumerOK'
  BY <1>2 DEF Inv, StoredOK, ConsumerOK, Index
<1>5. FlagsOK'
  <2> SUFFICES ASSUME NEW k \in head .. head + Capacity - 1
               PROVE  slots'[Index(k)] <=> Stored(k) /\ k # head
    BY <1>2 DEF FlagsOK, Index
  <2>1. k \in Nat /\ head \in Nat /\ head \in head .. head + Capacity - 1
    BY DEF Inv, TypeOK
  <2>2. slots' = [slots EXCEPT ![Index(head)] = FALSE] /\ slots \in [Elements -> BOOLEAN]
    BY DEF Inv, TypeOK
  <2>3. CASE k = head
    BY <2>1, <2>2, <2>3, IndexType
  <2>4. CASE k # head
    <3>1. Index(k) # Index(head)
      BY <2>1, <2>4, IndexApart
    <3> QED
      BY <2>1, <2>2, <2>4, <3>1, IndexType DEF Inv, FlagsOK
  <2> QED
    BY <2>3, <2>4
<1> QED
  BY <1>1, <1>3, <1>4, <1>5 DEF Inv

\* Advancing the head: the element has been stored until now and counts as popped from now
\* on, and the place a round later becomes part of the window.
LEMMA AdvanceStep == ASSUME RoomForAll, Inv, Advance PROVE Inv'
<1> USE SizeAssumption DEF Advance, producerVars
<1>1. /\ Stored(head) /\ taken = buffer[Index(head)] /\ taken \in accepted \ Popped
      /\ head \in Nat /\ tail \in Nat /\ head < tail /\ tail <= head + Capacity
  <2>1. Stored(head) /\ taken = buffer[Index(head)]
    BY DEF Inv, ConsumerOK
  <2>2. head \in Nat /\ tail \in Nat /\ head < tail /\ head \in Waiting
    BY <2>1 DEF Stored, Waiting, Inv, TypeOK
  <2>3. taken \in accepted \ Popped
    BY <2>1, <2>2 DEF Inv, StoredOK
  <2> QED
    BY <2>1, <2>2, <2>3, SpaceLeft DEF Inv
<1>2. /\ popped' \in Seq(Items) /\ Len(popped') = Len(popped) + 1 /\ popped'[Len(popped) + 1] = taken
      /\ \A n \in 1 .. Len(popped) : popped'[n] = popped[n]
      /\ Len(popped) \in Nat
  BY <1>1 DEF Inv, TypeOK
<1>3. TypeOK'
  BY <1>1, <1>2 DEF Inv, TypeOK
<1>4. InFlight' = InFlight /\ Claiming' = Claiming /\ (\A k : Holders(k)' = Holders(k))
  BY DEF InFlight, Claiming, Holders
<1>5. Waiting' = Waiting \ {head}
  BY <1>1 DEF Waiting
<1>6. \A k : Stored(k)' <=> Stored(k) /\ k # head
  BY <1>4, <1>5 DEF Stored
<1>7. Popped' = Popped \cup {taken}
  <2>1. \A n \in 1 .. Len(popped') : n \in 1 .. Len(popped) \/ n = Len(popped) + 1
    BY <1>2
  <2>2. 1 .. Len(popped) \subseteq 1 .. Len(popped') /\ Len(popped) + 1 \in 1 .. Len(popped')
    BY <1>2
  <2> QED
    BY <1>2, <2>1, <2>2 DEF Popped
<1>8. CountOK'
  <2>1. \A p \in Producers : seen'[p] <= head'
    BY <1>1 DEF Inv, TypeOK, CountOK
  <2> QED
    BY <1>1, <1>4, <2>1, ClaimingCount, ProducerCount DEF Inv, TypeOK, CountOK
<1>9. TicketsOK'
  <2>1. \A p \in InFlight : ticket[p] # head
    BY <1>1 DEF Stored, Holders
  <2> QED
    BY <1>4, <1>5, <2>1 DEF Inv, TicketsOK, Index, Item
<1>10. FlagsOK'
  <2> SUFFICES ASSUME NEW k \in head' .. head' + Capacity - 1 PROVE slots'[Index(k)] <=> Stored(k)'
    BY DEF FlagsOK, Index
  <2>1. CASE k = head + Capacity
    <3>1. Index(k) = Index(head) /\ head \in head .. head + Capacity - 1
      BY <1>1, <2>1, IndexAround
    <3>2. ~slots[Index(head)]
      BY <3>1 DEF Inv, FlagsOK
    <3>3. ~Stored(k)
      BY <1>1, <2>1 DEF Stored, Waiting
    <3> QED
      BY <1>6, <3>1, <3>2, <3>3
  <2>2. CASE k # head + Capacity
    <3>1. k \in head .. head + Capacity - 1 /\ k # head
      BY <1>1, <2>2
    <3> QED
      BY <1>6, <3>1 DEF Inv, FlagsOK
  <2> QED
    BY <2>1, <2>2
<1>11. ConsumerOK' /\ NumbersOK'
  BY DEF Inv, ConsumerOK, NumbersOK
<1>12. StoredOK'
  <2>1. \A k : Stored(k) => k \in Waiting
    BY DEF Stored
  <2>2. \A k \in Waiting : Stored(k)' => buffer[Index(k)] # taken
    BY <1>1, <1>6, <2>1 DEF Inv, StoredOK
  <2>3. \A k \in Waiting' : Stored(k)' => buffer[Index(k)] \in accepted \ Popped'
    BY <1>5, <1>6, <1>7, <2>2 DEF Inv, StoredOK
  <2>4. \A j, k \in Waiting' : Stored(j)' /\ Stored(k)' /\ buffer[Index(j)] = buffer[Index(k)] => j = k
    BY <1>5, <1>6 DEF Inv, StoredOK
  <2>5. \A i \in accepted : i \in Popped' \/ \E k \in Waiting' : Stored(k)' /\ buffer[Index(k)] = i
    BY <1>1, <1>5, <1>6, <1>7 DEF Inv, StoredOK
  <2> QED
    BY <2>3, <2>4, <2>5 DEF StoredOK, Index
<1>13. PoppedOnce'
  <2>1. \A n \in 1 .. Len(popped) : popped[n] # taken
    BY <1>1 DEF Popped
  <2>2. \A n \in 1 .. Len(popped') : n \in 1 .. Len(popped) \/ n = Len(popped) + 1
    BY <1>2
  <2>3. \A n \in 1 .. Len(popped') : popped'[n] \in accepted
    BY <1>1, <1>2, <2>2 DEF Inv, PoppedOnce
  <2>4. \A m, n \in 1 .. Len(popped') : popped'[m] = popped'[n] => m = n
    BY <1>2, <2>1, <2>2 DEF Inv, PoppedOnce
  <2> QED
    BY <2>3, <2>4 DEF PoppedOnce
<1> QED
  BY <1>3, <1>8, <1>9, <1>10, <1>11, <1>12, <1>13 DEF Inv

LEMMA Stutter == ASSUME Inv, UNCHANGED vars PROVE Inv'
<1> USE DEF vars, ringVars, producerVars, consumerVars
<1>1. /\ InFlight' = InFlight /\ Claiming' = Claiming /\ Waiting' = Waiting /\ Popped' = Popped
      /\ \A k : Stored(k)' <=> Stored(k)
  BY DEF InFlight, Claiming, Waiting, Popped, Stored, Holders
<1>2. CountOK' /\ TicketsOK' /\ NumbersOK' /\ PoppedOnce' /\ TypeOK'
  BY <1>1 DEF Inv, CountOK, TicketsOK, NumbersOK, PoppedOnce, TypeOK, Index, Item
<1>3. FlagsOK' /\ ConsumerOK' /\ StoredOK'
  BY <1>1 DEF Inv, FlagsOK, ConsumerOK, StoredOK, Index
<1> QED
  BY <1>2, <1>3 DEF Inv

LEMMA InvStep == ASSUME RoomForAll PROVE Inv /\ [Next]_vars => Inv'
<1> SUFFICES ASSUME Inv, [Next]_vars PROVE Inv'
  OBVIOUS
<1>1. ASSUME NEW p \in Producers, ProducerStep(p) PROVE Inv'
  BY <1>1, MeasureHeadStep, MeasureTailStep, ClaimStep, ExamineStep, StoreStep, PublishStep
     DEF ProducerStep
<1>2. CASE ConsumerStep
  BY <1>2, TakeStep, ClearStep, AdvanceStep DEF ConsumerStep
<1> QED
  BY <1>1, <1>2, Stutter DEF Next

\* The ring and the places of its users are always well typed; in particular the consumer
\* never takes an element nobody has written.
THEOREM WellTyped == ASSUME RoomForAll PROVE Spec => []TypeOK
<1>1. Inv => TypeOK
  BY DEF Inv
<1> QED
  BY InitInv, InvStep, <1>1, PTL DEF Spec

\* A push made after the size check never finds the ring full, however many threads send,
\* as long as the ring is larger than the limit by one place for each of them but one.
THEOREM PushNeverFindsFull == ASSUME RoomForAll PROVE Spec => []NeverFull
  BY InitInv, InvStep, NotFull, PTL DEF Spec

\* An item whose Push returned true has been popped, or waits with its flag set.
LEMMA StoredIsKept == ASSUME RoomForAll, Inv PROVE NothingLost
<1> SUFFICES ASSUME NEW i \in accepted
             PROVE  \/ \E n \in 1 .. Len(popped) : popped[n] = i
                    \/ \E k \in head .. tail - 1 :
                         buffer[Index(k)] = i /\ (slots[Index(k)] \/ (k = head /\ cpc = "advance"))
  BY DEF NothingLost
<1>1. CASE i \in Popped
  BY <1>1 DEF Popped
<1>2. CASE i \notin Popped
  <2>1. PICK k \in Waiting : Stored(k) /\ buffer[Index(k)] = i
    BY <1>2 DEF Inv, StoredOK
  <2>2. slots[Index(k)] \/ (k = head /\ cpc = "advance")
    BY <2>1, WindowInRing DEF Inv, FlagsOK
  <2> QED
    BY <2>1, <2>2 DEF Waiting
<1> QED
  BY <1>1, <1>2

\* Nothing is lost between Push and Pop: an item whose Push returned true is in the ring with
\* its flag set, or has been popped.
THEOREM AcceptedIsKept == ASSUME RoomForAll PROVE Spec => []NothingLost
  BY InitInv, InvStep, StoredIsKept, PTL DEF Spec

\* No item is popped twice, and none that was not pushed.
THEOREM PoppedAtMostOnce == ASSUME RoomForAll PROVE Spec => []PoppedOnce
<1>1. Inv => PoppedOnce
  BY DEF Inv
<1> QED
  BY InitInv, InvStep, <1>1, PTL DEF Spec

--------------------------------------------------------------------------------
(* The ring is a queue                                                            *)

PlaceType == [item : Items, ready : BOOLEAN]

Queue == [n \in 1 .. tail - head |-> Place(head + n - 1)]

QueueShape ==
  /\ tail - head \in Nat
  /\ Queue \in Seq(PlaceType) /\ Len(Queue) = tail - head
  /\ \A n \in 1 .. tail - head : Queue[n] = Place(head + n - 1) /\ head + n - 1 \in Waiting

\* A place somebody works on shows the item of the one who does.
LEMMA HeldPlace ==
  ASSUME Inv, NEW p \in InFlight
  PROVE  Place(ticket[p]) = [item |-> Item(p), ready |-> FALSE] /\ Item(p) \in Items
<1>1. Holders(ticket[p]) = {p}
  BY DEF Holders, Inv, TicketsOK
<1>2. (CHOOSE q \in Holders(ticket[p]) : TRUE) = p /\ (Holders(ticket[p]) = {}) = FALSE
  BY <1>1
<1>3. pushes[p] \in 1 .. MaxPushes
  BY SizeAssumption DEF InFlight, Inv, TypeOK, NumbersOK
<1> QED
  BY <1>2, <1>3 DEF Place, Item, Items, InFlight

LEMMA HeldPlaceNext ==
  (\A p \in Producers : Inv /\ p \in InFlight =>
      Place(ticket[p]) = [item |-> Item(p), ready |-> FALSE] /\ Item(p) \in Items)'
<1>1. \A p \in Producers : Inv /\ p \in InFlight =>
        Place(ticket[p]) = [item |-> Item(p), ready |-> FALSE] /\ Item(p) \in Items
  BY HeldPlace
<1> QED
  BY <1>1, PTL

LEMMA QueueIsShaped == Inv => QueueShape
<1> SUFFICES ASSUME Inv PROVE QueueShape
  OBVIOUS
<1>1. head \in Nat /\ tail \in Nat /\ tail - head \in Nat
  BY DEF Inv, TypeOK, CountOK
<1>2. ASSUME NEW k \in Waiting PROVE Place(k) \in PlaceType
  <2>1. CASE Holders(k) = {}
    <3>1. buffer[Index(k)] \in Items
      BY <2>1 DEF Inv, StoredOK, Stored, TypeOK
    <3>2. Place(k) = [item |-> buffer[Index(k)], ready |-> TRUE]
      BY <2>1 DEF Place
    <3> QED
      BY <3>1, <3>2 DEF PlaceType
  <2>2. CASE Holders(k) # {}
    <3>1. PICK p \in InFlight : ticket[p] = k
      BY <2>2 DEF Holders
    <3>2. Place(ticket[p]) = [item |-> Item(p), ready |-> FALSE] /\ Item(p) \in Items
      BY HeldPlace
    <3>3. Place(k) = Place(ticket[p])
      BY <3>1
    <3> QED
      BY <3>2, <3>3 DEF PlaceType
  <2> QED
    BY <2>1, <2>2
<1>3. \A n \in 1 .. tail - head : head + n - 1 \in Waiting
  BY <1>1 DEF Waiting
<1>4. \A n \in 1 .. tail - head : Place(head + n - 1) \in PlaceType
  BY <1>2, <1>3
<1>5. Queue \in Seq(PlaceType) /\ Len(Queue) = tail - head
  BY <1>1, <1>4 DEF Queue
<1> QED
  BY <1>1, <1>3, <1>5 DEF QueueShape, Queue

LEMMA QueueIsShapedNext == Inv' => QueueShape'
  BY QueueIsShaped, PTL

\* What a place shows changes only with its holders, its element, or the item of its holder.
LEMMA PlaceSame ==
  ASSUME NEW k, Holders(k)' = Holders(k),
         Holders(k) = {} => buffer'[Index(k)] = buffer[Index(k)],
         \A q \in Holders(k) : pushes'[q] = pushes[q]
  PROVE  Place(k)' = Place(k)
<1>1. CASE Holders(k) = {}
  BY <1>1 DEF Place, Index
<1>2. CASE Holders(k) # {}
  <2> DEFINE p == CHOOSE q \in Holders(k) : TRUE
  <2>1. p \in Holders(k)
    BY <1>2
  <2>2. Item(p)' = Item(p)
    BY <2>1 DEF Item
  <2>3. Place(k) = [item |-> Item(p), ready |-> FALSE]
    BY <1>2 DEF Place
  <2>4. Place(k)' = [item |-> Item(p)', ready |-> FALSE]
    BY <1>2 DEF Place
  <2> QED
    BY <2>2, <2>3, <2>4
<1> QED
  BY <1>1, <1>2

\* Claiming takes the next place ...
LEMMA ClaimTakes ==
  ASSUME RoomForAll, Inv, Inv', NEW p \in Producers, Claim(p)
  PROVE  Item(p) \in Items /\ Fifo!TakePlace(Item(p))
<1> USE DEF Claim, consumerVars
<1> DEFINE new == [item |-> Item(p), ready |-> FALSE]
<1>1. QueueShape /\ QueueShape'
  BY QueueIsShaped, QueueIsShapedNext
<1>2. head \in Nat /\ tail \in Nat /\ tail' = tail + 1 /\ head' = head /\ head <= tail /\ tail < head + Capacity
  BY SpaceLeft DEF Inv, TypeOK, CountOK
<1>3. p \in InFlight' /\ ticket'[p] = tail
  BY DEF InFlight, Inv, TypeOK
<1>4. Place(ticket[p])' = new /\ Item(p) \in Items
  <2>1. Place(ticket[p])' = [item |-> Item(p)', ready |-> FALSE] /\ Item(p)' \in Items
    BY <1>3, HeldPlaceNext
  <2> QED
    BY <2>1 DEF Item
<1>5. \A k : k = tail => Place(k)' = new
  <2>1. \A k : k = ticket'[p] => Place(k)' = Place(ticket[p])'
    BY DEF Place, Holders, Index
  <2> QED
    BY <1>3, <1>4, <2>1
<1>6. \A k : k # tail => Place(k)' = Place(k)
  <2> SUFFICES ASSUME NEW k, k # tail PROVE Place(k)' = Place(k)
    OBVIOUS
  <2>1. InFlight' = InFlight \cup {p} /\ p \notin InFlight
    BY DEF Inv, TypeOK, InFlight
  <2>2. \A q \in InFlight : ticket'[q] = ticket[q]
    BY <2>1 DEF Inv, TypeOK, InFlight
  <2>3. Holders(k)' = Holders(k)
    BY <1>3, <2>1, <2>2 DEF Holders
  <2> QED
    BY <2>3, PlaceSame
<1>7. new \in PlaceType
  BY <1>4 DEF PlaceType
<1>8. /\ Append(Queue, new) \in Seq(PlaceType) /\ Len(Append(Queue, new)) = tail - head + 1
      /\ Append(Queue, new)[tail - head + 1] = new
      /\ \A n \in 1 .. tail - head : Append(Queue, new)[n] = Queue[n]
  BY <1>1, <1>7 DEF QueueShape
<1>9. ASSUME NEW n \in 1 .. tail' - head' PROVE Queue'[n] = Append(Queue, new)[n]
  <2>1. PICK k : k = head + n - 1
    OBVIOUS
  <2>2. Queue'[n] = Place(k)'
    <3>1. Queue'[n] = Place(head + n - 1)'
      BY <1>1 DEF QueueShape
    <3> QED
      BY <2>1, <3>1 DEF Place, Holders, Index
  <2>3. CASE n <= tail - head
    <3>1. n \in 1 .. tail - head /\ k # tail
      BY <1>2, <2>1, <2>3
    <3>2. Queue[n] = Place(k)
      BY <1>1, <2>1, <3>1 DEF QueueShape
    <3> QED
      BY <1>6, <1>8, <2>2, <3>1, <3>2
  <2>4. CASE n = tail - head + 1
    <3>1. k = tail
      BY <1>2, <2>1, <2>4
    <3> QED
      BY <1>5, <1>8, <2>2, <2>4, <3>1
  <2>5. n <= tail - head \/ n = tail - head + 1
    BY <1>2
  <2> QED
    BY <2>3, <2>4, <2>5
<1>10. Queue' = Append(Queue, new)
  <2> HIDE DEF new
  <2>1. Queue' \in Seq(PlaceType) /\ Len(Queue') = tail' - head' /\ tail' - head' = tail - head + 1
    BY <1>1, <1>2 DEF QueueShape, PlaceType
  <2> QED
    BY <1>8, <1>9, <2>1, SeqEqual
<1>11. Len(Queue) < Capacity /\ popped' = popped
  BY <1>1, <1>2, SizeAssumption DEF QueueShape
<1>12. Fifo!TakePlace(Item(p))
  BY <1>10, <1>11 DEF Fifo!TakePlace, Queue
<1> QED
  BY <1>4, <1>12

\* ... publishing makes it ready ...
LEMMA MakeReady ==
  ASSUME NEW i \in Items, NEW x, x = [item |-> i, ready |-> FALSE],
         NEW y, y = [x EXCEPT !.ready = TRUE]
  PROVE  y = [item |-> i, ready |-> TRUE]
<1>1. x \in PlaceType /\ x.item = i
  BY DEF PlaceType
<1>2. y \in PlaceType /\ y.item = i /\ y.ready = TRUE
  BY <1>1 DEF PlaceType
<1> QED
  BY <1>2 DEF PlaceType

LEMMA PublishFinishes ==
  ASSUME RoomForAll, Inv, Inv', NEW p \in Producers, Publish(p)
  PROVE  \E n \in 1 .. Len(Queue) : Fifo!Finish(n)
<1> USE DEF Publish, consumerVars
<1> DEFINE at == ticket[p] - head + 1
<1> DEFINE finished == [Queue EXCEPT ![at].ready = TRUE]
<1>1. QueueShape /\ QueueShape'
  BY QueueIsShaped, QueueIsShapedNext
<1>2. p \in InFlight /\ ticket[p] \in Waiting /\ buffer[Index(ticket[p])] = Item(p)
  BY DEF InFlight, Inv, TicketsOK
<1>3. /\ head \in Nat /\ tail \in Nat /\ tail' = tail /\ head' = head /\ ticket[p] \in Nat
      /\ at \in 1 .. tail - head /\ head + at - 1 = ticket[p]
  BY <1>2 DEF Inv, TypeOK, Waiting
<1>4. InFlight' = InFlight \ {p}
  BY DEF Inv, TypeOK, InFlight
<1>5. Place(ticket[p]) = [item |-> Item(p), ready |-> FALSE] /\ Item(p) \in Items
  BY <1>2, HeldPlace
<1>6. \A k : k = ticket[p] => Place(k)' = [item |-> Item(p), ready |-> TRUE]
  <2> SUFFICES ASSUME NEW k, k = ticket[p] PROVE Place(k)' = [item |-> Item(p), ready |-> TRUE]
    OBVIOUS
  <2>1. Holders(k)' = {}
    BY <1>2, <1>4 DEF Holders, Inv, TicketsOK
  <2> QED
    BY <1>2, <2>1 DEF Place, Index
<1>7. \A k : k # ticket[p] => Place(k)' = Place(k)
  <2> SUFFICES ASSUME NEW k, k # ticket[p] PROVE Place(k)' = Place(k)
    OBVIOUS
  <2>1. Holders(k)' = Holders(k)
    BY <1>4 DEF Holders
  <2> QED
    BY <2>1, PlaceSame
<1>8. Queue[at] = Place(ticket[p]) /\ Queue[at] \in PlaceType
  BY <1>1, <1>3, ElementOfSeq DEF QueueShape
<1>9. [Queue[at] EXCEPT !.ready = TRUE] = [item |-> Item(p), ready |-> TRUE]
  <2>1. Queue[at] = [item |-> Item(p), ready |-> FALSE]
    BY <1>5, <1>8
  <2> QED
    BY <1>5, <2>1, MakeReady
<1>10. [Queue[at] EXCEPT !.ready = TRUE] \in PlaceType
  BY <1>5, <1>9 DEF PlaceType
<1>11. /\ finished \in Seq(PlaceType) /\ Len(finished) = tail - head
       /\ \A n \in 1 .. tail - head :
            finished[n] = IF n = at THEN [Queue[at] EXCEPT !.ready = TRUE] ELSE Queue[n]
  <2>1. Queue \in Seq(PlaceType) /\ Len(Queue) = tail - head
    BY <1>1 DEF QueueShape
  <2>2. at \in 1 .. Len(Queue)
    BY <1>3, <2>1
  <2> HIDE DEF at
  <2>3. /\ finished \in Seq(PlaceType) /\ Len(finished) = Len(Queue)
        /\ \A n \in 1 .. Len(Queue) :
             finished[n] = IF n = at THEN [Queue[at] EXCEPT !.ready = TRUE] ELSE Queue[n]
    BY <1>10, <2>1, <2>2, ExceptSeq
  <2> QED
    BY <2>1, <2>3
<1>12. ASSUME NEW n \in 1 .. tail - head PROVE Queue'[n] = finished[n]
  <2>1. PICK k : k = head + n - 1
    OBVIOUS
  <2>2. Queue'[n] = Place(k)'
    <3>1. n \in 1 .. tail' - head'
      BY <1>3
    <3>2. Queue'[n] = Place(head + n - 1)'
      BY <1>1, <3>1 DEF QueueShape
    <3> QED
      BY <2>1, <3>2 DEF Place, Holders, Index
  <2>3. CASE n = at
    <3>1. k = ticket[p]
      BY <1>3, <2>1, <2>3
    <3> QED
      BY <1>6, <1>9, <1>11, <2>2, <2>3, <3>1
  <2>4. CASE n # at
    <3>1. k # ticket[p] /\ Queue[n] = Place(k)
      BY <1>1, <1>3, <2>1, <2>4 DEF QueueShape
    <3> QED
      BY <1>7, <1>11, <2>2, <2>4, <3>1
  <2> QED
    BY <2>3, <2>4
<1>13. Queue' = finished
  <2>1. Queue' \in Seq(PlaceType) /\ Len(Queue') = tail - head
    BY <1>1, <1>3 DEF QueueShape, PlaceType
  <2> HIDE DEF finished
  <2> QED
    BY <1>11, <1>12, <2>1, SeqEqual
<1>14. popped' = popped /\ at \in 1 .. Len(Queue)
  BY <1>1, <1>3 DEF QueueShape
<1>15. Fifo!Finish(at)
  BY <1>13, <1>14 DEF Fifo!Finish, Queue
<1> QED
  BY <1>14, <1>15

\* ... and the consumer takes the oldest when it advances the head.
LEMMA AdvanceDelivers == ASSUME RoomForAll, Inv, Inv', Advance PROVE Fifo!Deliver
<1> USE DEF Advance, producerVars
<1>1. QueueShape /\ QueueShape'
  BY QueueIsShaped, QueueIsShapedNext
<1>2. Stored(head) /\ taken = buffer[Index(head)]
  BY DEF Inv, ConsumerOK
<1>3. /\ head \in Nat /\ tail \in Nat /\ tail' = tail /\ head' = head + 1 /\ head < tail
      /\ 1 \in 1 .. tail - head /\ tail' - head' = tail - head - 1
  BY <1>2 DEF Stored, Waiting, Inv, TypeOK
<1>4. \A k : Place(k)' = Place(k)
  <2> SUFFICES ASSUME NEW k PROVE Place(k)' = Place(k)
    OBVIOUS
  <2>1. Holders(k)' = Holders(k)
    BY DEF Holders, InFlight
  <2> QED
    BY <2>1, PlaceSame
<1>5. /\ Queue # <<>> /\ Head(Queue) = Queue[1]
      /\ Tail(Queue) \in Seq(PlaceType) /\ Len(Tail(Queue)) = tail - head - 1
      /\ \A n \in 1 .. tail - head - 1 : Tail(Queue)[n] = Queue[n + 1]
  BY <1>1, <1>3, EmptySeq, HeadTailProperties DEF QueueShape
<1>6. Head(Queue).ready /\ Head(Queue).item = taken
  <2>1. Head(Queue) = Place(head)
    <3>1. head + 1 - 1 = head
      BY <1>3
    <3> QED
      BY <1>1, <1>3, <1>5, <3>1 DEF QueueShape
  <2>2. Place(head) = [item |-> taken, ready |-> TRUE]
    BY <1>2 DEF Place, Stored
  <2> QED
    BY <2>1, <2>2
<1>7. ASSUME NEW n \in 1 .. tail - head - 1 PROVE Queue'[n] = Tail(Queue)[n]
  <2>1. PICK k : k = head + (n + 1) - 1
    OBVIOUS
  <2>2. Queue'[n] = Place(k)'
    <3>1. n \in 1 .. tail' - head'
      BY <1>3
    <3>2. Queue'[n] = Place(head + n - 1)'
      BY <1>1, <3>1 DEF QueueShape
    <3>3. head' + n - 1 = k
      BY <1>3, <2>1
    <3> QED
      BY <3>2, <3>3 DEF Place, Holders, Index
  <2>3. Queue[n + 1] = Place(k)
    <3>1. n + 1 \in 1 .. tail - head
      BY <1>3
    <3> QED
      BY <1>1, <2>1, <3>1 DEF QueueShape
  <2> QED
    BY <1>4, <1>5, <2>2, <2>3
<1>8. Queue' = Tail(Queue)
  <2>1. Queue' \in Seq(PlaceType) /\ Len(Queue') = tail - head - 1
    BY <1>1, <1>3 DEF QueueShape, PlaceType
  <2> QED
    BY <1>5, <1>7, <2>1, SeqEqual
<1>9. popped' = Append(popped, Head(Queue).item)
  BY <1>6
<1> QED
  BY <1>5, <1>6, <1>8, <1>9 DEF Fifo!Deliver, Queue

\* Nothing else changes what the places show.
LEMMA OthersStutter ==
  ASSUME RoomForAll, Inv, [Next]_vars, ~Advance,
         \A p \in Producers : ~Claim(p) /\ ~Publish(p)
  PROVE  UNCHANGED <<Queue, popped>>
<1>1. UNCHANGED <<head, popped>>
  BY DEF vars, ringVars, producerVars, consumerVars, Next, ProducerStep, ConsumerStep, MeasureHead,
         MeasureTail, Examine, Store, Take, Clear
<1>2. tail' = tail
  <2>1. \A p \in Producers : Examine(p) => tail' = tail
    BY ExaminePasses DEF ringVars
  <2> QED
    BY <2>1 DEF vars, ringVars, producerVars, consumerVars, Next, ProducerStep, ConsumerStep,
                MeasureHead, MeasureTail, Store, Take, Clear
<1>3. InFlight' = InFlight /\ ticket' = ticket /\ (\A q \in InFlight : pushes'[q] = pushes[q])
  <2>1. ASSUME NEW p \in Producers, MeasureHead(p) \/ MeasureTail(p) \/ Store(p) \/ Examine(p)
        PROVE  InFlight' = InFlight /\ ticket' = ticket /\ (\A q \in InFlight : pushes'[q] = pushes[q])
    <3>1. CASE Examine(p)
      BY <3>1, ExaminePasses DEF InFlight, Inv, TypeOK
    <3>2. CASE MeasureHead(p)
      BY <3>2 DEF MeasureHead, InFlight, Inv, TypeOK
    <3>3. CASE MeasureTail(p) \/ Store(p)
      BY <3>3 DEF MeasureTail, Store, InFlight, Inv, TypeOK
    <3> QED
      BY <2>1, <3>1, <3>2, <3>3
  <2> QED
    BY <2>1 DEF vars, ringVars, producerVars, consumerVars, Next, ProducerStep, ConsumerStep, Take,
                Clear, InFlight
<1>4. \A k \in Waiting : Holders(k) = {} => buffer'[Index(k)] = buffer[Index(k)]
  <2>1. ASSUME NEW p \in Producers, Store(p), NEW k \in Waiting, Holders(k) = {}
        PROVE  buffer'[Index(k)] = buffer[Index(k)]
    <3>1. p \in InFlight /\ k # ticket[p]
      BY <2>1 DEF Store, InFlight, Holders
    <3>2. Index(k) # Index(ticket[p])
      BY <2>1, <3>1, Untouched, WindowInRing
    <3> QED
      BY <2>1, <3>2, WindowInRing DEF Store, Inv, TypeOK
  <2>2. CASE buffer' = buffer
    BY <2>2
  <2> QED
    BY <2>1, <2>2 DEF vars, ringVars, producerVars, consumerVars, Next, ProducerStep, ConsumerStep,
                MeasureHead, MeasureTail, Examine, Take, Clear
<1>5. \A k \in Waiting : Place(k)' = Place(k)
  <2> SUFFICES ASSUME NEW k \in Waiting PROVE Place(k)' = Place(k)
    OBVIOUS
  <2>1. Holders(k)' = Holders(k) /\ Holders(k) \subseteq InFlight
    BY <1>3 DEF Holders
  <2> QED
    BY <1>3, <1>4, <2>1, PlaceSame
<1>6. \A n \in 1 .. tail - head : head + n - 1 \in Waiting
  BY DEF Waiting, Inv, TypeOK
<1>7. ASSUME NEW n \in 1 .. tail - head PROVE Place(head + n - 1)' = Place(head + n - 1)
  <2>1. PICK k : k = head + n - 1
    OBVIOUS
  <2>2. Place(head + n - 1)' = Place(k)'
    BY <1>1, <2>1 DEF Place, Holders, Index
  <2> QED
    BY <1>5, <1>6, <2>1, <2>2
<1> QED
  BY <1>1, <1>2, <1>7 DEF Queue

\* MPSCQueue is a queue, for any number of producers and any size: the items come out in the
\* order in which their places were taken, each once, and none before it is written.
THEOREM RingIsFifo == ASSUME RoomForAll PROVE Spec => IsFifo
<1>1. Init => Fifo!Init
  <2>1. ASSUME Init PROVE Queue = <<>> /\ popped = <<>>
    BY <2>1 DEF Init, Queue
  <2> QED
    BY <2>1 DEF Fifo!Init, Queue
<1>2. Inv /\ Inv' /\ [Next]_vars => [Fifo!Next]_<<Queue, popped>>
  <2> SUFFICES ASSUME Inv, Inv', [Next]_vars PROVE Fifo!Next \/ UNCHANGED <<Queue, popped>>
    OBVIOUS
  <2>1. ASSUME NEW p \in Producers, Claim(p) PROVE Fifo!Next
    BY <2>1, ClaimTakes DEF Fifo!Next
  <2>2. ASSUME NEW p \in Producers, Publish(p) PROVE Fifo!Next
    BY <2>2, PublishFinishes DEF Fifo!Next, Queue
  <2>3. CASE Advance
    BY <2>3, AdvanceDelivers DEF Fifo!Next
  <2> QED
    BY <2>1, <2>2, <2>3, OthersStutter
<1>3. Inv /\ Inv' /\ [Next]_vars => [Fifo!Next]_<<[n \in 1 .. tail - head |-> Place(head + n - 1)], popped>>
  BY <1>2 DEF Queue
<1> QED
  BY InitInv, InvStep, <1>1, <1>3, PTL DEF Spec, IsFifo, Fifo!Spec
================================================================================
