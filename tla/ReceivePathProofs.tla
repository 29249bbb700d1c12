--------------------------- MODULE ReceivePathProofs ---------------------------
(* For buffers and rings of any size: there is always room for a whole packet when the  *)
(* socket is read, no packet buffer of the receive path is lost, and the ring between   *)
(* the strand and the local thread is a queue.                                          *)
EXTENDS ReceivePath, Remainders, SequenceTheorems, WellFoundedInduction, TLAPS

Holding == {"got", "queue", "write", "publish", "crashed"}

BufferOK == readPos <= writePos /\ writePos <= Capacity

\* The ring is never more than full, the strand has a place before it writes and the local
\* thread an element before it takes it, and what was written is what will be popped.
RingOK ==
  /\ head <= tail /\ tail - head <= RingSize
  /\ pc \in {"write", "publish"} => tail - head < RingSize
  /\ lpc \in {"take", "store"} => head < tail
  /\ lpc = "store" => taken = RingCell(head)
  /\ \A n \in head .. tail - 1 : RingCell(n) \in Packets
  /\ pc \in Holding => packet \in Packets
  /\ pc = "publish" => RingCell(tail) = packet

Inv == TypeOK /\ BufferOK /\ RoomToRead /\ RingOK /\ BuffersAccounted

--------------------------------------------------------------------------------
(* The invariant                                                                  *)

LEMMA InitInv == Init => Inv
  BY SizeAssumption
     DEF Init, Inv, TypeOK, BufferOK, RoomToRead, FreeSize, RingOK, Holding, BuffersAccounted,
         Packets, Frames

\* What a frame becomes is one of the frames, or torn.
LEMMA ContentsType ==
  ASSUME NEW n \in Header .. MaxPacket PROVE Contents(n) \in Packets
<1>1. CASE \E i \in Frames : n = frames[i] /\ \A k \in 0 .. n - 1 : data[readPos + k] = Start[i] + k
  <2>1. \E i \in Frames : HeaderIs(i)
    BY <1>1, SizeAssumption DEF HeaderIs
  <2> QED
    BY <1>1, <2>1 DEF Contents, Packets
<1>2. CASE ~ \E i \in Frames : n = frames[i] /\ \A k \in 0 .. n - 1 : data[readPos + k] = Start[i] + k
  BY <1>2 DEF Contents, Packets
<1> QED
  BY <1>1, <1>2

\* Clean keeps the unread bytes, and leaves room for a packet if they are fewer than one.
LEMMA DoReadStep ==
  ASSUME TypeOK, BufferOK, DataSize < MaxPacket, DoRead
  PROVE  /\ data' \in [0 .. Capacity - 1 -> Nat] /\ readPos' \in Nat /\ writePos' \in Nat
         /\ BufferOK' /\ RoomToRead'
<1> USE SizeAssumption DEF TypeOK, BufferOK, DataSize, FreeSize
<1>1. CASE FreeSize < MaxPacket
  <2>1. \A k \in 0 .. Capacity - 1 : k < DataSize => readPos + k \in 0 .. Capacity - 1
    OBVIOUS
  <2>2. data' = [k \in 0 .. Capacity - 1 |-> IF k < DataSize THEN data[readPos + k] ELSE data[k]]
    BY <1>1 DEF DoRead, Clean
  <2>3. data' \in [0 .. Capacity - 1 -> Nat]
    BY <2>1, <2>2
  <2>4. readPos' = 0 /\ writePos' = DataSize
    BY <1>1 DEF DoRead, Clean
  <2> QED
    BY <2>3, <2>4 DEF RoomToRead
<1>2. CASE ~ (FreeSize < MaxPacket)
  BY <1>2 DEF DoRead, RoomToRead
<1> QED
  BY <1>1, <1>2

\* The strand without the ring: what it reads, and what becomes of a frame.
LEMMA ReadStep ==
  ASSUME Inv, (\E n \in 1 .. Capacity : ReadComplete(n)) \/ ReadError \/ Wait \/ Malformed
  PROVE  Inv'
<1> USE SizeAssumption DEF Inv
<1>r. ASSUME UNCHANGED <<cell, head, tail, lpc, taken, packet, outstanding>>,
             pc \in {"read", "frame"}, pc' \in {"read", "frame", "closed"}
      PROVE  RingOK' /\ BuffersAccounted'
  BY <1>r DEF RingOK, Holding, RingCell, BuffersAccounted
<1>1. ASSUME NEW n \in 1 .. Capacity, ReadComplete(n) PROVE Inv'
  <2>1. data' = [k \in 0 .. Capacity - 1 |->
                   IF k \in writePos .. writePos + n - 1 THEN arrived + 1 + k - writePos ELSE data[k]]
    BY <1>1 DEF ReadComplete
  <2>2. data' \in [0 .. Capacity - 1 -> Nat]
    BY <2>1 DEF TypeOK
  <2>3. TypeOK'
    BY <1>1, <2>2 DEF ReadComplete, TypeOK, sessionVars, localVars
  <2>4. BufferOK' /\ RoomToRead'
    BY <1>1 DEF ReadComplete, TypeOK, BufferOK, RoomToRead, FreeSize
  <2>5. RingOK' /\ BuffersAccounted'
    BY <1>1, <1>r DEF ReadComplete, localVars
  <2> QED
    BY <2>3, <2>4, <2>5
<1>2. CASE ReadError \/ Malformed
  <2>1. TypeOK'
    BY <1>2 DEF ReadError, Malformed, TypeOK, socketVars, sessionVars, localVars
  <2>2. BufferOK' /\ RoomToRead'
    BY <1>2 DEF ReadError, Malformed, BufferOK, RoomToRead, FreeSize, socketVars
  <2>3. RingOK' /\ BuffersAccounted'
    BY <1>2, <1>r DEF ReadError, Malformed, localVars
  <2> QED
    BY <2>1, <2>2, <2>3
<1>3. CASE Wait
  <2>1. DataSize < MaxPacket
    BY <1>3 DEF Wait, TypeOK, DataSize
  <2>2. DoRead
    BY <1>3 DEF Wait
  <2>3. /\ data' \in [0 .. Capacity - 1 -> Nat] /\ readPos' \in Nat /\ writePos' \in Nat
        /\ BufferOK' /\ RoomToRead'
    BY <2>1, <2>2, DoReadStep
  <2>4. TypeOK'
    BY <1>3, <2>2, <2>3 DEF Wait, DoRead, TypeOK, sessionVars, localVars
  <2>5. RingOK' /\ BuffersAccounted'
    BY <1>3, <2>2, <1>r DEF Wait, DoRead, localVars
  <2> QED
    BY <2>3, <2>4, <2>5
<1> QED
  BY <1>1, <1>2, <1>3

LEMMA FrameStep ==
  ASSUME Inv, Skip \/ CopyFrame \/ OnPacketReceived \/ Push PROVE Inv'
<1> USE SizeAssumption DEF Inv
<1>1. BufferOK' /\ RoomToRead'
  <2>1. CASE Skip \/ CopyFrame
    <3>1. /\ HeaderSize \in Header .. MaxPacket /\ writePos - readPos >= HeaderSize
          /\ readPos' = readPos + HeaderSize /\ writePos' = writePos /\ pc' # "read"
      BY <2>1 DEF Skip, CopyFrame, Whole, DataSize
    <3>2. readPos \in Nat /\ writePos \in Nat /\ writePos <= Capacity
      BY DEF TypeOK, BufferOK
    <3> QED
      BY <3>1, <3>2 DEF BufferOK, RoomToRead
  <2>2. CASE OnPacketReceived \/ Push
    BY <2>2 DEF OnPacketReceived, Push, ReleasePacket, BufferOK, RoomToRead, socketVars
  <2> QED
    BY <2>1, <2>2
<1>2. CASE Skip \/ CopyFrame
  <2>1. HeaderSize \in Header .. MaxPacket
    BY <1>2 DEF Skip, CopyFrame, Whole
  <2>2. Contents(HeaderSize) \in Packets
    BY <2>1, ContentsType
  <2>3. TypeOK'
    <3>1. CASE Skip
      BY <2>1, <2>2, <3>1 DEF Skip, Whole, TypeOK, sessionVars, localVars
    <3>2. CASE CopyFrame
      BY <2>1, <2>2, <3>2 DEF CopyFrame, TypeOK, sessionVars, localVars
    <3> QED
      BY <1>2, <3>1, <3>2
  <2>4. pc = "frame" /\ UNCHANGED <<cell, head, tail, lpc, taken>>
    BY <1>2 DEF Skip, CopyFrame, Whole, localVars
  <2>5. CASE Skip
    <3>1. pc' = pc /\ UNCHANGED <<packet, outstanding>>
      BY <2>5 DEF Skip
    <3>2. RingOK' /\ BuffersAccounted'
      BY <2>4, <3>1 DEF RingOK, Holding, RingCell, BuffersAccounted
    <3> QED
      BY <1>1, <2>3, <3>2
  <2>6. CASE CopyFrame
    <3>1. pc' = "got" /\ packet' \in Packets /\ outstanding' = outstanding + 1
      BY <2>2, <2>6 DEF CopyFrame
    <3>2. RingOK'
      BY <2>4, <3>1 DEF RingOK, Holding, RingCell
    <3>3. BuffersAccounted'
      BY <2>4, <3>1 DEF TypeOK, BuffersAccounted
    <3> QED
      BY <1>1, <2>3, <3>2, <3>3
  <2> QED
    BY <1>2, <2>5, <2>6
<1>3. CASE OnPacketReceived \/ Push
  <2>1. packet \in Packets
    BY <1>3 DEF OnPacketReceived, Push, RingOK, Holding
  <2>2. TypeOK'
    <3>1. UNCHANGED <<frames, arrived, data, readPos, writePos, bound, active, cell, head, tail,
                      lpc, taken, handled>>
      BY <1>3 DEF OnPacketReceived, Push, socketVars, sessionVars, localVars
    <3>2. \/ ReleasePacket
          \/ pc' \in {"queue", "crashed", "write"} /\ UNCHANGED <<packet, dropped, outstanding>>
      BY <1>3 DEF OnPacketReceived, Push
    <3>3. /\ pc' \in {"frame", "queue", "crashed", "write"}
          /\ packet' \in Packets \cup {NoPacket} /\ dropped' \subseteq Packets /\ outstanding' \in Int
      BY <2>1, <3>2 DEF ReleasePacket, TypeOK
    <3> QED
      BY <3>1, <3>3 DEF TypeOK
  <2>3. pc \in {"got", "queue"} /\ UNCHANGED <<cell, head, tail, lpc, taken>>
    BY <1>3 DEF OnPacketReceived, Push, localVars
  <2>4. \/ ReleasePacket
        \/ /\ pc' \in {"queue", "crashed"} \/ (pc' = "write" /\ tail - head < RingSize)
           /\ UNCHANGED <<packet, outstanding>>
    BY <1>3 DEF OnPacketReceived, Push, TypeOK
  <2>5. RingOK'
    BY <2>1, <2>3, <2>4 DEF ReleasePacket, RingOK, Holding, RingCell
  <2>6. BuffersAccounted'
    <3>1. CASE ReleasePacket
      BY <2>3, <3>1 DEF ReleasePacket, TypeOK, BuffersAccounted
    <3>2. CASE ~ReleasePacket
      BY <2>3, <2>4, <3>2 DEF BuffersAccounted
    <3> QED
      BY <3>1, <3>2
  <2> QED
    BY <1>1, <2>2, <2>5, <2>6
<1> QED
  BY <1>2, <1>3

\* A place that is not yet the consumer's is not the cell of an element that is.
LEMMA RingApart ==
  ASSUME TypeOK, RingOK, pc = "write", NEW n \in head .. tail - 1
  PROVE  n \in Nat /\ n % RingSize \in 0 .. RingSize - 1 /\ n % RingSize # tail % RingSize
<1> USE SizeAssumption
<1>1. n \in Nat /\ tail \in Nat /\ n < tail /\ tail < n + RingSize
  BY DEF TypeOK, RingOK
<1>2. n % RingSize # tail % RingSize
  BY <1>1, ModInjective
<1> QED
  BY <1>1, <1>2, DivMod

LEMMA PushStep == ASSUME Inv, PushWrite \/ PushPublish PROVE Inv'
<1> USE SizeAssumption DEF Inv
<1>1. BufferOK' /\ RoomToRead'
  BY DEF PushWrite, PushPublish, BufferOK, RoomToRead, socketVars
<1>2. CASE PushWrite
  <2>1. tail % RingSize \in 0 .. RingSize - 1 /\ packet \in Packets
    BY <1>2, DivMod DEF PushWrite, TypeOK, RingOK, Holding
  <2>2. TypeOK'
    BY <1>2, <2>1 DEF PushWrite, TypeOK, socketVars, sessionVars, localVars
  <2>3. /\ \A n \in head .. tail - 1 : RingCell(n)' = RingCell(n)
        /\ RingCell(tail)' = packet
    <3>1. pc = "write" /\ cell' = [cell EXCEPT ![tail % RingSize] = packet] /\ UNCHANGED <<head, tail, packet>>
      BY <1>2 DEF PushWrite
    <3>2. ASSUME NEW n \in head .. tail - 1 PROVE cell'[n % RingSize] = cell[n % RingSize]
      <4>1. n % RingSize \in 0 .. RingSize - 1 /\ n % RingSize # tail % RingSize
        BY <3>1, RingApart
      <4> QED
        BY <3>1, <4>1 DEF TypeOK
    <3>3. cell'[tail % RingSize] = packet
      BY <2>1, <3>1 DEF TypeOK
    <3> QED
      BY <3>1, <3>2, <3>3 DEF RingCell
  <2>4. RingOK'
    BY <1>2, <2>1, <2>3 DEF PushWrite, TypeOK, RingOK, Holding, localVars
  <2>5. BuffersAccounted'
    BY <1>2 DEF PushWrite, BuffersAccounted, localVars
  <2> QED
    BY <1>1, <2>2, <2>4, <2>5
<1>3. CASE PushPublish
  <2>1. TypeOK'
    BY <1>3 DEF PushPublish, TypeOK, socketVars, sessionVars, localVars
  <2>2. \A n : RingCell(n)' = RingCell(n)
    BY <1>3 DEF PushPublish, RingCell
  <2>3. RingOK'
    BY <1>3, <2>2 DEF PushPublish, TypeOK, RingOK, Holding, localVars
  <2>4. BuffersAccounted'
    BY <1>3 DEF PushPublish, TypeOK, BuffersAccounted, localVars
  <2> QED
    BY <1>1, <2>1, <2>3, <2>4
<1> QED
  BY <1>2, <1>3

LEMMA LocalThreadStep ==
  ASSUME Inv, LocalStep \/ UnbindSession \/ SetState PROVE Inv'
<1> USE SizeAssumption DEF Inv
<1>1. BufferOK' /\ RoomToRead'
  BY DEF LocalStep, Pop, PopTake, PopStore, HandleAndRelease, UnbindSession, SetState,
         BufferOK, RoomToRead, FreeSize, socketVars
<1>2. \A n : RingCell(n)' = RingCell(n)
  BY DEF LocalStep, Pop, PopTake, PopStore, HandleAndRelease, UnbindSession, SetState, RingCell
<1>3. CASE Pop \/ HandleAndRelease \/ UnbindSession \/ SetState
  <2>1. TypeOK'
    <3>1. CASE Pop \/ HandleAndRelease
      <4>1. /\ UNCHANGED <<frames, arrived, data, readPos, writePos, pc, packet, bound, active,
                           cell, head, tail, handled, dropped>>
            /\ lpc' \in {"take", "pop"} /\ taken' \in {taken, NoPacket}
            /\ outstanding' \in {outstanding, outstanding - 1}
        BY <3>1 DEF Pop, HandleAndRelease, socketVars, sessionVars
      <4> QED
        BY <4>1 DEF TypeOK
    <3>2. CASE UnbindSession \/ SetState
      <4>1. bound' \in BOOLEAN /\ active' \in BOOLEAN
        BY <3>2 DEF UnbindSession, SetState, TypeOK
      <4>2. UNCHANGED <<frames, arrived, data, readPos, writePos, pc, packet, cell, head, tail,
                        lpc, taken, handled, dropped, outstanding>>
        BY <3>2 DEF UnbindSession, SetState, socketVars, localVars
      <4> QED
        BY <4>1, <4>2 DEF TypeOK
    <3> QED
      BY <1>3, <3>1, <3>2
  <2>2. RingOK'
    BY <1>2, <1>3 DEF Pop, HandleAndRelease, UnbindSession, SetState, TypeOK, RingOK, Holding, localVars
  <2>3. BuffersAccounted'
    BY <1>3 DEF Pop, HandleAndRelease, UnbindSession, SetState, TypeOK, BuffersAccounted, localVars
  <2> QED
    BY <1>1, <2>1, <2>2, <2>3
<1>4. CASE PopTake
  <2>1. head \in head .. tail - 1
    BY <1>4 DEF PopTake, TypeOK, RingOK
  <2>2. taken' = RingCell(head) /\ taken' \in Packets
    BY <1>4, <2>1 DEF PopTake, RingCell, RingOK
  <2>3. TypeOK'
    BY <1>4, <2>2 DEF PopTake, TypeOK, socketVars, sessionVars
  <2>4. RingOK' /\ BuffersAccounted'
    BY <1>2, <1>4, <2>2 DEF PopTake, TypeOK, RingOK, Holding, BuffersAccounted
  <2> QED
    BY <1>1, <2>3, <2>4
<1>5. CASE PopStore
  <2>1. head \in head .. tail - 1
    BY <1>5 DEF PopStore, TypeOK, RingOK
  <2>2. taken \in Packets
    BY <1>5, <2>1 DEF PopStore, RingOK
  <2>3. handled' \in Seq(Packets)
    BY <1>5, <2>2 DEF PopStore, TypeOK
  <2>4. TypeOK'
    BY <1>5, <2>3 DEF PopStore, TypeOK, socketVars, sessionVars
  <2>5. RingOK'
    BY <1>2, <1>5, <2>1 DEF PopStore, TypeOK, RingOK, Holding
  <2>6. BuffersAccounted'
    BY <1>5 DEF PopStore, TypeOK, BuffersAccounted
  <2> QED
    BY <1>1, <2>4, <2>5, <2>6
<1> QED
  BY <1>3, <1>4, <1>5 DEF LocalStep

LEMMA InvStep == Inv /\ [Next]_vars => Inv'
<1>1. ASSUME Inv, UNCHANGED vars PROVE Inv'
  BY <1>1 DEF vars, socketVars, sessionVars, localVars, Inv, TypeOK, BufferOK, RoomToRead, FreeSize,
              RingOK, Holding, RingCell, BuffersAccounted
<1> QED
  BY <1>1, ReadStep, FrameStep, PushStep, LocalThreadStep DEF Next, Strand

\* Every read that DoRead starts has room for a packet of the largest size, whatever the
\* sizes of the buffer and of the packets are.
THEOREM ReadsHaveRoom == Spec => []RoomToRead
  BY InitInv, InvStep, PTL DEF Spec, Inv

\* Every packet buffer of the receive path is released once, or is where it can still be.
THEOREM BuffersAreAccounted == Spec => []BuffersAccounted
  BY InitInv, InvStep, PTL DEF Spec, Inv

--------------------------------------------------------------------------------
(* The ring is a queue                                                            *)

Place == [item : Packets, ready : BOOLEAN]

Position(n) == [item |-> RingCell(head + n - 1), ready |-> n <= tail - head]

QueueShape ==
  /\ Places \in Nat
  /\ RingQueue \in Seq(Place) /\ Len(RingQueue) = Places
  /\ \A n \in 1 .. Places : RingQueue[n] = Position(n)

LEMMA RingQueueShape == Inv => QueueShape
<1> SUFFICES ASSUME Inv PROVE QueueShape
  OBVIOUS
<1> USE DEF Inv, TypeOK
<1>1. Places \in Nat
  BY DEF RingOK, Places
<1>2. ASSUME NEW n \in 1 .. Places PROVE Position(n) \in Place
  <2>1. CASE n <= tail - head
    <3>1. head + n - 1 \in head .. tail - 1
      BY <2>1
    <3> QED
      BY <2>1, <3>1 DEF RingOK, Position, Place
  <2>2. CASE n > tail - head
    <3>1. pc = "publish" /\ head + n - 1 = tail /\ ~(n <= tail - head)
      BY <2>2 DEF Places
    <3>2. RingCell(head + n - 1) \in Packets /\ (n <= tail - head) = FALSE
      BY <3>1 DEF RingOK, Holding
    <3> QED
      BY <3>2 DEF Position, Place
  <2> QED
    BY <2>1, <2>2
<1>3. RingQueue = [n \in 1 .. Places |-> Position(n)]
  BY DEF RingQueue, Position
<1>4. RingQueue \in Seq(Place) /\ Len(RingQueue) = Places
  BY <1>1, <1>2, <1>3
<1> QED
  BY <1>1, <1>3, <1>4 DEF QueueShape

LEMMA RingQueueShapeNext == Inv' => QueueShape'
  BY RingQueueShape, PTL

\* The strand takes a place when it writes the element ...
LEMMA RingPush ==
  ASSUME Inv, Inv', PushWrite PROVE \E i \in Packets : Ring!TakePlace(i)
<1> DEFINE new == [item |-> packet, ready |-> FALSE]
<1>1. packet \in Packets /\ new \in Place
  BY DEF Inv, RingOK, Holding, PushWrite, Place
<1>2. QueueShape /\ QueueShape'
  BY RingQueueShape, RingQueueShapeNext
<1>3. /\ head \in Nat /\ tail \in Nat /\ head' = head /\ tail' = tail /\ handled' = handled
      /\ tail - head < RingSize /\ head <= tail /\ Places = tail - head /\ Places' = Places + 1
  BY DEF Inv, TypeOK, RingOK, PushWrite, Places, localVars
<1>4. \A n \in head .. tail - 1 : RingCell(n)' = RingCell(n)
  <2>1. pc = "write" /\ cell' = [cell EXCEPT ![tail % RingSize] = packet]
    BY DEF PushWrite
  <2>2. ASSUME NEW n \in head .. tail - 1 PROVE cell'[n % RingSize] = cell[n % RingSize]
    <3>1. n % RingSize \in 0 .. RingSize - 1 /\ n % RingSize # tail % RingSize
      BY <2>1, RingApart DEF Inv
    <3> QED
      BY <2>1, <3>1 DEF Inv, TypeOK
  <2> QED
    BY <2>2 DEF RingCell
<1>5. Append(RingQueue, new) \in Seq(Place) /\ Len(Append(RingQueue, new)) = Places + 1
  BY <1>1, <1>2 DEF QueueShape
<1>6. ASSUME NEW n \in 1 .. Places' PROVE RingQueue'[n] = Append(RingQueue, new)[n]
  <2>1. RingQueue'[n] = Position(n)'
    BY <1>2 DEF QueueShape
  <2>2. CASE n <= Places
    <3>1. head + n - 1 \in head .. tail - 1 /\ n \in 1 .. Places
      BY <1>3, <2>2
    <3>2. Position(n)' = Position(n)
      BY <1>3, <1>4, <3>1 DEF Position
    <3> QED
      BY <1>1, <1>2, <2>1, <3>1, <3>2 DEF QueueShape
  <2>3. CASE n = Places + 1
    <3>1. head' + n - 1 = tail' /\ (n <= tail' - head') = FALSE
      BY <1>3, <2>3
    <3>2. RingCell(tail)' = packet
      BY DEF Inv, RingOK, PushWrite
    <3>3. RingCell(head + n - 1)' = packet
      BY <3>1, <3>2 DEF RingCell
    <3>4. Position(n)' = new
      BY <3>1, <3>3 DEF Position
    <3> QED
      BY <1>1, <1>2, <2>1, <2>3, <3>4 DEF QueueShape
  <2> QED
    BY <1>2, <1>3, <2>2, <2>3 DEF QueueShape
<1>7. RingQueue' = Append(RingQueue, new)
  BY <1>2, <1>3, <1>5, <1>6, SeqEqual DEF QueueShape
<1> QED
  BY <1>1, <1>2, <1>3, <1>7 DEF Ring!TakePlace, QueueShape

\* ... makes it ready when it stores the tail ...
LEMMA MakeReady ==
  ASSUME NEW i \in Packets, NEW p \in Place, p.item = i,
         NEW q, q = [p EXCEPT !.ready = TRUE]
  PROVE  q = [item |-> i, ready |-> TRUE]
<1>1. q \in Place /\ q.item = i /\ q.ready = TRUE
  BY DEF Place
<1> QED
  BY <1>1 DEF Place

LEMMA RingPublish ==
  ASSUME Inv, Inv', PushPublish PROVE \E n \in 1 .. Len(RingQueue) : Ring!Finish(n)
<1> DEFINE last == tail - head + 1
<1> DEFINE finished == [RingQueue EXCEPT ![last].ready = TRUE]
<1>2. QueueShape /\ QueueShape'
  BY RingQueueShape, RingQueueShapeNext
<1>3. /\ head \in Nat /\ tail \in Nat /\ head' = head /\ tail' = tail + 1 /\ handled' = handled
      /\ head <= tail /\ Places = last /\ Places' = Places /\ last \in 1 .. Places
      /\ \A n : RingCell(n)' = RingCell(n)
  BY DEF Inv, TypeOK, RingOK, PushPublish, Places, localVars, RingCell
<1>4. RingQueue[last] \in Place /\ [RingQueue[last] EXCEPT !.ready = TRUE] \in Place
  <2>1. RingQueue[last] \in Place
    BY <1>2, <1>3, ElementOfSeq DEF QueueShape
  <2> QED
    BY <2>1 DEF Place
<1>5. /\ finished \in Seq(Place) /\ Len(finished) = Places
      /\ \A n \in 1 .. Places :
            finished[n] = IF n = last THEN [RingQueue[last] EXCEPT !.ready = TRUE] ELSE RingQueue[n]
  BY <1>2, <1>3, <1>4, ExceptSeq DEF QueueShape
<1>6. ASSUME NEW n \in 1 .. Places PROVE RingQueue'[n] = finished[n]
  <2>1. RingQueue'[n] = Position(n)' /\ RingQueue[n] = Position(n)
    BY <1>2, <1>3 DEF QueueShape
  <2>2. CASE n = last
    <3>1. (n <= tail' - head') = TRUE /\ head' = head
      BY <1>3, <2>2
    <3>2. Position(n)' = [item |-> RingCell(head + n - 1), ready |-> TRUE]
      BY <1>3, <3>1 DEF Position, RingCell
    <3>3. RingQueue[n] \in Place /\ RingQueue[n].item = RingCell(head + n - 1)
      BY <1>4, <2>1, <2>2 DEF Position
    <3>4. RingCell(head + n - 1) \in Packets
      BY <3>3 DEF Place
    <3>5. finished[n] = [item |-> RingCell(head + n - 1), ready |-> TRUE]
      BY <1>5, <2>2, <3>3, <3>4, MakeReady
    <3> QED
      BY <2>1, <3>2, <3>5
  <2>3. CASE n # last
    <3>1. (n <= tail' - head') = TRUE /\ (n <= tail - head) = TRUE
      BY <1>3, <2>3
    <3> QED
      BY <1>3, <1>5, <2>1, <2>3, <3>1 DEF Position
  <2> QED
    BY <2>2, <2>3
<1>7. RingQueue' = finished
  BY <1>2, <1>3, <1>5, <1>6, SeqEqual DEF QueueShape
<1> QED
  BY <1>2, <1>3, <1>7 DEF Ring!Finish, QueueShape

\* ... and the local thread takes out the oldest when it stores the head.
LEMMA RingPop == ASSUME Inv, Inv', PopStore PROVE Ring!Deliver
<1>2. QueueShape /\ QueueShape'
  BY RingQueueShape, RingQueueShapeNext
<1>3. /\ head \in Nat /\ tail \in Nat /\ head' = head + 1 /\ tail' = tail
      /\ head < tail /\ Places > 0 /\ Places' = Places - 1 /\ taken = RingCell(head)
      /\ \A n : RingCell(n)' = RingCell(n)
  BY DEF Inv, TypeOK, RingOK, PopStore, Places, RingCell
<1>4. /\ RingQueue # <<>> /\ Head(RingQueue) = RingQueue[1]
      /\ Tail(RingQueue) \in Seq(Place) /\ Len(Tail(RingQueue)) = Places - 1
      /\ \A n \in 1 .. Places - 1 : Tail(RingQueue)[n] = RingQueue[n + 1]
  BY <1>2, <1>3, EmptySeq, HeadTailProperties DEF QueueShape
<1>5. Head(RingQueue).ready /\ Head(RingQueue).item = taken
  <2>1. 1 \in 1 .. Places /\ head + 1 - 1 = head /\ (1 <= tail - head) = TRUE
    BY <1>2, <1>3 DEF QueueShape
  <2>2. Head(RingQueue) = Position(1)
    BY <1>2, <1>4, <2>1 DEF QueueShape
  <2> QED
    <3>1. RingCell(head + 1 - 1) = taken
      BY <1>3, <2>1
    <3>2. Position(1) = [item |-> taken, ready |-> TRUE]
      BY <2>1, <3>1 DEF Position
    <3> QED
      BY <2>2, <3>2
<1>6. ASSUME NEW n \in 1 .. Places - 1 PROVE RingQueue'[n] = Tail(RingQueue)[n]
  <2>1. RingQueue'[n] = Position(n)' /\ RingQueue[n + 1] = Position(n + 1)
    BY <1>2, <1>3 DEF QueueShape
  <2>2. (head + 1) + n - 1 = head + (n + 1) - 1 /\ (n <= tail - (head + 1) <=> n + 1 <= tail - head)
    BY <1>3
  <2>3. Position(n)' = Position(n + 1)
    BY <1>3, <2>2 DEF Position
  <2> QED
    BY <1>4, <2>1, <2>3
<1>7. RingQueue' = Tail(RingQueue)
  BY <1>2, <1>3, <1>4, <1>6, SeqEqual DEF QueueShape
<1>8. handled' = Append(handled, taken)
  BY DEF PopStore
<1> QED
  BY <1>4, <1>5, <1>7, <1>8 DEF Ring!Deliver

\* Nothing else moves what is in the ring.
LEMMA RingSame ==
  ASSUME Inv, [Next]_vars, ~PushWrite, ~PushPublish, ~PopStore
  PROVE  UNCHANGED <<RingQueue, handled>>
<1>1. /\ UNCHANGED <<cell, head, tail, handled>>
      /\ (pc' = "publish") = (pc = "publish")
  BY DEF vars, socketVars, sessionVars, localVars, Next, Strand, LocalStep, ReadComplete, ReadError,
         Wait, DoRead, Malformed, Skip, CopyFrame, Whole, OnPacketReceived, Push, ReleasePacket,
         Pop, PopTake, HandleAndRelease, UnbindSession, SetState
<1> QED
  BY <1>1 DEF RingQueue, Places, RingCell

\* SPSCQueue is a queue for any ring size: what is pushed comes out in order, once, whole, and
\* only after the tail is stored, and the producer never writes a cell that is still to be read.
THEOREM RingIsFifo == Spec => IncomingQueueIsFifo
<1>1. Init => Ring!Init
  BY DEF Init, Ring!Init, RingQueue, Places
<1>2. Inv /\ Inv' /\ [Next]_vars => [Ring!Next]_<<RingQueue, handled>>
  BY RingPush, RingPublish, RingPop, RingSame DEF Ring!Next
<1> QED
  BY InitInv, InvStep, <1>1, <1>2, PTL DEF Spec, IncomingQueueIsFifo, Ring!Spec

--------------------------------------------------------------------------------
(* Where the frames begin                                                         *)

\* Induction over the naturals, for a set.
LEMMA SetInduction ==
  ASSUME NEW S, 0 \in S, \A n \in Nat : n \in S => n + 1 \in S
  PROVE  Nat \subseteq S
<1> DEFINE R == OpToRel(<, Nat)
           D == Nat \ S
<1>1. IsWellFoundedOn(R, Nat)
  BY NatLessThanWellFounded
<1>2. \A x, y \in Nat : y < x => <<y, x>> \in R
  BY DEF OpToRel
<1> HIDE DEF R
<1> SUFFICES ASSUME D # {} PROVE FALSE
  OBVIOUS
<1>3. PICK x \in D : \A y \in D : ~ (<<y, x>> \in R)
  <2>1. D \subseteq Nat
    OBVIOUS
  <2> HIDE DEF D
  <2> QED
    BY <1>1, <2>1, WFMin
<1>4. x \in Nat /\ x # 0 /\ x - 1 \in Nat /\ x - 1 < x
  OBVIOUS
<1>5. x - 1 \in S
  BY <1>2, <1>3, <1>4
<1> QED
  BY <1>4, <1>5

\* The recursion of Start is well founded: up to any frame there is a function that follows it.
LEMMA StartExists ==
  ASSUME frames \in [Frames -> Nat]
  PROVE  \E g \in [1 .. MaxFrames + 1 -> Nat] :
           g = [i \in 1 .. MaxFrames + 1 |-> IF i = 1 THEN 1 ELSE g[i - 1] + Span(i - 1)]
<1> USE SizeAssumption
<1>1. \A i \in Frames : Span(i) \in Nat
  BY DEF Span
<1> DEFINE Follows(g, n) == \A i \in 1 .. n : g[i] = IF i = 1 THEN 1 ELSE g[i - 1] + Span(i - 1)
           S == {n \in Nat : n <= MaxFrames + 1 => \E g \in [1 .. n -> Nat] : Follows(g, n)}
<1>2. 0 \in S
  <2>1. [i \in 1 .. 0 |-> 0] \in [1 .. 0 -> Nat] /\ Follows([i \in 1 .. 0 |-> 0], 0)
    OBVIOUS
  <2> QED
    BY <2>1
<1>3. ASSUME NEW n \in Nat, n \in S PROVE n + 1 \in S
  <2> SUFFICES ASSUME n + 1 <= MaxFrames + 1
               PROVE  \E h \in [1 .. n + 1 -> Nat] : Follows(h, n + 1)
    OBVIOUS
  <2>1. PICK g \in [1 .. n -> Nat] : Follows(g, n)
    BY <1>3
  <2> DEFINE last == IF n = 0 THEN 1 ELSE g[n] + Span(n)
             h == [i \in 1 .. n + 1 |-> IF i = n + 1 THEN last ELSE g[i]]
  <2>2. last \in Nat
    BY <1>1 DEF Frames
  <2>3. h \in [1 .. n + 1 -> Nat]
    BY <2>2
  <2>4. ASSUME NEW i \in 1 .. n + 1
        PROVE  h[i] = IF i = 1 THEN 1 ELSE h[i - 1] + Span(i - 1)
    <3>1. CASE i = n + 1
      BY <3>1
    <3>2. CASE i \in 1 .. n
      BY <2>1, <3>2
    <3> QED
      BY <3>1, <3>2
  <2> QED
    BY <2>3, <2>4
<1>4. MaxFrames + 1 \in S
  <2> HIDE DEF S
  <2>1. Nat \subseteq S
    BY <1>2, <1>3, SetInduction
  <2> QED
    BY <2>1
<1>5. PICK g \in [1 .. MaxFrames + 1 -> Nat] : Follows(g, MaxFrames + 1)
  BY <1>4
<1>6. g = [i \in 1 .. MaxFrames + 1 |-> IF i = 1 THEN 1 ELSE g[i - 1] + Span(i - 1)]
  BY <1>5
<1> QED
  BY <1>6

\* A frame begins where the one before ends.
LEMMA StartSteps ==
  ASSUME frames \in [Frames -> Nat]
  PROVE  /\ Start[1] = 1
         /\ \A i \in Frames : Span(i) \in Nat \ {0} /\ Start[i + 1] = Start[i] + Span(i)
         /\ \A i \in 1 .. MaxFrames + 1 : Start[i] \in Nat
<1> USE SizeAssumption
<1>1. \A i \in Frames : Span(i) \in Nat \ {0}
  BY DEF Span
<1>2. Start = [i \in 1 .. MaxFrames + 1 |-> IF i = 1 THEN 1 ELSE Start[i - 1] + Span(i - 1)]
  <2>1. PICK g \in [1 .. MaxFrames + 1 -> Nat] :
          g = [i \in 1 .. MaxFrames + 1 |-> IF i = 1 THEN 1 ELSE g[i - 1] + Span(i - 1)]
    BY StartExists
  <2> QED
    BY <2>1 DEF Start
<1>3. Start[1] = 1
  <2>1. 1 \in 1 .. MaxFrames + 1
    OBVIOUS
  <2> QED
    BY <1>2, <2>1
<1>4. ASSUME NEW i \in Frames PROVE Start[i + 1] = Start[i] + Span(i)
  <2>1. i + 1 \in 1 .. MaxFrames + 1 /\ i + 1 # 1 /\ (i + 1) - 1 = i
    BY DEF Frames
  <2>2. Start[i + 1] = IF i + 1 = 1 THEN 1 ELSE Start[(i + 1) - 1] + Span((i + 1) - 1)
    BY <1>2, <2>1
  <2> QED
    BY <2>1, <2>2
<1>5. ASSUME NEW i \in 1 .. MaxFrames + 1 PROVE Start[i] \in Nat
  <2> DEFINE S == {n \in Nat : n + 1 <= MaxFrames + 1 => Start[n + 1] \in Nat}
  <2>1. 0 \in S
    BY <1>3
  <2>2. ASSUME NEW n \in Nat, n \in S PROVE n + 1 \in S
    <3> SUFFICES ASSUME n + 2 <= MaxFrames + 1 PROVE Start[n + 2] \in Nat
      OBVIOUS
    <3>1. n + 1 \in Frames /\ Start[n + 1] \in Nat
      BY <2>2 DEF Frames
    <3>2. Start[(n + 1) + 1] = Start[n + 1] + Span(n + 1)
      BY <1>4, <3>1
    <3> QED
      BY <1>1, <3>1, <3>2
  <2>3. i - 1 \in S
    <3> HIDE DEF S
    <3>1. Nat \subseteq S
      BY <2>1, <2>2, SetInduction
    <3> QED
      BY <3>1
  <2> QED
    BY <2>3
<1> QED
  BY <1>1, <1>3, <1>4, <1>5

\* No two frames begin at one byte.
LEMMA StartGrows ==
  ASSUME frames \in [Frames -> Nat],
         NEW i \in 1 .. MaxFrames + 1, NEW j \in 1 .. MaxFrames + 1, i < j
  PROVE  Start[i] < Start[j]
<1> USE SizeAssumption
<1> DEFINE S == {n \in Nat : i + n + 1 <= MaxFrames + 1 => Start[i] < Start[i + n + 1]}
<1>1. 0 \in S
  <2> SUFFICES ASSUME i + 1 <= MaxFrames + 1 PROVE Start[i] < Start[i + 1]
    OBVIOUS
  <2>1. i \in Frames
    BY DEF Frames
  <2> QED
    BY <2>1, StartSteps
<1>2. ASSUME NEW n \in Nat, n \in S PROVE n + 1 \in S
  <2> SUFFICES ASSUME i + n + 2 <= MaxFrames + 1 PROVE Start[i] < Start[i + n + 2]
    OBVIOUS
  <2>1. i + n + 1 \in Frames /\ i + n + 1 \in 1 .. MaxFrames + 1 /\ Start[i] < Start[i + n + 1]
    BY <1>2 DEF Frames
  <2>2. Start[(i + n + 1) + 1] = Start[i + n + 1] + Span(i + n + 1)
    BY <2>1, StartSteps
  <2>3. Span(i + n + 1) \in Nat /\ Start[i] \in Nat /\ Start[i + n + 1] \in Nat
    BY <2>1, StartSteps
  <2> QED
    BY <2>1, <2>2, <2>3
<1>3. j - i - 1 \in Nat /\ i + (j - i - 1) + 1 = j
  OBVIOUS
<1>4. j - i - 1 \in S
  <2> HIDE DEF S
  <2>1. Nat \subseteq S
    BY <1>1, <1>2, SetInduction
  <2> QED
    BY <1>3, <2>1
<1> QED
  BY <1>3, <1>4

--------------------------------------------------------------------------------
(* Which bytes are in the buffer, and which packets have come of them             *)

\* The unread bytes are the last that have arrived, in their order.
DataOK ==
  /\ arrived <= StreamEnd
  /\ \A k \in readPos .. writePos - 1 : data[k] = arrived - writePos + k + 1

\* The next byte to read is the first of frame i.
At(i) == arrived - DataSize + 1 = Start[i]

Earlier(i) == 1 .. i - 1
Queued == head .. tail - 1

\* What was read before frame i is, from the oldest to the newest, handled, in the ring, or
\* in the hands of the strand; or it was dropped, and is in none of these.
OrderAt(i) ==
  /\ dropped \subseteq Earlier(i)
  /\ pc \in Holding => packet \in Earlier(i) \ dropped
  /\ \A n \in Queued :
       /\ RingCell(n) \in Earlier(i) \ dropped
       /\ pc \in Holding => RingCell(n) < packet
       /\ \A m \in Queued : m < n => RingCell(m) < RingCell(n)
  /\ \A n \in DOMAIN handled :
       /\ handled[n] \in Earlier(i) \ dropped
       /\ pc \in Holding => handled[n] < packet
       /\ \A m \in Queued : handled[n] < RingCell(m)
       /\ \A m \in DOMAIN handled : m < n => handled[m] < handled[n]

Sequenced == Inv /\ DataOK /\ \E i \in 1 .. MaxFrames + 1 : At(i) /\ OrderAt(i)

\* What the buffer has to do with the stream depends on the buffer only.
LEMMA StreamFrame ==
  ASSUME UNCHANGED socketVars
  PROVE  (DataOK => DataOK') /\ \A i : At(i) => At(i)'
<1>1. UNCHANGED <<frames, arrived, data, readPos, writePos>>
  BY DEF socketVars
<1>2. Start' = Start
  BY <1>1 DEF Start, Span
<1> QED
  BY <1>1, <1>2 DEF DataOK, At, DataSize, StreamEnd

\* Where the packets are depends on the ring and on whether the strand holds one.
LEMMA OrderFrame ==
  ASSUME NEW i, OrderAt(i), UNCHANGED <<packet, cell, head, tail, handled, dropped>>,
         pc' \in Holding => pc \in Holding
  PROVE  OrderAt(i)'
  BY DEF OrderAt, Earlier, Queued, RingCell

\* asio appends what has arrived next.
LEMMA ReadCompleteInOrder ==
  ASSUME Inv, DataOK, NEW n \in 1 .. Capacity, ReadComplete(n)
  PROVE  DataOK' /\ \A i : At(i) => At(i)'
<1>1. /\ data' = [k \in 0 .. Capacity - 1 |->
                    IF k \in writePos .. writePos + n - 1 THEN arrived + 1 + k - writePos ELSE data[k]]
      /\ arrived' = arrived + n /\ writePos' = writePos + n /\ readPos' = readPos
      /\ frames' = frames /\ arrived + n <= StreamEnd /\ writePos + n <= Capacity
  BY SizeAssumption DEF ReadComplete, FreeSize, Inv, TypeOK
<1>2. arrived \in Nat /\ readPos \in Nat /\ writePos \in Nat /\ readPos <= writePos
  BY DEF Inv, TypeOK, BufferOK
<1>3. Start' = Start /\ StreamEnd' = StreamEnd
  BY <1>1 DEF Start, Span, StreamEnd
<1>4. ASSUME NEW k \in readPos' .. writePos' - 1
      PROVE  data'[k] = arrived' - writePos' + k + 1
  <2>1. k \in 0 .. Capacity - 1 /\ k \in Int
    BY <1>1, <1>2, SizeAssumption
  <2>2. CASE k \in writePos .. writePos + n - 1
    BY <1>1, <1>2, <2>1, <2>2
  <2>3. CASE k \notin writePos .. writePos + n - 1
    <3>1. k \in readPos .. writePos - 1
      BY <1>1, <1>2, <2>1, <2>3
    <3>2. data'[k] = data[k]
      BY <1>1, <2>1, <2>3
    <3> QED
      BY <1>1, <1>2, <2>1, <3>1, <3>2 DEF DataOK
  <2> QED
    BY <2>2, <2>3
<1>5. DataOK'
  BY <1>1, <1>3, <1>4 DEF DataOK
<1>6. arrived' - DataSize' = arrived - DataSize
  BY <1>1, <1>2 DEF DataSize
<1> QED
  BY <1>3, <1>5, <1>6 DEF At

\* Clean moves the bytes together with the positions.
LEMMA DoReadInOrder ==
  ASSUME Inv, DataOK, DoRead, UNCHANGED <<frames, arrived>>
  PROVE  DataOK' /\ \A i : At(i) => At(i)'
<1>1. Start' = Start /\ StreamEnd' = StreamEnd
  BY DEF Start, Span, StreamEnd
<1>2. arrived \in Nat /\ readPos \in Nat /\ writePos \in Nat /\ readPos <= writePos
      /\ writePos <= Capacity
  BY DEF Inv, TypeOK, BufferOK
<1>3. CASE FreeSize < MaxPacket
  <2>1. /\ data' = [k \in 0 .. Capacity - 1 |-> IF k < DataSize THEN data[readPos + k] ELSE data[k]]
        /\ readPos' = 0 /\ writePos' = DataSize
    BY <1>3 DEF DoRead, Clean
  <2>2. ASSUME NEW k \in readPos' .. writePos' - 1
        PROVE  data'[k] = arrived' - writePos' + k + 1
    <3>1. k \in 0 .. Capacity - 1 /\ k < DataSize /\ readPos + k \in readPos .. writePos - 1
      BY <1>2, <2>1, SizeAssumption DEF DataSize
    <3>2. data'[k] = data[readPos + k]
      BY <2>1, <3>1
    <3> QED
      BY <1>2, <2>1, <3>1, <3>2 DEF DataOK, DataSize
  <2>3. DataSize' = DataSize
    BY <1>2, <2>1 DEF DataSize
  <2> QED
    BY <1>1, <2>1, <2>2, <2>3 DEF DataOK, At
<1>4. CASE ~ (FreeSize < MaxPacket)
  <2>1. UNCHANGED <<data, readPos, writePos>>
    BY <1>4 DEF DoRead
  <2> QED
    BY <1>1, <2>1 DEF DataOK, At, DataSize
<1> QED
  BY <1>3, <1>4

\* A frame that HandlePacket finds whole is the next one of the stream, and it is found whole.
LEMMA WholeFrame ==
  ASSUME Inv, DataOK, NEW i \in 1 .. MaxFrames + 1, At(i), Whole
  PROVE  /\ i \in Frames /\ HeaderSize = frames[i] /\ Contents(HeaderSize) = i
         /\ Start[i + 1] = Start[i] + HeaderSize
<1> USE SizeAssumption
<1>1. /\ frames \in [Frames -> Nat] /\ arrived \in Nat /\ readPos \in Nat /\ writePos \in Nat
      /\ readPos <= writePos
  BY DEF Inv, TypeOK, BufferOK
<1>2. DataSize >= Header /\ HeaderSize \in Header .. MaxPacket /\ DataSize >= HeaderSize
  BY DEF Whole
<1>3. i \in Frames
  <2>1. CASE i = MaxFrames + 1
    <3>1. Start[i] \in Nat /\ StreamEnd = Start[i] - 1
      BY <1>1, <2>1, StartSteps DEF StreamEnd
    <3>2. arrived <= StreamEnd /\ arrived - DataSize + 1 = Start[i] /\ DataSize \in Nat
      BY <1>1 DEF At, DataOK, DataSize
    <3> QED
      BY <1>1, <1>2, <3>1, <3>2
  <2> QED
    BY <2>1 DEF Frames
<1>4. Start[i] \in Nat
  BY <1>1, StartSteps
<1>5. ASSUME NEW n \in Nat, n <= DataSize
      PROVE  \A k \in 0 .. n - 1 : data[readPos + k] = Start[i] + k
  <2> SUFFICES ASSUME NEW k \in 0 .. n - 1 PROVE data[readPos + k] = Start[i] + k
    OBVIOUS
  <2>1. readPos + k \in readPos .. writePos - 1
    BY <1>1, <1>5 DEF DataSize
  <2>2. data[readPos + k] = arrived - writePos + (readPos + k) + 1
    BY <2>1 DEF DataOK
  <2> QED
    BY <1>1, <1>4, <2>2 DEF At, DataSize
<1>6. HeaderIs(i)
  BY <1>2, <1>5 DEF HeaderIs
<1>7. ASSUME NEW j \in Frames, HeaderIs(j) PROVE j = i
  <2>1. data[readPos + 0] = Start[j] + 0 /\ data[readPos + 0] = Start[i] + 0
    BY <1>6, <1>7 DEF HeaderIs
  <2>2. Start[i] = Start[j]
    <3>1. Start[j] \in Nat /\ j \in 1 .. MaxFrames + 1
      BY <1>1, StartSteps DEF Frames
    <3> QED
      BY <1>4, <2>1, <3>1
  <2>3. ~ (i < j) /\ ~ (j < i)
    <3>1. j \in 1 .. MaxFrames + 1 /\ Start[j] \in Nat
      BY <1>1, StartSteps DEF Frames
    <3> QED
      BY <1>1, <1>4, <2>2, <3>1, StartGrows
  <2> QED
    BY <1>3, <2>3 DEF Frames
<1>8. (CHOOSE j \in Frames : HeaderIs(j)) = i
  BY <1>3, <1>6, <1>7
<1>9. HeaderSize = frames[i]
  BY <1>3, <1>6, <1>8 DEF HeaderSize
<1>10. Contents(HeaderSize) = i
  <2>1. \A k \in 0 .. HeaderSize - 1 : data[readPos + k] = Start[i] + k
    BY <1>2, <1>5
  <2> QED
    BY <1>3, <1>8, <1>9, <2>1 DEF Contents
<1>11. Start[i + 1] = Start[i] + HeaderSize
  <2>1. Span(i) = HeaderSize
    BY <1>2, <1>9 DEF Span
  <2> QED
    BY <1>1, <1>3, <2>1, StartSteps
<1> QED
  BY <1>3, <1>9, <1>10, <1>11

\* Reading a whole frame brings the buffer to the next one.
LEMMA FrameRead ==
  ASSUME Inv, DataOK, NEW i \in 1 .. MaxFrames + 1, At(i), Whole,
         readPos' = readPos + HeaderSize, UNCHANGED <<frames, arrived, data, writePos>>
  PROVE  DataOK' /\ i + 1 \in 1 .. MaxFrames + 1 /\ At(i + 1)'
<1>1. /\ i \in Frames /\ Start[i + 1] = Start[i] + HeaderSize
      /\ HeaderSize \in Header .. MaxPacket
  BY WholeFrame DEF Whole
<1>2. frames \in [Frames -> Nat] /\ arrived \in Nat /\ readPos \in Nat /\ writePos \in Nat
      /\ Start[i] \in Nat /\ HeaderSize \in Nat
  BY <1>1, StartSteps, SizeAssumption DEF Inv, TypeOK
<1>3. Start' = Start /\ StreamEnd' = StreamEnd
  BY DEF Start, Span, StreamEnd
<1>4. DataOK'
  BY <1>2, <1>3 DEF DataOK
<1>5. At(i + 1)'
  <2>1. arrived - (writePos - (readPos + HeaderSize)) + 1 = Start[i + 1]
    BY <1>1, <1>2 DEF At, DataSize
  <2> QED
    BY <1>3, <2>1 DEF At, DataSize
<1> QED
  BY <1>1, <1>4, <1>5, SizeAssumption DEF Frames

\* The frame just read is later than all others, so wherever it goes it is in order there.
LEMMA FrameInOrder ==
  ASSUME Inv, NEW i \in Frames, OrderAt(i), pc = "frame",
         UNCHANGED <<cell, head, tail, handled>>,
         \/ dropped' = dropped \cup {i} /\ pc' = "frame"
         \/ dropped' = dropped /\ packet' = i /\ pc' = "got"
  PROVE  OrderAt(i + 1)'
<1>1. i \in Nat /\ Earlier(i + 1) = Earlier(i) \cup {i} /\ i \notin Earlier(i)
      /\ \A j \in Earlier(i) : j < i
  BY SizeAssumption DEF Frames, Earlier
<1>2. \A n : RingCell(n)' = RingCell(n)
  BY DEF RingCell
<1>3. Queued' = Queued /\ Earlier(i + 1)' = Earlier(i + 1)
  BY DEF Queued, Earlier
<1>4. dropped' \subseteq Earlier(i + 1)
  BY <1>1 DEF OrderAt
<1>5. \A j \in Earlier(i) \ dropped : j \in Earlier(i + 1) \ dropped'
  BY <1>1
<1>6. pc' \in Holding => packet' = i /\ i \in Earlier(i + 1) \ dropped'
  BY <1>1 DEF Holding, OrderAt
<1>7. ASSUME NEW n \in Queued
      PROVE  /\ RingCell(n) \in Earlier(i + 1) \ dropped'
             /\ pc' \in Holding => RingCell(n) < packet'
             /\ \A m \in Queued : m < n => RingCell(m) < RingCell(n)
  BY <1>1, <1>5, <1>6 DEF OrderAt
<1>8. ASSUME NEW n \in DOMAIN handled
      PROVE  /\ handled[n] \in Earlier(i + 1) \ dropped'
             /\ pc' \in Holding => handled[n] < packet'
             /\ \A m \in Queued : handled[n] < RingCell(m)
             /\ \A m \in DOMAIN handled : m < n => handled[m] < handled[n]
  BY <1>1, <1>5, <1>6 DEF OrderAt
<1> QED
  BY <1>2, <1>3, <1>4, <1>6, <1>7, <1>8 DEF OrderAt

\* A released packet was in the hands of the strand, and so in no other place.
LEMMA ReleaseInOrder ==
  ASSUME Inv, NEW i, OrderAt(i), pc \in Holding, ReleasePacket,
         UNCHANGED <<cell, head, tail, handled>>
  PROVE  OrderAt(i)'
<1>1. /\ dropped' = dropped \cup {packet} /\ pc' = "frame" /\ packet \in Earlier(i)
      /\ packet \in Int
  BY DEF ReleasePacket, OrderAt, Earlier
<1>2. (\A n : RingCell(n)' = RingCell(n)) /\ Queued' = Queued /\ Earlier(i)' = Earlier(i)
  BY DEF RingCell, Queued, Earlier
<1>3. \A j \in Earlier(i) \ dropped : j < packet => j \in Earlier(i) \ dropped'
  BY <1>1 DEF Earlier
<1>4. pc' \notin Holding
  BY <1>1 DEF Holding
<1>5. ASSUME NEW n \in Queued
      PROVE  /\ RingCell(n) \in Earlier(i) \ dropped'
             /\ \A m \in Queued : m < n => RingCell(m) < RingCell(n)
  BY <1>3 DEF OrderAt
<1>6. ASSUME NEW n \in DOMAIN handled
      PROVE  /\ handled[n] \in Earlier(i) \ dropped'
             /\ \A m \in Queued : handled[n] < RingCell(m)
             /\ \A m \in DOMAIN handled : m < n => handled[m] < handled[n]
  BY <1>3 DEF OrderAt
<1>7. dropped' \subseteq Earlier(i)
  BY <1>1 DEF OrderAt
<1> QED
  BY <1>2, <1>4, <1>5, <1>6, <1>7 DEF OrderAt

\* The cell that Push writes is nobody else's.
LEMMA PushWriteInOrder ==
  ASSUME Inv, NEW i, OrderAt(i), PushWrite
  PROVE  OrderAt(i)'
<1>1. /\ pc = "write" /\ pc' = "publish" /\ cell' = [cell EXCEPT ![tail % RingSize] = packet]
      /\ UNCHANGED <<packet, head, tail, handled, dropped>>
  BY DEF PushWrite, localVars
<1>2. ASSUME NEW n \in Queued PROVE RingCell(n)' = RingCell(n)
  <2>1. n % RingSize \in 0 .. RingSize - 1 /\ n % RingSize # tail % RingSize
    BY <1>1, RingApart DEF Inv, Queued
  <2> QED
    BY <1>1, <2>1 DEF RingCell, Inv, TypeOK
<1>3. Queued' = Queued /\ Earlier(i)' = Earlier(i)
  BY <1>1 DEF Queued, Earlier
<1> QED
  BY <1>1, <1>2, <1>3 DEF OrderAt, Holding

\* The packet that joins the ring is later than those in it.
LEMMA PushPublishInOrder ==
  ASSUME Inv, NEW i \in Nat, OrderAt(i), PushPublish
  PROVE  OrderAt(i)'
<1>1. /\ pc = "publish" /\ pc' = "frame" /\ tail' = tail + 1
      /\ UNCHANGED <<cell, head, handled, dropped>>
  BY DEF PushPublish, localVars
<1>2. (\A n : RingCell(n)' = RingCell(n)) /\ RingCell(tail) = packet
  BY <1>1 DEF RingCell, Inv, RingOK
<1>3. Queued' = Queued \cup {tail} /\ tail \notin Queued /\ \A n \in Queued : n < tail
  BY <1>1 DEF Queued, Inv, TypeOK, RingOK
<1>4. Earlier(i)' = Earlier(i) /\ pc \in Holding /\ pc' \notin Holding
  BY <1>1 DEF Earlier, Holding
<1>5. tail \in Nat /\ \A n \in Queued : n \in Int
  BY DEF Inv, TypeOK, Queued
<1>6. ASSUME NEW n \in Queued'
      PROVE  /\ RingCell(n) \in Earlier(i) \ dropped
             /\ \A m \in Queued' : m < n => RingCell(m) < RingCell(n)
  <2>1. CASE n \in Queued
    <3>1. \A m \in Queued' : m < n => m \in Queued
      BY <1>3, <1>5, <2>1
    <3> QED
      BY <2>1, <3>1 DEF OrderAt
  <2>2. CASE n = tail
    <3>1. \A m \in Queued' : m < n => m \in Queued
      BY <1>3, <1>5, <2>2
    <3> QED
      BY <1>2, <1>4, <2>2, <3>1 DEF OrderAt
  <2> QED
    BY <1>3, <2>1, <2>2
<1>7. ASSUME NEW n \in DOMAIN handled
      PROVE  /\ handled[n] \in Earlier(i) \ dropped
             /\ \A m \in Queued' : handled[n] < RingCell(m)
             /\ \A m \in DOMAIN handled : m < n => handled[m] < handled[n]
  BY <1>2, <1>3, <1>4 DEF OrderAt
<1>8. dropped \subseteq Earlier(i)
  BY DEF OrderAt
<1> QED
  BY <1>1, <1>2, <1>4, <1>6, <1>7, <1>8 DEF OrderAt

\* What is handled next is the oldest in the ring.
LEMMA PopStoreInOrder ==
  ASSUME Inv, NEW i \in Nat, OrderAt(i), PopStore
  PROVE  OrderAt(i)'
<1>1. /\ head' = head + 1 /\ handled' = Append(handled, taken) /\ lpc = "store"
      /\ UNCHANGED <<pc, packet, cell, tail, dropped>>
  BY DEF PopStore
<1>2. /\ head \in Nat /\ tail \in Nat /\ head < tail /\ taken = RingCell(head)
      /\ handled \in Seq(Packets) /\ head \in Queued /\ RingCell(head) \in Packets
  BY <1>1 DEF Inv, TypeOK, RingOK, Queued
<1>3. /\ (\A n : RingCell(n)' = RingCell(n)) /\ Earlier(i)' = Earlier(i)
      /\ \A n \in Queued' : n \in Queued /\ head < n
  BY <1>1, <1>2 DEF RingCell, Earlier, Queued
<1>4. /\ Len(handled) \in Nat /\ DOMAIN handled = 1 .. Len(handled)
      /\ handled' \in Seq(Packets) /\ DOMAIN handled' = 1 .. Len(handled) + 1
      /\ handled'[Len(handled) + 1] = RingCell(head)
      /\ \A n \in 1 .. Len(handled) : handled'[n] = handled[n]
  <2>1. /\ handled' \in Seq(Packets) /\ Len(handled') = Len(handled) + 1
        /\ handled'[Len(handled) + 1] = RingCell(head)
        /\ \A n \in 1 .. Len(handled) : handled'[n] = handled[n]
    BY <1>1, <1>2, AppendProperties
  <2> QED
    BY <1>2, <2>1, LenProperties
<1>5. ASSUME NEW n \in Queued'
      PROVE  /\ RingCell(n) \in Earlier(i) \ dropped
             /\ pc \in Holding => RingCell(n) < packet
             /\ \A m \in Queued' : m < n => RingCell(m) < RingCell(n)
  BY <1>3 DEF OrderAt
<1>6. ASSUME NEW n \in DOMAIN handled'
      PROVE  /\ handled'[n] \in Earlier(i) \ dropped
             /\ pc \in Holding => handled'[n] < packet
             /\ \A m \in Queued' : handled'[n] < RingCell(m)
             /\ \A m \in DOMAIN handled' : m < n => handled'[m] < handled'[n]
  <2>1. CASE n \in DOMAIN handled
    <3>1. /\ handled'[n] = handled[n]
          /\ \A m \in DOMAIN handled' : m < n => m \in DOMAIN handled /\ handled'[m] = handled[m]
      BY <1>4, <2>1
    <3> QED
      BY <1>3, <2>1, <3>1 DEF OrderAt
  <2>2. CASE n = Len(handled) + 1
    <3>1. /\ handled'[n] = RingCell(head)
          /\ \A m \in DOMAIN handled' : m < n => m \in DOMAIN handled /\ handled'[m] = handled[m]
      BY <1>4, <2>2
    <3> QED
      BY <1>2, <1>3, <3>1 DEF OrderAt
  <2> QED
    BY <1>4, <2>1, <2>2
<1>7. dropped \subseteq Earlier(i) /\ (pc \in Holding => packet \in Earlier(i) \ dropped)
  BY DEF OrderAt
<1> QED
  BY <1>1, <1>3, <1>5, <1>6, <1>7 DEF OrderAt

LEMMA InitSequenced == Init => Sequenced
<1> SUFFICES ASSUME Init PROVE DataOK /\ 1 \in 1 .. MaxFrames + 1 /\ At(1) /\ OrderAt(1)
  BY InitInv DEF Sequenced
<1> USE SizeAssumption
<1>1. frames \in [Frames -> Nat]
  BY InitInv DEF Inv, TypeOK
<1>2. Start[1] = 1 /\ Start[MaxFrames + 1] \in Nat /\ Start[1] < Start[MaxFrames + 1]
  <2>1. 1 \in 1 .. MaxFrames + 1 /\ MaxFrames + 1 \in 1 .. MaxFrames + 1 /\ 1 < MaxFrames + 1
    OBVIOUS
  <2> QED
    BY <1>1, <2>1, StartSteps, StartGrows
<1>3. DataOK
  BY <1>2 DEF Init, DataOK, StreamEnd
<1>4. At(1)
  BY <1>2 DEF Init, At, DataSize
<1>5. OrderAt(1)
  BY DEF Init, OrderAt, Queued, Holding
<1> QED
  BY <1>3, <1>4, <1>5

LEMMA NextSequenced == Sequenced /\ [Next]_vars => Sequenced'
<1> SUFFICES ASSUME Sequenced, [Next]_vars
             PROVE  DataOK' /\ \E i \in 1 .. MaxFrames + 1 : At(i)' /\ OrderAt(i)'
  BY InvStep DEF Sequenced
<1>1. Inv /\ DataOK
  BY DEF Sequenced
<1>2. PICK i \in 1 .. MaxFrames + 1 : At(i) /\ OrderAt(i)
  BY DEF Sequenced
<1>3. i \in Nat
  BY <1>2, SizeAssumption
<1>4. ASSUME NEW n \in 1 .. Capacity, ReadComplete(n)
      PROVE  DataOK' /\ At(i)' /\ OrderAt(i)'
  <2>1. UNCHANGED <<packet, cell, head, tail, handled, dropped>> /\ (pc' \in Holding => pc \in Holding)
    BY <1>4 DEF ReadComplete, localVars, Holding
  <2> QED
    BY <1>1, <1>2, <1>4, <2>1, ReadCompleteInOrder, OrderFrame
<1>5. CASE Wait
  <2>1. UNCHANGED <<packet, cell, head, tail, handled, dropped>> /\ (pc' \in Holding => pc \in Holding)
    BY <1>5 DEF Wait, DoRead, localVars, Holding
  <2>2. DataOK' /\ At(i)'
    BY <1>1, <1>2, <1>5, DoReadInOrder DEF Wait
  <2> QED
    BY <1>2, <2>1, <2>2, OrderFrame
<1>6. CASE Skip \/ CopyFrame
  <2>1. Whole /\ readPos' = readPos + HeaderSize /\ UNCHANGED <<frames, arrived, data, writePos>>
    BY <1>6 DEF Skip, CopyFrame
  <2>2. DataOK' /\ i + 1 \in 1 .. MaxFrames + 1 /\ At(i + 1)'
    BY <1>1, <1>2, <2>1, FrameRead
  <2>3. i \in Frames /\ Contents(HeaderSize) = i
    BY <1>1, <1>2, <2>1, WholeFrame
  <2>4. /\ pc = "frame" /\ UNCHANGED <<cell, head, tail, handled>>
        /\ \/ dropped' = dropped \cup {i} /\ pc' = "frame"
           \/ dropped' = dropped /\ packet' = i /\ pc' = "got"
    BY <1>6, <2>1, <2>3 DEF Skip, CopyFrame, Whole, localVars
  <2>5. OrderAt(i + 1)'
    BY <1>1, <1>2, <2>3, <2>4, FrameInOrder
  <2> QED
    BY <2>2, <2>5
<1>7. CASE OnPacketReceived \/ Push
  <2>1. UNCHANGED socketVars /\ UNCHANGED <<cell, head, tail, handled>> /\ pc \in Holding
    BY <1>7 DEF OnPacketReceived, Push, localVars, Holding
  <2>2. ReleasePacket \/ UNCHANGED <<packet, dropped>>
    BY <1>7 DEF OnPacketReceived, Push
  <2> QED
    BY <1>1, <1>2, <2>1, <2>2, StreamFrame, ReleaseInOrder, OrderFrame
<1>8. CASE PushWrite \/ PushPublish \/ PopStore
  <2>1. UNCHANGED socketVars
    BY <1>8 DEF PushWrite, PushPublish, PopStore
  <2> QED
    BY <1>1, <1>2, <1>3, <1>8, <2>1, StreamFrame, PushWriteInOrder, PushPublishInOrder, PopStoreInOrder
<1>9. CASE ReadError \/ Malformed \/ Pop \/ PopTake \/ HandleAndRelease \/ UnbindSession
           \/ SetState \/ UNCHANGED vars
  <2>1. /\ UNCHANGED socketVars /\ UNCHANGED <<packet, cell, head, tail, handled, dropped>>
        /\ pc' \in Holding => pc \in Holding
    BY <1>9 DEF ReadError, Malformed, Pop, PopTake, HandleAndRelease, UnbindSession, SetState,
                vars, localVars, Holding
  <2> QED
    BY <1>1, <1>2, <2>1, StreamFrame, OrderFrame
<1> QED
  BY <1>2, <1>4, <1>5, <1>6, <1>7, <1>8, <1>9 DEF Next, Strand, LocalStep

\* However the stream is cut, whatever sizes the frames announce and whatever is dropped on
\* the way: no packet mixes the bytes of two frames, and the local thread gets the frames in
\* the order in which the client sent them, each once at most.
THEOREM PacketsWholeInOrder == Spec => []WholeInOrder
<1>1. Sequenced => WholeInOrder
  <2> SUFFICES ASSUME Sequenced PROVE WholeInOrder
    OBVIOUS
  <2>1. PICK i \in 1 .. MaxFrames + 1 : OrderAt(i)
    BY DEF Sequenced
  <2>2. Torn \notin Earlier(i) /\ NoPacket \notin Earlier(i)
    BY DEF Earlier, Torn, NoPacket
  <2>3. Len(handled) \in Nat /\ DOMAIN handled = 1 .. Len(handled)
    BY LenProperties DEF Sequenced, Inv, TypeOK
  <2>4. ASSUME NEW n \in DOMAIN handled, n > 1 PROVE handled[n - 1] < handled[n]
    <3>1. n - 1 \in DOMAIN handled /\ n - 1 < n
      BY <2>3, <2>4
    <3> QED
      BY <2>1, <3>1 DEF OrderAt
  <2> QED
    BY <2>1, <2>2, <2>4 DEF OrderAt, WholeInOrder
<1> QED
  BY InitSequenced, NextSequenced, <1>1, PTL DEF Spec

\* Every reachable state is well typed: the positions of the buffer, the counters of the ring
\* and what the history records never leave their ranges, whatever sizes the client announces.
THEOREM WellTyped == Spec => []TypeOK
  BY InitInv, InvStep, PTL DEF Spec, Inv
================================================================================
