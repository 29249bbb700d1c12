------------------------------ MODULE ReceivePath ------------------------------
(* From the bytes of a TCP stream to the packets a local thread handles: CRecvBuffer,   *)
(* CSocket::DoRead, OnReadComplete and HandlePacket on the socket's strand,             *)
(* CGameSession::OnPacketReceived, the single-producer single-consumer ring             *)
(* IncomingQueue, and the local thread that empties it.                                 *)
(*                                                                                      *)
(* The byte stream is cut into chunks in every possible way.  A byte is known by its    *)
(* position in the stream, and a packet by the number of the frame whose bytes it       *)
(* holds, or Torn if it holds anything else.                                            *)
EXTENDS Integers, Sequences

CONSTANTS
  Header,      \* PACKET_HEADER_SIZE
  MaxPacket,   \* MAX_PACKET_SIZE
  Capacity,    \* RECV_BUFFER_SIZE
  RingSize,    \* INCOMING_QUEUE_CAPACITY
  MaxFrames    \* bound: frames the client sends

ASSUME SizeAssumption ==
  /\ Header \in Nat \ {0} /\ MaxPacket \in Nat /\ Header <= MaxPacket
  /\ Capacity \in Nat /\ Capacity >= 2 * MaxPacket - 1
  /\ RingSize \in Nat \ {0} /\ MaxFrames \in Nat \ {0}

VARIABLES
  frames,             \* the size that each frame of the client announces
  arrived,            \* how much of the stream asio has delivered
  data, readPos, writePos,  \* CRecvBuffer
  pc,                 \* where the strand is
  packet,             \* the packet HandlePacket has filled, or NoPacket
  bound,              \* is pSession set?
  active,             \* is the state of the session Active?
  cell, head, tail,   \* IncomingQueue
  lpc, taken,         \* where the local thread is in Pop, and its out_packet
  handled,            \* history: the packets popped, in order
  dropped,            \* history: the packets released without being queued
  outstanding         \* packet buffers acquired here and not released yet

socketVars  == <<frames, arrived, data, readPos, writePos>>
sessionVars == <<bound, active>>
localVars   == <<lpc, taken, handled>>
vars == <<socketVars, pc, packet, sessionVars, cell, head, tail, localVars, dropped, outstanding>>

Torn == 0
NoPacket == -1
Frames == 1 .. MaxFrames
Packets == Frames \cup {Torn}

\* A frame has a header, whatever size that announces.
Span(i) == IF frames[i] < Header THEN Header ELSE frames[i]
Start[i \in 1 .. MaxFrames + 1] == IF i = 1 THEN 1 ELSE Start[i - 1] + Span(i - 1)
StreamEnd == Start[MaxFrames + 1] - 1

DataSize == writePos - readPos
FreeSize == Capacity - writePos

TypeOK ==
  /\ frames \in [Frames -> Nat]
  /\ arrived \in Nat
  /\ data \in [0 .. Capacity - 1 -> Nat]
  /\ readPos \in Nat /\ writePos \in Nat
  /\ pc \in {"read", "frame", "got", "queue", "write", "publish", "closed", "crashed"}
  /\ packet \in Packets \cup {NoPacket}
  /\ bound \in BOOLEAN /\ active \in BOOLEAN
  /\ cell \in [0 .. RingSize - 1 -> Packets \cup {NoPacket}]
  /\ head \in Nat /\ tail \in Nat
  /\ lpc \in {"pop", "take", "store", "handle"}
  /\ taken \in Packets \cup {NoPacket}
  /\ handled \in Seq(Packets)
  /\ dropped \subseteq Packets
  /\ outstanding \in Int

\* The client's frames are well formed, or announce a size that is too small or too large.
Init ==
  /\ frames \in [Frames -> Header - 1 .. MaxPacket + 1]
  /\ arrived = 0
  /\ data = [k \in 0 .. Capacity - 1 |-> 0] /\ readPos = 0 /\ writePos = 0
  /\ pc = "read" /\ packet = NoPacket
  /\ bound = TRUE /\ active = TRUE
  /\ cell = [k \in 0 .. RingSize - 1 |-> NoPacket] /\ head = 0 /\ tail = 0
  /\ lpc = "pop" /\ taken = NoPacket
  /\ handled = <<>> /\ dropped = {} /\ outstanding = 0

--------------------------------------------------------------------------------
(* The strand of the socket                                                       *)

\* OnReadComplete: asio has put the next n bytes of the stream where DoRead told it to.
ReadComplete(n) ==
  /\ pc = "read" /\ n <= FreeSize /\ arrived + n <= StreamEnd
  /\ data' = [k \in 0 .. Capacity - 1 |->
                IF k \in writePos .. writePos + n - 1 THEN arrived + 1 + k - writePos ELSE data[k]]
  /\ arrived' = arrived + n
  /\ writePos' = writePos + n
  /\ pc' = "frame"
  /\ UNCHANGED <<frames, readPos, packet, sessionVars, cell, head, tail, localVars, dropped,
                 outstanding>>

\* OnReadComplete with an error, or after another thread has closed the socket.
ReadError ==
  /\ pc = "read"
  /\ pc' = "closed"
  /\ UNCHANGED <<socketVars, packet, sessionVars, cell, head, tail, localVars, dropped,
                 outstanding>>

\* The size in the header at the read position, and the packet that n bytes from there make.
HeaderIs(i) == \A k \in 0 .. Header - 1 : data[readPos + k] = Start[i] + k
HeaderSize == IF \E i \in Frames : HeaderIs(i) THEN frames[CHOOSE i \in Frames : HeaderIs(i)] ELSE 0
Contents(n) ==
  IF \E i \in Frames : n = frames[i] /\ \A k \in 0 .. n - 1 : data[readPos + k] = Start[i] + k
  THEN CHOOSE i \in Frames : HeaderIs(i)
  ELSE Torn

\* Mutant of Clean: the positions move and the bytes do not.
CleanWithoutMove ==
  /\ readPos' = 0
  /\ writePos' = DataSize
  /\ UNCHANGED data

\* CRecvBuffer::Clean: what is unread moves to the front.
Clean ==
  /\ data' = [k \in 0 .. Capacity - 1 |-> IF k < DataSize THEN data[readPos + k] ELSE data[k]]
  /\ readPos' = 0
  /\ writePos' = DataSize

\* Mutant of DoRead: room for a header is thought to be enough.
DoReadHeader ==
  /\ IF FreeSize < Header THEN Clean ELSE UNCHANGED <<data, readPos, writePos>>
  /\ pc' = "read"

\* DoRead: make room if a packet of the largest size would not fit, and read into what is free.
DoRead ==
  /\ IF FreeSize < MaxPacket THEN Clean ELSE UNCHANGED <<data, readPos, writePos>>
  /\ pc' = "read"

\* Mutant of Wait: a frame that is there exactly is waited for.
WaitForMore ==
  /\ pc = "frame"
  /\ \/ DataSize < Header
     \/ DataSize >= Header /\ HeaderSize \in Header .. MaxPacket /\ DataSize <= HeaderSize
  /\ DoRead
  /\ UNCHANGED <<frames, arrived, packet, sessionVars, cell, head, tail, localVars, dropped,
                 outstanding>>

\* HandlePacket: there is no header, or not all of its frame, yet.
Wait ==
  /\ pc = "frame"
  /\ \/ DataSize < Header
     \/ DataSize >= Header /\ HeaderSize \in Header .. MaxPacket /\ DataSize < HeaderSize
  /\ DoRead
  /\ UNCHANGED <<frames, arrived, packet, sessionVars, cell, head, tail, localVars, dropped,
                 outstanding>>

\* HandlePacket: a size no packet can have closes the socket, and DoRead returns at once.
Malformed ==
  /\ pc = "frame" /\ DataSize >= Header
  /\ HeaderSize \notin Header .. MaxPacket
  /\ pc' = "closed"
  /\ UNCHANGED <<socketVars, packet, sessionVars, cell, head, tail, localVars, dropped,
                 outstanding>>

\* HandlePacket: a whole frame is copied to a packet buffer, unless the socket has lost its
\* session or the pool has no buffer; either way it is read.
Whole == pc = "frame" /\ DataSize >= Header /\ HeaderSize \in Header .. MaxPacket /\ DataSize >= HeaderSize

Skip ==
  /\ Whole
  /\ readPos' = readPos + HeaderSize
  /\ dropped' = dropped \cup {Contents(HeaderSize)}
  /\ UNCHANGED <<frames, arrived, data, writePos, pc, packet, sessionVars, cell, head, tail,
                 localVars, outstanding>>

CopyFrame ==
  /\ Whole /\ bound
  /\ packet' = Contents(HeaderSize)
  /\ readPos' = readPos + HeaderSize
  /\ outstanding' = outstanding + 1
  /\ pc' = "got"
  /\ UNCHANGED <<frames, arrived, data, writePos, sessionVars, cell, head, tail, localVars,
                 dropped>>

\* The packet is released, and HandlePacket goes on to the next frame.
ReleasePacket ==
  /\ dropped' = dropped \cup {packet}
  /\ packet' = NoPacket
  /\ outstanding' = outstanding - 1
  /\ pc' = "frame"

\* pSession->OnPacketReceived: pSession is read again, and a local thread may have cleared it
\* (the server does not survive that); a session that is not Active releases the packet.
OnPacketReceived ==
  /\ pc = "got"
  /\ \/ ~bound /\ pc' = "crashed" /\ UNCHANGED <<packet, dropped, outstanding>>
     \/ bound /\ active /\ pc' = "queue" /\ UNCHANGED <<packet, dropped, outstanding>>
     \/ bound /\ ~active /\ ReleasePacket
  /\ UNCHANGED <<socketVars, sessionVars, cell, head, tail, localVars>>

\* Mutants of Push: a full ring is not noticed in time; or the packet it refuses is kept.
PushWhenFull ==
  /\ pc = "queue"
  /\ IF tail - head > RingSize
     THEN ReleasePacket
     ELSE pc' = "write" /\ UNCHANGED <<packet, dropped, outstanding>>
  /\ UNCHANGED <<socketVars, sessionVars, cell, head, tail, localVars>>

PushWithoutRelease ==
  /\ pc = "queue"
  /\ pc' = IF tail - head >= RingSize THEN "frame" ELSE "write"
  /\ UNCHANGED <<socketVars, packet, sessionVars, cell, head, tail, localVars, dropped, outstanding>>

\* SPSCQueue::Push: load both counters; a full ring refuses, and the packet is released.
Push ==
  /\ pc = "queue"
  /\ IF tail - head >= RingSize
     THEN ReleasePacket
     ELSE pc' = "write" /\ UNCHANGED <<packet, dropped, outstanding>>
  /\ UNCHANGED <<socketVars, sessionVars, cell, head, tail, localVars>>

\* SPSCQueue::Push: write the element ...
PushWrite ==
  /\ pc = "write"
  /\ cell' = [cell EXCEPT ![tail % RingSize] = packet]
  /\ pc' = "publish"
  /\ UNCHANGED <<socketVars, packet, sessionVars, head, tail, localVars, dropped, outstanding>>

\* ... and let the consumer see it.
PushPublish ==
  /\ pc = "publish"
  /\ tail' = tail + 1
  /\ packet' = NoPacket
  /\ pc' = "frame"
  /\ UNCHANGED <<socketVars, sessionVars, cell, head, localVars, dropped, outstanding>>

Strand ==
  \/ \E n \in 1 .. Capacity : ReadComplete(n)
  \/ ReadError \/ Wait \/ Malformed \/ Skip \/ CopyFrame \/ OnPacketReceived
  \/ Push \/ PushWrite \/ PushPublish

--------------------------------------------------------------------------------
(* The local thread                                                               *)

\* SPSCQueue::Pop: load both counters; there must be something.
Pop ==
  /\ lpc = "pop" /\ head < tail
  /\ lpc' = "take"
  /\ UNCHANGED <<socketVars, pc, packet, sessionVars, cell, head, tail, taken, handled, dropped,
                 outstanding>>

\* Mutant of PopTake: the element after the head.
PopTakeNext ==
  /\ lpc = "take"
  /\ taken' = cell[(head + 1) % RingSize]
  /\ lpc' = "store"
  /\ UNCHANGED <<socketVars, pc, packet, sessionVars, cell, head, tail, handled, dropped,
                 outstanding>>

\* SPSCQueue::Pop: read the element ...
PopTake ==
  /\ lpc = "take"
  /\ taken' = cell[head % RingSize]
  /\ lpc' = "store"
  /\ UNCHANGED <<socketVars, pc, packet, sessionVars, cell, head, tail, handled, dropped,
                 outstanding>>

\* ... and give its place back to the producer.
PopStore ==
  /\ lpc = "store"
  /\ head' = head + 1
  /\ handled' = Append(handled, taken)
  /\ lpc' = "handle"
  /\ UNCHANGED <<socketVars, pc, packet, sessionVars, cell, tail, taken, dropped, outstanding>>

\* CLocalThread::HandlePacket, and Reset of a session that is removed, end by releasing it.
HandleAndRelease ==
  /\ lpc = "handle"
  /\ outstanding' = outstanding - 1
  /\ taken' = NoPacket
  /\ lpc' = "pop"
  /\ UNCHANGED <<socketVars, pc, packet, sessionVars, cell, head, tail, handled, dropped>>

\* The session is unbound from the socket, or its state changes, at any time.
UnbindSession ==
  /\ bound /\ bound' = FALSE
  /\ UNCHANGED <<socketVars, pc, packet, active, cell, head, tail, localVars, dropped, outstanding>>

SetState ==
  /\ active' = ~active
  /\ UNCHANGED <<socketVars, pc, packet, bound, cell, head, tail, localVars, dropped, outstanding>>

LocalStep == Pop \/ PopTake \/ PopStore \/ HandleAndRelease
Next == pc # "crashed" /\ (Strand \/ LocalStep \/ UnbindSession \/ SetState)

Spec == Init /\ [][Next]_vars

\* Handlers run to their end, and the local thread keeps ticking; the client and the network
\* owe nothing.
Handlers == Wait \/ Malformed \/ Skip \/ CopyFrame \/ OnPacketReceived \/ Push \/ PushWrite \/ PushPublish
FairSpec ==
  Spec /\ WF_vars(pc # "crashed" /\ Handlers) /\ WF_vars(pc # "crashed" /\ LocalStep)

--------------------------------------------------------------------------------
(* Properties                                                                     *)

\* DoRead passes asio whatever room is left, and a read into no room completes at once with
\* nothing: the strand would spin for ever.  It holds because what HandlePacket leaves is less
\* than one packet, and Clean makes room for another.
RoomToRead == pc = "read" => FreeSize >= MaxPacket

\* However the stream is cut and wherever Clean moves it: no packet mixes the bytes of two
\* frames, and the local thread gets the frames in the order in which the client sent them,
\* none of them twice, and none that was dropped.
WholeInOrder ==
  /\ Torn \notin dropped
  /\ \A n \in DOMAIN handled :
       /\ handled[n] \notin dropped \cup {Torn, NoPacket}
       /\ n > 1 => handled[n - 1] < handled[n]

\* A packet buffer is released once on every path: a full ring, an inactive session and the
\* handler of the local thread each give back what HandlePacket has acquired, and what is not
\* given back is in the ring or in somebody's hands.
BuffersAccounted ==
  outstanding =
    (tail - head) + (IF pc \in {"got", "queue", "write", "publish", "crashed"} THEN 1 ELSE 0)
                  + (IF lpc = "handle" THEN 1 ELSE 0)

\* The ring with its two counters behaves as a queue: an element is in it from the moment it
\* is written, can be popped when the tail is stored, and is not overwritten before that.
RingCell(n) == cell[n % RingSize]
Places == (tail - head) + (IF pc = "publish" THEN 1 ELSE 0)
RingQueue == [n \in 1 .. Places |-> [item |-> RingCell(head + n - 1), ready |-> n <= tail - head]]
Ring ==
  INSTANCE PacketFifo WITH
    Items <- Packets, Capacity <- RingSize, queue <- RingQueue, delivered <- handled
IncomingQueueIsFifo == Ring!Spec

\* A frame that has arrived behind well-formed ones does not wait for the client to send
\* more: it is handled or dropped, unless the connection ends first.
WellFormed(i) == frames[i] \in Header .. MaxPacket
Arrived(i) == (\A j \in 1 .. i : WellFormed(j)) /\ arrived >= Start[i + 1] - 1
Settled(i) == i \in dropped \/ \E n \in DOMAIN handled : handled[n] = i
FrameIsSettled ==
  \A i \in Frames : Arrived(i) ~> (Settled(i) \/ pc \in {"closed", "crashed"})
================================================================================
