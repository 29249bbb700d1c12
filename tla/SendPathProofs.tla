---------------------------- MODULE SendPathProofs ----------------------------
(***************************************************************************)
(* Proofs about SendPath for any number of sending threads, any batch size *)
(* and limit: one writer at a time, also with a store buffer; and, without *)
(* one, that no packet is forgotten in the send queue.                     *)
(***************************************************************************)
EXTENDS SendPath, FiniteSetTheorems, SequenceTheorems, TLAPS

USE StrandAssumption

\* What the proofs need of TypeOK.
Typing ==
  /\ state \in {"Connected", "Closing", "Closed"}
  /\ sending \in BOOLEAN
  /\ tasks \in Nat
  /\ pc \in [Threads -> Pcs]
  /\ mode \in [Threads -> {"batch", "drop", "close"}]
  /\ buffered \in BOOLEAN

\* The strand is in Pop for a batch or to drop what is left, or for Close; the senders are
\* in Pop for Close only.  Whoever is past the compare-and-swap of Close has found the
\* socket connected and changed that, and what is dropped is dropped on a dead socket.
PopOK ==
  /\ \A p \in Senders :
       /\ pc[p] \in {"peek", "take", "advance"} => mode[p] = "close"
       /\ pc[p] \in {"idle", "measure", "push", "wake", "cas", "clear", "peek", "take",
                     "advance", "shut"}
       /\ pc[p] \in {"clear", "peek", "take", "advance", "shut"} => state # "Connected"
  /\ pc[Strand] \notin {"measure", "push", "wake"}
  /\ pc[Strand] \in {"popped", "again", "rewake"} => mode[Strand] = "batch"
  /\ pc[Strand] = "quiet" => mode[Strand] \in {"batch", "drop"}
  /\ pc[Strand] \in {"clear", "shut"} => state # "Connected"
  /\ pc[Strand] \in {"peek", "take", "advance", "quiet"} /\ mode[Strand] # "batch"
       => state # "Connected"

\* OneWriter is inductive together with the fact that a store that is on its way is the
\* only reason for bIsSending to be set without anybody at work.
Writing == Typing /\ PopOK /\ OneWriter /\ (buffered => sending)

USE DEF Typing, PopOK, Pcs, Threads, OneWriter, Rights, AtWork, Writing

LEMMA InitWriting == Init => Writing
<1> SUFFICES ASSUME Init PROVE Writing
  OBVIOUS
<1> USE DEF Init
<1>1. \A p \in Threads : pc[p] = "idle"
  OBVIOUS
<1>2. Typing
  OBVIOUS
<1>3. PopOK
  BY <1>1
<1>4. ~AtWork /\ Rights = 0
  BY <1>1
<1> QED
  BY <1>2, <1>3, <1>4

-------------------------------------------------------------------------------
(* The senders never disturb the strand, but for waking it.                     *)

LEMMA SendWriting ==
  ASSUME Writing, NEW p \in Senders, SendStep(p) \/ BeginClose(p)
  PROVE  Writing'
<1>1. CASE BeginSend(p)
  BY <1>1 DEF BeginSend, Goto, queueVars
<1>2. CASE Measure(p)
  BY <1>2 DEF Measure, Goto, queueVars
<1>3. CASE Push(p)
  BY <1>3 DEF Push, Goto
<1>4. CASE Wake(p)
  BY <1>4 DEF Wake, Goto, queueVars
<1>5. CASE BeginClose(p)
  BY <1>5 DEF BeginClose, Goto, queueVars
<1> QED
  BY <1>1, <1>2, <1>3, <1>4, <1>5 DEF SendStep

LEMMA CloseWriting ==
  ASSUME Writing, NEW p \in Threads, CloseStep(p)
  PROVE  Writing'
<1>1. CASE CloseCas(p)
  BY <1>1 DEF CloseCas, Goto, queueVars
<1>2. CASE ClearBatch(p)
  BY <1>2 DEF ClearBatch, PopFor, queueVars
<1>3. CASE Shut(p)
  BY <1>3 DEF Shut, Goto, queueVars
<1> QED
  BY <1>1, <1>2, <1>3 DEF CloseStep

LEMMA PopWriting ==
  ASSUME Writing, NEW p \in Threads, PopStep(p)
  PROVE  Writing'
<1>1. CASE Peek(p)
  BY <1>1 DEF Peek, Goto, queueVars
<1>2. CASE Take(p)
  BY <1>2 DEF Take, Goto
<1>3. CASE Advance(p)
  BY <1>3 DEF Advance, Goto
<1> QED
  BY <1>1, <1>2, <1>3 DEF PopStep

LEMMA StrandWriting ==
  ASSUME Writing, StrandStep \/ ReadFailed \/ ToggleStall
  PROVE  Writing'
<1> USE DEF Goto, PopFor, queueVars, threadVars
<1>1. CASE RunTask
  BY <1>1 DEF RunTask
<1>2. CASE Process
  BY <1>2 DEF Process
<1>3. CASE StartWrite
  BY <1>3 DEF StartWrite
<1>4. CASE Quiet
  BY <1>4 DEF Quiet
<1>5. CASE Flush
  BY <1>5 DEF Flush
<1>6. CASE Again
  BY <1>6 DEF Again
<1>7. CASE Rewake
  BY <1>7 DEF Rewake
<1>8. CASE WriteDone
  BY <1>8 DEF WriteDone
<1>9. CASE WriteFailed
  BY <1>9 DEF WriteFailed
<1>10. CASE EndSending
  <2>1. Rights' = 0 /\ ~buffered'
    BY <1>10 DEF EndSending
  <2>2. Typing' /\ PopOK'
    BY <1>10 DEF EndSending
  <2>3. OneWriter' /\ (buffered' => sending')
    <3> HIDE DEF Rights
    <3> QED
      BY <2>1
  <2> QED
    BY <2>2, <2>3
<1>11. CASE CloseStep(Strand) \/ PopStep(Strand)
  BY <1>11, CloseWriting, PopWriting
<1>12. CASE ReadFailed
  BY <1>12 DEF ReadFailed
<1>13. CASE ToggleStall
  BY <1>13 DEF ToggleStall
<1> QED
  BY <1>1, <1>2, <1>3, <1>4, <1>5, <1>6, <1>7, <1>8, <1>9, <1>10, <1>11, <1>12, <1>13
     DEF StrandStep

LEMMA NextWriting == Writing /\ [Next]_vars => Writing'
<1> SUFFICES ASSUME Writing, [Next]_vars PROVE Writing'
  OBVIOUS
<1>1. CASE \E p \in Senders : SendStep(p) \/ BeginClose(p) \/ CloseStep(p) \/ PopStep(p)
  BY <1>1, SendWriting, CloseWriting, PopWriting
<1>2. CASE StrandStep \/ ReadFailed \/ ToggleStall
  BY <1>2, StrandWriting
<1>3. CASE UNCHANGED vars
  BY <1>3 DEF vars, queueVars, threadVars
<1> QED
  BY <1>1, <1>2, <1>3 DEF Next

\* At most one batch is being filled or written on a socket at any time, and bIsSending is
\* set meanwhile (Send, ProcessSendQueue, OnWriteComplete), whatever Close does in between
\* and however late the strand's store of bIsSending becomes visible.
THEOREM SingleWriter == Spec => []OneWriter
<1>1. Writing => OneWriter
  OBVIOUS
<1> QED
  BY InitWriting, NextWriting, <1>1, PTL DEF Spec

-------------------------------------------------------------------------------
(* Without a store buffer.                                                      *)

\* The strand, on a connected socket, has not yet looked at the queue again when its store
\* of bIsSending is still on the way; that is what the wake-up protocol rests on.
Attending ==
  /\ Writing
  /\ PacketAttended
  /\ buffered /\ state = "Connected" => pc[Strand] = "again"

LEMMA SendAttending ==
  ASSUME Attending, NEW p \in Senders, SendStep(p) \/ BeginClose(p)
  PROVE  Attending'
<1> USE SendWriting DEF Attending, PacketAttended
<1>1. CASE BeginSend(p)
  BY <1>1 DEF BeginSend, Goto, queueVars, SendStep
<1>2. CASE Measure(p)
  BY <1>2 DEF Measure, Goto, queueVars, SendStep
<1>3. CASE Push(p)
  BY <1>3 DEF Push, Goto, SendStep
<1>4. CASE Wake(p)
  BY <1>4 DEF Wake, Goto, queueVars, SendStep
<1>5. CASE BeginClose(p)
  BY <1>5 DEF BeginClose, Goto, queueVars
<1> QED
  BY <1>1, <1>2, <1>3, <1>4, <1>5 DEF SendStep

LEMMA CloseAttending ==
  ASSUME Attending, NEW p \in Threads, CloseStep(p)
  PROVE  Attending'
<1> USE CloseWriting DEF Attending, PacketAttended
<1>1. CASE CloseCas(p)
  BY <1>1 DEF CloseCas, Goto, queueVars
<1>2. CASE ClearBatch(p)
  BY <1>2 DEF ClearBatch, PopFor, queueVars
<1>3. CASE Shut(p)
  BY <1>3 DEF Shut, Goto, queueVars
<1> QED
  BY <1>1, <1>2, <1>3 DEF CloseStep

\* Whoever pops a packet of a connected socket has the right to send.
LEMMA PopAttending ==
  ASSUME Attending, NEW p \in Threads, PopStep(p)
  PROVE  Attending'
<1>1. Writing'
  BY PopWriting DEF Attending
<1>2. state' = state /\ sending' = sending /\ buffered' = buffered
  BY DEF PopStep, Peek, Take, Advance
<1>3. state = "Connected" => sending /\ ~buffered
  BY DEF Attending, PopStep, Peek, Take, Advance
<1> QED
  BY <1>1, <1>2, <1>3 DEF Attending, PacketAttended

LEMMA StrandAttending ==
  ASSUME ~StoreBuffer, Attending, StrandStep \/ ReadFailed \/ ToggleStall
  PROVE  Attending'
<1> USE DEF Goto, PopFor, queueVars, threadVars
<1>0. Writing'
  BY StrandWriting DEF Attending
<1>1. CASE RunTask \/ Process \/ StartWrite \/ WriteDone \/ WriteFailed
  <2>1. sending' = sending /\ buffered' = buffered
    BY <1>1 DEF RunTask, Process, StartWrite, WriteDone, WriteFailed
  <2>2. Rights # 0
    BY <1>1 DEF Attending, RunTask, Process, StartWrite, WriteDone, WriteFailed
  <2>3. sending /\ ~buffered
    BY <2>2 DEF Attending
  <2> QED
    BY <1>0, <2>1, <2>3 DEF Attending, PacketAttended
<1>2. CASE Quiet
  BY <1>0, <1>2 DEF Quiet, Attending, PacketAttended
<1>3. CASE Flush
  BY <1>0, <1>3 DEF Flush, Attending, PacketAttended
<1>4. CASE Again
  BY <1>0, <1>4 DEF Again, Attending, PacketAttended
<1>5. CASE Rewake
  BY <1>0, <1>5 DEF Rewake, Attending, PacketAttended
<1>6. CASE EndSending
  BY <1>0, <1>6 DEF EndSending, Attending, PacketAttended
<1>7. CASE CloseStep(Strand) \/ PopStep(Strand)
  BY <1>7, CloseAttending, PopAttending
<1>8. CASE ReadFailed
  BY <1>0, <1>8 DEF ReadFailed, Attending, PacketAttended
<1>9. CASE ToggleStall
  BY <1>0, <1>9 DEF ToggleStall, Attending, PacketAttended
<1> QED
  BY <1>1, <1>2, <1>3, <1>4, <1>5, <1>6, <1>7, <1>8, <1>9 DEF StrandStep

LEMMA NextAttending ==
  ASSUME ~StoreBuffer, Attending, [Next]_vars
  PROVE  Attending'
<1>1. CASE \E p \in Senders : SendStep(p) \/ BeginClose(p) \/ CloseStep(p) \/ PopStep(p)
  BY <1>1, SendAttending, CloseAttending, PopAttending
<1>2. CASE StrandStep \/ ReadFailed \/ ToggleStall
  BY <1>2, StrandAttending
<1>3. CASE UNCHANGED vars
  <2>1. Writing'
    BY NextWriting DEF Attending
  <2> QED
    BY <1>3, <2>1 DEF Attending, PacketAttended, vars, queueVars, threadVars
<1> QED
  BY <1>1, <1>2, <1>3 DEF Next

\* When the strand's accesses reach memory in their order, no packet is left in the queue of
\* a connected socket with nobody to take it (Send, ProcessSendQueue): the second look at
\* the queue after bIsSending is given up is enough.
THEOREM PacketsAttended ==
  ASSUME ~StoreBuffer
  PROVE  Spec => []PacketAttended
<1>1. Init => Attending
  BY InitWriting DEF Init, Attending, PacketAttended
<1>2. Attending /\ [Next]_vars => Attending'
  BY NextAttending
<1>3. Attending => PacketAttended
  BY DEF Attending
<1> QED
  BY <1>1, <1>2, <1>3, PTL DEF Spec
-------------------------------------------------------------------------------
(* What DoWrite gathers.                                                        *)

HIDE DEF Typing, PopOK, Pcs, Threads, OneWriter, Rights, AtWork, Writing
USE SendAssumption

LEMMA UpTo ==
  ASSUME NEW m \in Nat
  PROVE  IsFiniteSet(1 .. m) /\ Cardinality(1 .. m) = m
<1>1. 1 \in Int /\ m \in Int /\ (IF 1 > m THEN 0 ELSE m - 1 + 1) = m
  OBVIOUS
<1> QED
  BY <1>1, FS_Interval

LEMMA PartOf ==
  ASSUME NEW m \in Nat, NEW K, K \subseteq 1 .. m
  PROVE  IsFiniteSet(K) /\ Cardinality(K) \in Nat
<1>1. K \in SUBSET (1 .. m) /\ IsFiniteSet(1 .. m)
  BY UpTo
<1> QED
  BY <1>1, FS_Subset, FS_CardinalityType

\* The nth entry that is left exists: the ranks of the entries are all numbers up to their
\* count, because different entries have different ranks.
LEMMA NthKept ==
  ASSUME NEW K, NEW m \in Nat, K \subseteq 1 .. m, NEW n \in 1 .. Cardinality(K)
  PROVE  \E i \in K : Cardinality({h \in K : h <= i}) = n
<1> DEFINE below(i) == {h \in K : h <= i}
           rank == [i \in K |-> Cardinality(below(i))]
<1>1. IsFiniteSet(K) /\ Cardinality(K) \in Nat
  BY PartOf
<1>2. ASSUME NEW i \in K
      PROVE  /\ IsFiniteSet(below(i)) /\ Cardinality(below(i)) \in 1 .. Cardinality(K)
  <2>1. below(i) \in SUBSET K /\ i \in below(i)
    OBVIOUS
  <2>2. /\ IsFiniteSet(below(i)) /\ Cardinality(below(i)) \in Nat
        /\ Cardinality(below(i)) <= Cardinality(K)
    BY <1>1, <2>1, FS_Subset, FS_CardinalityType
  <2>3. Cardinality(below(i)) # 0
    BY <2>1, <2>2, FS_EmptySet
  <2> QED
    BY <1>1, <2>2, <2>3
<1>3. ASSUME NEW i \in K, NEW j \in K, i < j
      PROVE  Cardinality(below(i)) # Cardinality(below(j))
  <2>0. i \in Int /\ j \in Int /\ \A h \in K : h \in Int
    OBVIOUS
  <2>1. j \in below(j) /\ j \notin below(i) /\ \A h \in below(i) : h \in below(j)
    BY <1>3, <2>0
  <2> HIDE DEF below
  <2>2. IsFiniteSet(below(j))
    BY <1>2
  <2>3. Cardinality(below(i)) # Cardinality(below(j)) \/ below(i) = below(j)
    <3>1. below(i) \in SUBSET below(j)
      BY <2>1
    <3> QED
      BY <2>2, <3>1, FS_Subset
  <2> QED
    BY <2>1, <2>3
<1>4. rank \in Injection(K, 1 .. Cardinality(K))
  <2>1. rank \in [K -> 1 .. Cardinality(K)]
    BY <1>2
  <2>2. ASSUME NEW i \in K, NEW j \in K, rank[i] = rank[j] PROVE i = j
    <3>1. i \in Int /\ j \in Int
      OBVIOUS
    <3>2. CASE i < j
      BY <1>3, <2>2, <3>2
    <3>3. CASE j < i
      BY <1>3, <2>2, <3>3
    <3> QED
      BY <3>1, <3>2, <3>3
  <2> QED
    BY <2>1, <2>2 DEF Injection, IsInjective
<1>5. IsFiniteSet(1 .. Cardinality(K)) /\ Cardinality(1 .. Cardinality(K)) = Cardinality(K)
  BY <1>1, UpTo
<1>6. rank \in Surjection(K, 1 .. Cardinality(K))
  <2> HIDE DEF rank
  <2> QED
    BY <1>4, <1>5, FS_Injection
<1>7. PICK i \in K : rank[i] = n
  BY <1>6 DEF Surjection
<1> QED
  BY <1>7

\* What is written is packets, in an order.
LEMMA RemainingType ==
  ASSUME NEW b \in Seq(Nat \cup {NoTicket})
  PROVE  Remaining(b) \in Seq(Nat)
<1> DEFINE kept == {i \in DOMAIN b : b[i] # NoTicket}
           nth(n) == CHOOSE i \in kept : Cardinality({h \in kept : h <= i}) = n
<1>1. Len(b) \in Nat /\ DOMAIN b = 1 .. Len(b)
  BY LenProperties
<1>2. kept \subseteq 1 .. Len(b) /\ Cardinality(kept) \in Nat
  <2>1. kept \subseteq 1 .. Len(b)
    BY <1>1
  <2> HIDE DEF kept
  <2> QED
    BY <1>1, <2>1, PartOf
<1>3. ASSUME NEW n \in 1 .. Cardinality(kept) PROVE b[nth(n)] \in Nat
  <2>1. nth(n) \in kept
    <3> HIDE DEF kept
    <3>1. \E i \in kept : Cardinality({h \in kept : h <= i}) = n
      BY <1>1, <1>2, NthKept
    <3> QED
      BY <3>1
  <2> QED
    BY <1>1, <2>1, ElementOfSeq
<1>4. Remaining(b) = [n \in 1 .. Cardinality(kept) |-> b[nth(n)]]
  BY DEF Remaining
<1> HIDE DEF kept, nth
<1> QED
  BY <1>2, <1>3, <1>4, IsASeq

\* A batch of which Close has taken nothing is written as it is.
LEMMA RemainingAll ==
  ASSUME NEW b \in Seq(Nat)
  PROVE  Remaining(b) = b
<1> DEFINE kept == {i \in DOMAIN b : b[i] # NoTicket}
           nth(n) == CHOOSE i \in kept : Cardinality({h \in kept : h <= i}) = n
<1>1. Len(b) \in Nat /\ DOMAIN b = 1 .. Len(b) /\ b \in [1 .. Len(b) -> Nat]
  BY LenProperties
<1>2. kept = 1 .. Len(b) /\ Cardinality(kept) = Len(b)
  <2>1. kept = 1 .. Len(b)
    BY <1>1 DEF NoTicket
  <2> QED
    BY <1>1, <2>1, UpTo
<1>3. ASSUME NEW i \in kept PROVE Cardinality({h \in kept : h <= i}) = i
  <2>1. i \in Nat /\ {h \in kept : h <= i} = 1 .. i
    BY <1>1, <1>2
  <2> QED
    BY <2>1, UpTo
<1>4. ASSUME NEW n \in 1 .. Len(b) PROVE nth(n) = n
  BY <1>2, <1>3
<1>5. Remaining(b) = [n \in 1 .. Cardinality(kept) |-> b[nth(n)]]
  BY DEF Remaining
<1> HIDE DEF kept, nth
<1> QED
  BY <1>1, <1>2, <1>4, <1>5

-------------------------------------------------------------------------------
(* Types.                                                                       *)

\* PopBatch takes a packet only when the batch has room for it.
RoomInBatch ==
  pc[Strand] \in {"take", "advance"} /\ mode[Strand] = "batch" => Len(batch) < BatchSize

Typed == TypeOK /\ Writing /\ RoomInBatch

\* What Close and an error leave of a batch, and what is given back of it.
LEMMA NulledBatch ==
  ASSUME TypeOK
  PROVE  /\ [i \in 1 .. Len(batch) |-> NoTicket] \in Seq(Nat \cup {NoTicket})
         /\ Len([i \in 1 .. Len(batch) |-> NoTicket]) = Len(batch)
         /\ Packets(batch) \subseteq Nat
<1>1. batch \in Seq(Nat \cup {NoTicket}) /\ Len(batch) \in Nat
  BY LenProperties DEF TypeOK
<1>2. [i \in 1 .. Len(batch) |-> NoTicket] \in Seq(Nat \cup {NoTicket})
  BY <1>1, IsASeq
<1>3. Len([i \in 1 .. Len(batch) |-> NoTicket]) = Len(batch)
  BY <1>1
<1>4. \A i \in 1 .. Len(batch) : batch[i] \in Nat \cup {NoTicket}
  BY <1>1, ElementOfSeq
<1> QED
  BY <1>2, <1>3, <1>4 DEF Packets

\* The empty batch fits.
LEMMA NoBatch == <<>> \in Seq(Nat \cup {NoTicket}) /\ <<>> \in Seq(Nat) /\ Len(<<>>) = 0
  BY EmptySeq

LEMMA SendTyped ==
  ASSUME Typed, NEW p \in Senders, SendStep(p) \/ BeginClose(p)
  PROVE  TypeOK' /\ RoomInBatch'
<1> USE DEF Typed, TypeOK, RoomInBatch, Goto, Threads, Pcs, queueVars
<1>1. CASE BeginSend(p)
  BY <1>1 DEF BeginSend
<1>2. CASE Measure(p)
  BY <1>2 DEF Measure
<1>3. CASE Push(p)
  BY <1>3 DEF Push
<1>4. CASE Wake(p)
  BY <1>4 DEF Wake
<1>5. CASE BeginClose(p)
  BY <1>5 DEF BeginClose
<1> QED
  BY <1>1, <1>2, <1>3, <1>4, <1>5 DEF SendStep

LEMMA CloseTyped ==
  ASSUME Typed, NEW p \in Threads, CloseStep(p)
  PROVE  TypeOK' /\ RoomInBatch'
<1> USE DEF Typed, TypeOK, RoomInBatch, Goto, Threads, Pcs, queueVars
<1>1. CASE CloseCas(p)
  BY <1>1 DEF CloseCas
<1>2. CASE ClearBatch(p)
  <2>1. /\ batch' \in Seq(Nat \cup {NoTicket}) /\ Len(batch') = Len(batch)
        /\ released' \subseteq Nat
    BY <1>2, NulledBatch DEF ClearBatch
  <2>2. /\ pc' \in [Threads -> Pcs] /\ mode' \in [Threads -> {"batch", "drop", "close"}]
        /\ \/ pc'[Strand] = "peek"
           \/ pc'[Strand] = pc[Strand] /\ mode'[Strand] = mode[Strand]
    BY <1>2 DEF ClearBatch, PopFor
  <2> QED
    BY <1>2, <2>1, <2>2 DEF ClearBatch
<1>3. CASE Shut(p)
  BY <1>3 DEF Shut
<1> QED
  BY <1>1, <1>2, <1>3 DEF CloseStep

LEMMA PopTyped ==
  ASSUME Typed, NEW p \in Threads, PopStep(p)
  PROVE  TypeOK' /\ RoomInBatch'
<1> USE DEF Typed, TypeOK, RoomInBatch, Goto, Threads, Pcs, queueVars
<1>1. CASE Peek(p)
  BY <1>1 DEF Peek
<1>2. CASE Take(p)
  BY <1>2 DEF Take
<1>3. CASE Advance(p)
  <2>1. /\ head' = item[p] + 1 /\ pc' = [pc EXCEPT ![p] = "peek"] /\ item[p] \in Nat
        /\ UNCHANGED <<state, sending, tail, full, writing, tasks, mode, item, calls, buffered,
                       stall, written>>
    BY <1>3 DEF Advance
  <2>2. CASE mode[p] = "batch"
    <3>1. p = Strand /\ batch' = Append(batch, item[p]) /\ released' = released
      BY <1>3, <2>2 DEF Advance, Writing, PopOK
    <3>2. pc[Strand] = "advance" /\ Len(batch) < BatchSize
      BY <1>3, <2>2, <3>1 DEF Advance
    <3>3. batch' \in Seq(Nat \cup {NoTicket}) /\ Len(batch') = Len(batch) + 1 /\ Len(batch) \in Nat
      <4>1. batch \in Seq(Nat \cup {NoTicket}) /\ item[p] \in Nat \cup {NoTicket}
        BY <2>1
      <4> QED
        BY <3>1, <4>1, AppendProperties, LenProperties
    <3>4. pc'[Strand] = "peek"
      BY <2>1, <3>1
    <3> QED
      BY <2>1, <3>1, <3>2, <3>3, <3>4, SendAssumption
  <2>3. CASE mode[p] # "batch"
    <3>1. batch' = batch /\ released' = released \cup {item[p]}
      BY <1>3, <2>3 DEF Advance
    <3>2. pc'[Strand] = "peek" \/ pc'[Strand] = pc[Strand]
      BY <2>1
    <3>3. released' \subseteq Nat /\ pc' \in [Threads -> Pcs]
      BY <2>1, <3>1
    <3>4. TypeOK'
      BY <2>1, <3>1, <3>3
    <3>5. RoomInBatch'
      BY <2>1, <3>1, <3>2
    <3> QED
      BY <3>4, <3>5
  <2> QED
    BY <2>2, <2>3
<1> QED
  BY <1>1, <1>2, <1>3 DEF PopStep

LEMMA StrandTyped ==
  ASSUME Typed, StrandStep \/ ReadFailed \/ ToggleStall
  PROVE  TypeOK' /\ RoomInBatch'
<1> USE DEF Typed, TypeOK, RoomInBatch, Goto, PopFor, Threads, Pcs, queueVars, threadVars
<1>1. CASE RunTask
  BY <1>1 DEF RunTask
<1>2. CASE Process
  <2>1. batch' \in Seq(Nat \cup {NoTicket}) /\ Len(batch') <= BatchSize
    <3>1. batch' = <<>> \/ batch' = batch
      BY <1>2 DEF Process
    <3>2. <<>> \in Seq(Nat \cup {NoTicket}) /\ Len(<<>>) <= BatchSize
      BY NoBatch, SendAssumption
    <3>3. batch \in Seq(Nat \cup {NoTicket}) /\ Len(batch) <= BatchSize
      OBVIOUS
    <3> HIDE DEF Typed, TypeOK
    <3> QED
      BY <3>1, <3>2, <3>3
  <2>2. /\ pc' \in [Threads -> Pcs] /\ mode' \in [Threads -> {"batch", "drop", "close"}]
        /\ pc'[Strand] \in {"peek", "idle"}
    BY <1>2 DEF Process
  <2> QED
    BY <1>2, <2>1, <2>2 DEF Process
<1>3. CASE StartWrite
  <2>1. writing' \in Seq(Nat)
    BY <1>3, RemainingType DEF StartWrite
  <2> QED
    BY <1>3, <2>1 DEF StartWrite
<1>4. CASE Quiet
  BY <1>4 DEF Quiet
<1>5. CASE Flush
  BY <1>5 DEF Flush
<1>6. CASE Again
  BY <1>6 DEF Again
<1>7. CASE Rewake
  BY <1>7 DEF Rewake
<1>8. CASE WriteDone
  <2>1. /\ written' \in Seq(Nat) /\ writing' \in Seq(Nat) /\ released' \subseteq Nat
        /\ batch' \in Seq(Nat \cup {NoTicket}) /\ Len(batch') <= BatchSize
    <3>1. written' = written \o writing /\ written \in Seq(Nat) /\ writing \in Seq(Nat)
      BY <1>8 DEF WriteDone
    <3>2. written' \in Seq(Nat)
      BY <3>1, ConcatProperties
    <3> QED
      <4>1. batch' = <<>> /\ writing' = <<>> /\ released' = released \cup Packets(batch)
        BY <1>8 DEF WriteDone
      <4>2. released' \subseteq Nat
        BY <4>1, NulledBatch
      <4> QED
        BY <3>2, <4>1, <4>2, NoBatch, SendAssumption
  <2> QED
    BY <1>8, <2>1 DEF WriteDone
<1>9. CASE WriteFailed
  <2>1. /\ writing' \in Seq(Nat) /\ released' \subseteq Nat
        /\ batch' \in Seq(Nat \cup {NoTicket}) /\ Len(batch') <= BatchSize
    BY <1>9, NoBatch, NulledBatch DEF WriteFailed
  <2> QED
    BY <1>9, <2>1 DEF WriteFailed
<1>10. CASE EndSending
  BY <1>10 DEF EndSending
<1>11. CASE CloseStep(Strand) \/ PopStep(Strand)
  BY <1>11, CloseTyped, PopTyped
<1>12. CASE ReadFailed
  BY <1>12 DEF ReadFailed
<1>13. CASE ToggleStall
  BY <1>13 DEF ToggleStall
<1> QED
  BY <1>1, <1>2, <1>3, <1>4, <1>5, <1>6, <1>7, <1>8, <1>9, <1>10, <1>11, <1>12, <1>13
     DEF StrandStep

LEMMA InitTyped == Init => Typed
<1> SUFFICES ASSUME Init PROVE TypeOK /\ RoomInBatch
  BY InitWriting DEF Typed
<1>1. batch \in Seq(Nat \cup {NoTicket}) /\ writing \in Seq(Nat) /\ written \in Seq(Nat)
      /\ Len(batch) <= BatchSize
  BY NoBatch, SendAssumption DEF Init
<1> QED
  <2>1. /\ pc \in [Threads -> Pcs] /\ mode \in [Threads -> {"batch", "drop", "close"}]
        /\ item \in [Threads -> Nat] /\ calls \in [Senders -> 0 .. MaxCalls]
    BY SendAssumption DEF Init, Pcs
  <2>2. pc[Strand] = "idle"
    BY DEF Init, Threads
  <2> QED
    BY <1>1, <2>1, <2>2 DEF Init, TypeOK, RoomInBatch

LEMMA NextTyped == Typed /\ [Next]_vars => Typed'
<1> SUFFICES ASSUME Typed, [Next]_vars PROVE TypeOK' /\ RoomInBatch'
  BY NextWriting DEF Typed
<1>1. CASE \E p \in Senders : SendStep(p) \/ BeginClose(p) \/ CloseStep(p) \/ PopStep(p)
  BY <1>1, SendTyped, CloseTyped, PopTyped DEF Threads
<1>2. CASE StrandStep \/ ReadFailed \/ ToggleStall
  BY <1>2, StrandTyped
<1>3. CASE UNCHANGED vars
  BY <1>3 DEF Typed, TypeOK, RoomInBatch, vars, queueVars, threadVars
<1> QED
  BY <1>1, <1>2, <1>3 DEF Next

\* Every reachable state is well typed: in particular a batch never holds more than
\* SEND_BATCH_SIZE packets, although its room is looked at long before it is used
\* (PopBatch, DoWrite), and a write is of packets only, whatever Close has nulled.
THEOREM WellTyped == Spec => []TypeOK
<1>1. Typed => TypeOK
  BY DEF Typed
<1> QED
  BY InitTyped, NextTyped, <1>1, PTL DEF Spec

-------------------------------------------------------------------------------
(* The order of the packets.                                                    *)

\* The batch holds what stands between the last packet written and the head of the queue.
Gathered ==
  /\ batch = [i \in 1 .. Len(batch) |-> Len(written) + i - 1]
  /\ head = Len(written) + Len(batch)

\* As long as the socket is connected only the strand pops and nobody nulls the batch: the
\* packets are written, in the batch or in the queue, in this order, and nothing is in the
\* batch between two of them.
OrderOK ==
  state = "Connected" =>
    /\ WrittenInOrder
    /\ writing # <<>> => writing = batch
    /\ writing # <<>> \/ pc[Strand] \in {"peek", "take", "advance", "popped"} => Gathered
    /\ writing = <<>> /\ pc[Strand] \in {"idle", "check", "quiet", "again", "rewake"}
         => head = Len(written)
    /\ pc[Strand] \in {"take", "advance"} => item[Strand] = head

Ordered == Typed /\ OrderOK

\* No batch is filled while a write is outstanding.
LEMMA NoWriteAtWork ==
  ASSUME Writing, AtWork
  PROVE  writing = <<>>
<1>1. tasks \in Nat /\ Rights <= 1
  BY DEF Writing, Typing, OneWriter
<1> QED
  BY <1>1 DEF Rights

\* What the strand does not take part in does not matter to the order.
LEMMA OrderFrame ==
  ASSUME OrderOK, state' = "Connected" => state = "Connected",
         UNCHANGED <<written, writing, batch, head>>,
         pc'[Strand] = pc[Strand], item'[Strand] = item[Strand]
  PROVE  OrderOK'
  BY DEF OrderOK, WrittenInOrder, Gathered

LEMMA SenderOrder ==
  ASSUME Ordered, NEW p \in Senders, SendStep(p) \/ BeginClose(p)
  PROVE  OrderOK'
<1>1. /\ UNCHANGED <<state, written, writing, batch, head, item>>
      /\ \E where \in Pcs : pc' = [pc EXCEPT ![p] = where]
  BY DEF SendStep, BeginSend, Measure, Push, Wake, BeginClose, Goto, queueVars, Pcs
<1>2. pc'[Strand] = pc[Strand]
  BY <1>1 DEF Ordered, Typed, TypeOK, Threads
<1> QED
  BY <1>1, <1>2, OrderFrame DEF Ordered

\* Whoever closes the socket, or pops to empty its queue, leaves it not connected.
LEMMA CloseOrder ==
  ASSUME Ordered, NEW p \in Threads, CloseStep(p)
  PROVE  OrderOK'
<1>1. state' # "Connected"
  BY DEF Ordered, Typed, Writing, PopOK, CloseStep, CloseCas, ClearBatch, Shut, Threads
<1> QED
  BY <1>1 DEF OrderOK

LEMMA DroppingOrder ==
  ASSUME Ordered, NEW p \in Threads, PopStep(p), state = "Connected"
  PROVE  p = Strand /\ mode[p] = "batch" /\ writing = <<>> /\ state' = state
<1>1. p = Strand /\ mode[p] = "batch" /\ state' = state
  BY DEF Ordered, Typed, Writing, PopOK, PopStep, Peek, Take, Advance, Threads
<1>2. AtWork
  BY <1>1 DEF AtWork, PopStep, Peek, Take, Advance
<1> QED
  BY <1>1, <1>2, NoWriteAtWork DEF Ordered, Typed

\* The strand takes the packet at the head to the end of its batch.
LEMMA PopOrder ==
  ASSUME Ordered, NEW p \in Threads, PopStep(p)
  PROVE  OrderOK'
<1> SUFFICES ASSUME state' = "Connected" PROVE OrderOK'
  BY DEF OrderOK
<1>1. state = "Connected"
  BY DEF PopStep, Peek, Take, Advance
<1>2. p = Strand /\ mode[p] = "batch" /\ writing = <<>>
  BY <1>1, DroppingOrder
<1>3. /\ pc \in [Threads -> Pcs] /\ item \in [Threads -> Nat] /\ Strand \in Threads
      /\ Len(written) \in Nat /\ Len(batch) \in Nat /\ batch \in Seq(Nat \cup {NoTicket})
  BY LenProperties DEF Ordered, Typed, TypeOK, Threads
<1>4. CASE Peek(p)
  <2>1. /\ UNCHANGED <<state, written, writing, batch, head>>
        /\ \/ pc'[Strand] = "take" /\ item'[Strand] = head
           \/ pc'[Strand] = "popped"
    BY <1>2, <1>3, <1>4 DEF Peek, Goto, queueVars
  <2>2. Gathered /\ Gathered' /\ WrittenInOrder /\ WrittenInOrder'
    BY <1>1, <1>4, <1>2, <2>1 DEF Ordered, OrderOK, Gathered, WrittenInOrder, Peek
  <2> QED
    BY <1>2, <2>1, <2>2 DEF OrderOK
<1>5. CASE Take(p)
  <2>1. UNCHANGED <<state, written, writing, batch, head, item>> /\ pc'[Strand] = "advance"
    BY <1>2, <1>3, <1>5 DEF Take, Goto
  <2>2. /\ Gathered /\ Gathered' /\ WrittenInOrder /\ WrittenInOrder'
        /\ item[Strand] = head
    BY <1>1, <1>5, <1>2, <2>1 DEF Ordered, OrderOK, Gathered, WrittenInOrder, Take
  <2> QED
    BY <1>2, <2>1, <2>2 DEF OrderOK
<1>6. CASE Advance(p)
  <2>1. /\ UNCHANGED <<state, written, writing>> /\ pc'[Strand] = "peek"
        /\ head' = item[p] + 1 /\ batch' = Append(batch, item[p])
    BY <1>2, <1>3, <1>6 DEF Advance, Goto
  <2>2. Gathered /\ WrittenInOrder /\ WrittenInOrder' /\ item[p] = head
    BY <1>1, <1>6, <1>2, <2>1 DEF Ordered, OrderOK, WrittenInOrder, Advance
  <2>3. /\ batch' \in Seq(Nat \cup {NoTicket}) /\ Len(batch') = Len(batch) + 1
        /\ \A i \in 1 .. Len(batch) : batch'[i] = batch[i]
        /\ batch'[Len(batch) + 1] = head
    <3>1. item[p] \in Nat \cup {NoTicket}
      BY <1>3
    <3> QED
      BY <1>3, <2>1, <2>2, <3>1, AppendProperties
  <2>4. Gathered'
    <3>1. ASSUME NEW i \in 1 .. Len(batch') PROVE batch'[i] = Len(written) + i - 1
      <4>1. CASE i \in 1 .. Len(batch)
        BY <1>3, <2>2, <2>3, <4>1 DEF Gathered
      <4>2. CASE i = Len(batch) + 1
        BY <1>3, <2>2, <2>3, <4>2 DEF Gathered
      <4> QED
        BY <1>3, <2>3, <4>1, <4>2
    <3>2. DOMAIN batch' = 1 .. Len(batch')
      BY <2>3, LenProperties
    <3>3. batch' = [i \in 1 .. Len(batch') |-> Len(written') + i - 1]
      <4>1. batch' \in [1 .. Len(batch') -> Nat \cup {NoTicket}]
        BY <2>3, LenProperties
      <4> QED
        BY <2>1, <3>1, <4>1
    <3>4. head' = Len(written') + Len(batch')
      BY <1>3, <2>1, <2>2, <2>3 DEF Gathered
    <3> QED
      BY <3>3, <3>4 DEF Gathered
  <2> QED
    BY <1>2, <2>1, <2>2, <2>4 DEF OrderOK
<1> QED
  BY <1>4, <1>5, <1>6 DEF PopStep

\* The batch of a connected socket is written whole.
LEMMA StartWriteOrder ==
  ASSUME Ordered, StartWrite
  PROVE  OrderOK'
<1> SUFFICES ASSUME state' = "Connected" PROVE OrderOK'
  BY DEF OrderOK
<1>1. state = "Connected" /\ UNCHANGED <<state, written, batch, head, item>>
  BY DEF StartWrite, queueVars
<1>2. /\ Strand \in Threads /\ pc \in [Threads -> Pcs]
      /\ Len(written) \in Nat /\ Len(batch) \in Nat
      /\ head \in Nat
  BY LenProperties DEF Ordered, Typed, TypeOK, Threads
<1>3. writing = <<>>
  BY NoWriteAtWork DEF AtWork, StartWrite, Ordered, Typed
<1>4. Gathered /\ Gathered' /\ WrittenInOrder /\ WrittenInOrder'
  BY <1>1 DEF Ordered, OrderOK, StartWrite, WrittenInOrder, Gathered
<1>5. CASE batch = <<>> /\ pc'[Strand] = "quiet" /\ UNCHANGED writing
  <2>1. head' = Len(written')
    BY <1>1, <1>2, <1>4, <1>5, NoBatch DEF Gathered
  <2> QED
    BY <1>3, <1>4, <1>5, <2>1 DEF OrderOK
<1>6. CASE batch # <<>> /\ Packets(batch) = {}
  <2>1. 1 \in 1 .. Len(batch) /\ batch[1] = Len(written)
    <3>1. Len(batch) # 0
      BY <1>6, EmptySeq DEF Ordered, Typed, TypeOK
    <3> QED
      BY <1>2, <1>4, <3>1 DEF Gathered
  <2> QED
    BY <1>2, <1>6, <2>1 DEF Packets, NoTicket
<1>7. CASE writing' = Remaining(batch) /\ Packets(batch) # {} /\ pc'[Strand] = "idle"
  <2>1. batch \in Seq(Nat)
    <3>1. \A i \in 1 .. Len(batch) : Len(written) + i - 1 \in Nat
      BY <1>2
    <3>2. [i \in 1 .. Len(batch) |-> Len(written) + i - 1] \in Seq(Nat)
      BY <1>2, <3>1, IsASeq
    <3> QED
      BY <1>4, <3>2 DEF Gathered
  <2>2. writing' = batch
    BY <1>7, <2>1, RemainingAll
  <2>3. batch # <<>>
    BY <1>7 DEF Packets
  <2> QED
    BY <1>1, <1>4, <1>7, <2>2, <2>3 DEF OrderOK
<1> QED
  BY <1>2, <1>5, <1>6, <1>7 DEF StartWrite, Goto

\* What was written is in the order of the queue because what is being written continues it.
LEMMA WriteDoneOrder ==
  ASSUME Ordered, WriteDone
  PROVE  OrderOK'
<1> SUFFICES ASSUME state' = "Connected" PROVE OrderOK'
  BY DEF OrderOK
<1>1. /\ state = "Connected" /\ writing # <<>> /\ head' = head
      /\ written' = written \o writing /\ writing' = <<>>
  BY DEF WriteDone, queueVars
<1>2. /\ written \in Seq(Nat) /\ writing \in Seq(Nat)
      /\ Len(written) \in Nat /\ Len(writing) \in Nat
  BY LenProperties DEF Ordered, Typed, TypeOK
<1>3. writing = batch /\ Gathered /\ WrittenInOrder
  BY <1>1 DEF Ordered, OrderOK
<1>4. pc'[Strand] = "check"
  BY DEF WriteDone, Goto, Ordered, Typed, TypeOK, Threads
<1>5. /\ written' \in Seq(Nat) /\ Len(written') = Len(written) + Len(writing)
      /\ \A i \in 1 .. Len(written) + Len(writing) :
           written'[i] = IF i <= Len(written) THEN written[i] ELSE writing[i - Len(written)]
  BY <1>1, <1>2, ConcatProperties
<1>6. ASSUME NEW i \in 1 .. Len(written') PROVE written'[i] = i - 1
  <2>1. i \in Nat /\ i >= 1 /\ i <= Len(written) + Len(writing)
    BY <1>2, <1>5
  <2>2. CASE i <= Len(written)
    <3>1. written'[i] = written[i] /\ i \in 1 .. Len(written)
      BY <1>2, <1>5, <2>1, <2>2
    <3> QED
      BY <1>1, <1>3, <3>1 DEF WrittenInOrder
  <2>3. CASE ~(i <= Len(written))
    <3>1. written'[i] = writing[i - Len(written)] /\ i - Len(written) \in 1 .. Len(writing)
      BY <1>2, <1>5, <2>1, <2>3
    <3>2. writing[i - Len(written)] = Len(written) + (i - Len(written)) - 1
      BY <1>3, <3>1 DEF Gathered
    <3> QED
      BY <1>2, <2>1, <3>1, <3>2
  <2> QED
    BY <2>2, <2>3
<1>7. WrittenInOrder'
  <2>1. written' \in [1 .. Len(written') -> Nat]
    BY <1>5, LenProperties
  <2> QED
    BY <1>6, <2>1 DEF WrittenInOrder
<1>8. head' = Len(written')
  BY <1>1, <1>3, <1>5 DEF Gathered
<1> QED
  BY <1>1, <1>4, <1>7, <1>8 DEF OrderOK

LEMMA ProcessOrder ==
  ASSUME Ordered, Process
  PROVE  OrderOK'
<1> SUFFICES ASSUME state' = "Connected" PROVE OrderOK'
  BY DEF OrderOK
<1>1. state = "Connected" /\ UNCHANGED <<state, written, writing, head, item>>
  BY DEF Process, queueVars
<1>2. writing = <<>>
  BY NoWriteAtWork DEF AtWork, Process, Ordered, Typed
<1>3. head = Len(written) /\ WrittenInOrder /\ WrittenInOrder'
  BY <1>1, <1>2 DEF Ordered, OrderOK, Process, WrittenInOrder
<1>4. Len(written) \in Nat /\ Strand \in Threads /\ pc \in [Threads -> Pcs]
  BY LenProperties DEF Ordered, Typed, TypeOK, Threads
<1>5. CASE pc'[Strand] = "idle"
  BY <1>1, <1>2, <1>3, <1>5 DEF OrderOK
<1>6. CASE pc'[Strand] = "peek" /\ batch' = <<>>
  <2>1. Gathered'
    <3>1. Len(batch') = 0 /\ batch' = [i \in 1 .. 0 |-> Len(written') + i - 1]
      BY <1>6, NoBatch
    <3> QED
      BY <1>1, <1>3, <1>4, <3>1 DEF Gathered
  <2> QED
    BY <1>1, <1>2, <1>3, <1>6, <2>1 DEF OrderOK
<1> QED
  BY <1>1, <1>4, <1>5, <1>6 DEF Process, PopFor, Goto

LEMMA StrandOrder ==
  ASSUME Ordered, StrandStep \/ ReadFailed \/ ToggleStall
  PROVE  OrderOK'
<1>0. Strand \in Threads /\ pc \in [Threads -> Pcs] /\ OrderOK
  BY DEF Ordered, Typed, TypeOK, Threads
<1>1. CASE RunTask \/ Quiet \/ Again \/ Rewake
  <2>1. /\ UNCHANGED <<state, written, writing, batch, head, item>>
        /\ pc[Strand] \in {"idle", "quiet", "again", "rewake"}
        /\ pc'[Strand] \in {"idle", "check", "again", "rewake"}
    BY <1>0, <1>1 DEF RunTask, Quiet, Again, Rewake, Goto, queueVars
  <2> QED
    BY <1>0, <2>1 DEF OrderOK, WrittenInOrder, Gathered
<1>2. CASE EndSending \/ ReadFailed
  <2>1. /\ UNCHANGED <<state, written, writing, batch, head, item>>
        /\ pc[Strand] \in {"idle", "failed"} /\ pc'[Strand] = "cas"
    BY <1>0, <1>2 DEF EndSending, ReadFailed, Goto, queueVars
  <2> QED
    BY <1>0, <2>1 DEF OrderOK, WrittenInOrder, Gathered
<1>3. CASE WriteFailed
  <2>1. UNCHANGED <<state, written>> /\ writing' = <<>> /\ pc'[Strand] = "failed"
    BY <1>0, <1>3 DEF WriteFailed, Goto
  <2> QED
    BY <1>0, <2>1 DEF OrderOK, WrittenInOrder
<1>4. CASE Flush \/ ToggleStall
  <2>1. UNCHANGED <<state, written, writing, batch, head, pc, item>>
    BY <1>4 DEF Flush, ToggleStall, queueVars, threadVars
  <2> QED
    BY <1>0, <2>1, OrderFrame
<1>5. CASE CloseStep(Strand) \/ PopStep(Strand)
  BY <1>0, <1>5, CloseOrder, PopOrder
<1> QED
  BY <1>1, <1>2, <1>3, <1>4, <1>5, StartWriteOrder, WriteDoneOrder, ProcessOrder DEF StrandStep

LEMMA InitOrdered == Init => Ordered
<1> SUFFICES ASSUME Init PROVE OrderOK
  BY InitTyped DEF Ordered
<1>1. pc[Strand] = "idle" /\ writing = <<>> /\ written = <<>> /\ head = 0
  BY DEF Init, Threads
<1>2. Len(written) = 0 /\ written = [i \in 1 .. 0 |-> i - 1]
  BY <1>1, NoBatch
<1> QED
  BY <1>1, <1>2 DEF OrderOK, WrittenInOrder

LEMMA NextOrdered == Ordered /\ [Next]_vars => Ordered'
<1> SUFFICES ASSUME Ordered, [Next]_vars PROVE OrderOK'
  BY NextTyped DEF Ordered
<1>1. CASE \E p \in Senders : SendStep(p) \/ BeginClose(p) \/ CloseStep(p) \/ PopStep(p)
  BY <1>1, SenderOrder, CloseOrder, PopOrder DEF Threads
<1>2. CASE StrandStep \/ ReadFailed \/ ToggleStall
  BY <1>2, StrandOrder
<1>3. CASE UNCHANGED vars
  <2>1. UNCHANGED <<state, written, writing, batch, head, pc, item>>
    BY <1>3 DEF vars, queueVars, threadVars
  <2> QED
    BY <2>1, OrderFrame DEF Ordered
<1> QED
  BY <1>1, <1>2, <1>3 DEF Next

\* Whatever the batches are, whoever sends and however late the strand's store of bIsSending
\* becomes visible, the peer of a connected socket gets the packets in the order of their
\* pushes, none twice and none left out (PopBatch, DoWrite, OnWriteComplete).
THEOREM PacketsWrittenInOrder == Spec => []WrittenInOrder
<1>1. Ordered => WrittenInOrder
  BY DEF Ordered, OrderOK, WrittenInOrder
<1> QED
  BY InitOrdered, NextOrdered, <1>1, PTL DEF Spec
=============================================================================
