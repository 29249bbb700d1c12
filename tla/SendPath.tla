------------------------------- MODULE SendPath -------------------------------
(***************************************************************************)
(* The send side of one CSocket: any thread may Send a packet or Close the *)
(* socket; the handlers on the strand take packets off the send queue in   *)
(* batches and write them.  bIsSending is the right to do so: whoever sets *)
(* it posts ProcessSendQueue to the strand.                                *)
(*                                                                         *)
(* A packet is named by its ticket, its place in the send queue, so the    *)
(* ring needs no slots here; MPSCQueue has what lies below a push.  One    *)
(* access to shared memory per step, except where a comment says so.       *)
(***************************************************************************)
EXTENDS Integers, Sequences, FiniteSets

CONSTANTS
  Senders,      \* the threads that call Send and Close
  Strand,       \* the socket's strand, whichever IO thread runs it
  BatchSize,    \* SEND_BATCH_SIZE
  Limit,        \* CNetworkMonitor::GetCurrentSendQueueLimit()
  StoreBuffer,  \* TRUE: the strand's release store of bIsSending may reach memory after its
                \* next load, as the memory orders in the code permit
  MaxCalls      \* bound: calls of Send and Close a thread makes

ASSUME StrandAssumption == Strand \notin Senders
ASSUME SendAssumption ==
  BatchSize \in Nat \ {0} /\ Limit \in Nat \ {0} /\ MaxCalls \in Nat /\ StoreBuffer \in BOOLEAN

VARIABLES
  state,      \* State
  sending,    \* bIsSending
  tail,       \* SendQueue: tickets given out,
  full,       \*   those whose slot flag is set,
  head,       \*   and the next to pop
  batch,      \* SendBatch up to CurrentBatchSize; NoTicket is a nulled entry
  writing,    \* the packets of the outstanding async_write; none when empty
  tasks,      \* ProcessSendQueue tasks posted to the strand and not run yet
  pc,         \* where each thread is
  mode,       \* why it pops: "batch", "drop" or "close"
  item,       \* the head it has loaded in Pop
  buffered,   \* the strand has stored bIsSending = false, but not to memory yet
  stall,      \* g_bNetworkStallTest: "off", "on", or "over" when it has been on
  calls,      \* calls a sender has begun
  written,    \* history: the packets the peer was sent, in order
  released    \* history: the packets given back to the buffer pool

queueVars  == <<tail, full, head>>
threadVars == <<pc, mode, item, calls>>
vars == <<state, sending, queueVars, batch, writing, tasks, threadVars, buffered, stall, written, released>>

Threads  == Senders \cup {Strand}
NoTicket == -1
Tickets  == 0 .. tail - 1
Pcs == {"idle", "measure", "push", "wake",
        "check", "peek", "take", "advance", "popped", "quiet", "again", "rewake", "failed",
        "cas", "clear", "shut"}

Packets(s) == {s[i] : i \in 1 .. Len(s)} \ {NoTicket}

\* Type correctness.
TypeOK ==
  /\ state \in {"Connected", "Closing", "Closed"}
  /\ sending \in BOOLEAN
  /\ tail \in Nat /\ head \in Nat /\ full \subseteq Nat
  /\ batch \in Seq(Nat \cup {NoTicket}) /\ Len(batch) <= BatchSize
  /\ writing \in Seq(Nat)
  /\ tasks \in Nat
  /\ pc \in [Threads -> Pcs]
  /\ mode \in [Threads -> {"batch", "drop", "close"}]
  /\ item \in [Threads -> Nat]
  /\ buffered \in BOOLEAN
  /\ stall \in {"off", "on", "over"}
  /\ calls \in [Senders -> 0 .. MaxCalls]
  /\ written \in Seq(Nat)
  /\ released \subseteq Nat

Init ==
  /\ state = "Connected" /\ sending = FALSE
  /\ tail = 0 /\ head = 0 /\ full = {}
  /\ batch = <<>> /\ writing = <<>> /\ tasks = 0
  /\ pc = [p \in Threads |-> "idle"]
  /\ mode = [p \in Threads |-> "drop"]
  /\ item = [p \in Threads |-> 0]
  /\ buffered = FALSE /\ stall = "off"
  /\ calls = [p \in Senders |-> 0]
  /\ written = <<>> /\ released = {}

Goto(p, where) == pc' = [pc EXCEPT ![p] = where]

\* Enter the loop that pops until the queue is empty (or, for a batch, the batch is full).
PopFor(p, why) == pc' = [pc EXCEPT ![p] = "peek"] /\ mode' = [mode EXCEPT ![p] = why]

-------------------------------------------------------------------------------
(* Thread p calls CSocket::Send.                                            *)

\* IsConnected: the packet of a call on a dead socket goes back to the pool at once.
BeginSend(p) ==
  /\ pc[p] = "idle" /\ calls[p] < MaxCalls
  /\ calls' = [calls EXCEPT ![p] = @ + 1]
  /\ Goto(p, IF state = "Connected" THEN "measure" ELSE "idle")
  /\ UNCHANGED <<state, sending, queueVars, batch, writing, tasks, mode, item, buffered, stall,
                 written, released>>

\* ApproximateSize against the limit: at the limit the sender closes the socket.
Measure(p) ==
  /\ pc[p] = "measure"
  /\ Goto(p, IF tail - head >= Limit THEN "cas" ELSE "push")
  /\ UNCHANGED <<state, sending, queueVars, batch, writing, tasks, mode, item, calls, buffered,
                 stall, written, released>>

\* SendQueue.Push, which does not fail (MPSCQueue!NeverFull).
Push(p) ==
  /\ pc[p] = "push"
  /\ tail' = tail + 1
  /\ full' = full \cup {tail}
  /\ Goto(p, "wake")
  /\ UNCHANGED <<state, sending, head, batch, writing, tasks, mode, item, calls, buffered, stall,
                 written, released>>

\* If nobody is sending, take the right to and post ProcessSendQueue.  Mutant: the task is
\* posted in any case.
WakeAlways(p) ==
  /\ pc[p] = "wake"
  /\ sending' = TRUE
  /\ tasks' = tasks + 1
  /\ Goto(p, "idle")
  /\ UNCHANGED <<state, queueVars, batch, writing, mode, item, calls, buffered, stall, written, released>>

Wake(p) ==
  /\ pc[p] = "wake"
  /\ sending' = TRUE
  /\ tasks' = IF sending THEN tasks ELSE tasks + 1
  /\ Goto(p, "idle")
  /\ UNCHANGED <<state, queueVars, batch, writing, mode, item, calls, buffered, stall, written, released>>

-------------------------------------------------------------------------------
(* CSocket::Close by thread p, which may be the strand.                     *)

\* Another component closes the socket (FindSessionByUsn, a reconnection).
BeginClose(p) ==
  /\ pc[p] = "idle" /\ calls[p] < MaxCalls
  /\ calls' = [calls EXCEPT ![p] = @ + 1]
  /\ Goto(p, "cas")
  /\ UNCHANGED <<state, sending, queueVars, batch, writing, tasks, mode, item, buffered, stall,
                 written, released>>

\* Only one call gets past the compare-and-swap.
CloseCas(p) ==
  /\ pc[p] = "cas"
  /\ state' = IF state = "Connected" THEN "Closing" ELSE state
  /\ Goto(p, IF state = "Connected" THEN "clear" ELSE "idle")
  /\ UNCHANGED <<sending, queueVars, batch, writing, tasks, mode, item, calls, buffered, stall,
                 written, released>>

\* Give back what SendBatch holds (the whole loop in one step), then empty the queue.
ClearBatch(p) ==
  /\ pc[p] = "clear"
  /\ released' = released \cup Packets(batch)
  /\ batch' = [i \in 1 .. Len(batch) |-> NoTicket]
  /\ PopFor(p, "close")
  /\ UNCHANGED <<state, sending, queueVars, writing, tasks, item, calls, buffered, stall, written>>

\* Close the asio socket.
Shut(p) ==
  /\ pc[p] = "shut"
  /\ state' = "Closed"
  /\ Goto(p, "idle")
  /\ UNCHANGED <<sending, queueVars, batch, writing, tasks, mode, item, calls, buffered, stall,
                 written, released>>

-------------------------------------------------------------------------------
(* Popping: Pop, and each turn of PopBatch.                                 *)

\* Load the head and look at its slot; an empty one, or a full batch, ends the loop.
\* Mutant: the batch is bounded by nothing.
PeekUnbounded(p) ==
  /\ pc[p] = "peek"
  /\ IF head \in full
     THEN item' = [item EXCEPT ![p] = head] /\ Goto(p, "take")
     ELSE /\ UNCHANGED item
          /\ Goto(p, CASE mode[p] = "batch" -> "popped"
                       [] mode[p] = "drop"  -> "quiet"
                       [] mode[p] = "close" -> "shut")
  /\ UNCHANGED <<state, sending, queueVars, batch, writing, tasks, mode, calls, buffered, stall,
                 written, released>>

Peek(p) ==
  /\ pc[p] = "peek"
  /\ IF head \in full /\ (mode[p] = "batch" => Len(batch) < BatchSize)
     THEN item' = [item EXCEPT ![p] = head] /\ Goto(p, "take")
     ELSE /\ UNCHANGED item
          /\ Goto(p, CASE mode[p] = "batch" -> "popped"
                       [] mode[p] = "drop"  -> "quiet"
                       [] mode[p] = "close" -> "shut")
  /\ UNCHANGED <<state, sending, queueVars, batch, writing, tasks, mode, calls, buffered, stall,
                 written, released>>

\* Clear the slot.
Take(p) ==
  /\ pc[p] = "take"
  /\ full' = full \ {item[p]}
  /\ Goto(p, "advance")
  /\ UNCHANGED <<state, sending, tail, head, batch, writing, tasks, mode, item, calls, buffered,
                 stall, written, released>>

\* Store the head.  The packet joins the batch or goes back to the pool.  Mutant: the batch
\* is filled from its end.
AdvanceBackwards(p) ==
  /\ pc[p] = "advance"
  /\ head' = item[p] + 1
  /\ IF mode[p] = "batch"
     THEN batch' = <<item[p]>> \o batch /\ UNCHANGED released
     ELSE released' = released \cup {item[p]} /\ UNCHANGED batch
  /\ Goto(p, "peek")
  /\ UNCHANGED <<state, sending, tail, full, writing, tasks, mode, item, calls, buffered, stall, written>>

Advance(p) ==
  /\ pc[p] = "advance"
  /\ head' = item[p] + 1
  /\ IF mode[p] = "batch"
     THEN batch' = Append(batch, item[p]) /\ UNCHANGED released
     ELSE released' = released \cup {item[p]} /\ UNCHANGED batch
  /\ Goto(p, "peek")
  /\ UNCHANGED <<state, sending, tail, full, writing, tasks, mode, item, calls, buffered, stall, written>>

-------------------------------------------------------------------------------
(* The handlers on the strand, one at a time.                               *)

RunTask ==
  /\ pc[Strand] = "idle" /\ ~buffered /\ tasks > 0
  /\ tasks' = tasks - 1
  /\ Goto(Strand, "check")
  /\ UNCHANGED <<state, sending, queueVars, batch, writing, mode, item, calls, buffered, stall,
                 written, released>>

\* ProcessSendQueue: empty the queue of a dead socket, else fill a batch.  During the stall
\* test it returns and keeps bIsSending.
Process ==
  /\ pc[Strand] = "check"
  /\ \/ state # "Connected" /\ PopFor(Strand, "drop") /\ UNCHANGED batch
     \/ state = "Connected" /\ stall = "on" /\ Goto(Strand, "idle") /\ UNCHANGED <<mode, batch>>
     \/ state = "Connected" /\ stall # "on" /\ PopFor(Strand, "batch") /\ batch' = <<>>
  /\ UNCHANGED <<state, sending, queueVars, writing, tasks, item, calls, buffered, stall, written,
                 released>>

\* The gathering loop of DoWrite: the entries of a batch that are not nulled, in their order.
\* (SelectSeq, without its recursion.)
Remaining(b) ==
  LET kept   == {i \in DOMAIN b : b[i] # NoTicket}
      nth(n) == CHOOSE i \in kept : Cardinality({h \in kept : h <= i}) = n
  IN  [n \in 1 .. Cardinality(kept) |-> b[nth(n)]]

\* DoWrite: write the packets of the batch that are still there; if Close has taken them
\* all, look at the queue again; no batch at all ends the sending.  (Taking the pointers
\* and starting the write are one step.)
StartWrite ==
  /\ pc[Strand] = "popped"
  /\ \/ /\ batch = <<>> /\ Goto(Strand, "quiet") /\ UNCHANGED writing
     \/ /\ batch # <<>> /\ Packets(batch) = {} /\ Goto(Strand, "check") /\ UNCHANGED writing
     \/ /\ Packets(batch) # {}
        /\ writing' = Remaining(batch)
        /\ Goto(Strand, "idle")
  /\ UNCHANGED <<state, sending, queueVars, batch, tasks, mode, item, calls, buffered, stall,
                 written, released>>

\* bIsSending.store(false).  Mutant: without the second look that follows it.
QuietAtOnce ==
  /\ pc[Strand] = "quiet"
  /\ buffered' = TRUE
  /\ Goto(Strand, "idle")
  /\ UNCHANGED <<state, sending, queueVars, batch, writing, tasks, mode, item, calls, stall, written,
                 released>>

Quiet ==
  /\ pc[Strand] = "quiet"
  /\ buffered' = TRUE
  /\ Goto(Strand, IF mode[Strand] = "batch" THEN "again" ELSE "idle")
  /\ UNCHANGED <<state, sending, queueVars, batch, writing, tasks, mode, item, calls, stall, written,
                 released>>

\* The store reaches memory, at the latest before the strand's next locked instruction.
Flush ==
  /\ buffered
  /\ buffered' = FALSE
  /\ sending' = FALSE
  /\ UNCHANGED <<state, queueVars, batch, writing, tasks, threadVars, stall, written, released>>

\* SendQueue.IsEmpty.
Again ==
  /\ pc[Strand] = "again" /\ (StoreBuffer \/ ~buffered)
  /\ Goto(Strand, IF head \in full THEN "rewake" ELSE "idle")
  /\ UNCHANGED <<state, sending, queueVars, batch, writing, tasks, mode, item, calls, buffered,
                 stall, written, released>>

\* Packets have come meanwhile: take the right to send back unless a sender has it.
Rewake ==
  /\ pc[Strand] = "rewake" /\ ~buffered
  /\ sending' = TRUE
  /\ tasks' = IF sending THEN tasks ELSE tasks + 1
  /\ Goto(Strand, "idle")
  /\ UNCHANGED <<state, queueVars, batch, writing, mode, item, calls, buffered, stall, written, released>>

\* OnWriteComplete: the batch goes back to the pool (the whole loop in one step), and on to
\* the next one.
WriteDone ==
  /\ pc[Strand] = "idle" /\ ~buffered /\ writing # <<>>
  /\ written' = written \o writing
  /\ writing' = <<>>
  /\ released' = released \cup Packets(batch)
  /\ batch' = <<>>
  /\ Goto(Strand, "check")
  /\ UNCHANGED <<state, sending, queueVars, tasks, mode, item, calls, buffered, stall>>

\* OnWriteComplete with an error, because the peer is gone or the socket was closed.
WriteFailed ==
  /\ pc[Strand] = "idle" /\ ~buffered /\ writing # <<>>
  /\ writing' = <<>>
  /\ released' = released \cup Packets(batch)
  /\ batch' = [i \in 1 .. Len(batch) |-> NoTicket]
  /\ Goto(Strand, "failed")
  /\ UNCHANGED <<state, sending, queueVars, tasks, mode, item, calls, buffered, stall, written>>

\* It gives up the right to send, and HandleDisconnect closes the socket.
EndSending ==
  /\ pc[Strand] = "failed"
  /\ sending' = FALSE
  /\ Goto(Strand, "cas")
  /\ UNCHANGED <<state, queueVars, batch, writing, tasks, mode, item, calls, buffered, stall,
                 written, released>>

\* OnReadComplete with an error.
ReadFailed ==
  /\ pc[Strand] = "idle" /\ ~buffered /\ state = "Connected"
  /\ Goto(Strand, "cas")
  /\ UNCHANGED <<state, sending, queueVars, batch, writing, tasks, mode, item, calls, buffered,
                 stall, written, released>>

\* CheckNetworkStallTest: the operator begins the stall test and ends it.
ToggleStall ==
  /\ \/ stall = "off" /\ stall' = "on"
     \/ stall = "on" /\ stall' = "over"
  /\ UNCHANGED <<state, sending, queueVars, batch, writing, tasks, threadVars, buffered, written,
                 released>>

-------------------------------------------------------------------------------
SendStep(p) == BeginSend(p) \/ Measure(p) \/ Push(p) \/ Wake(p)
CloseStep(p) == CloseCas(p) \/ ClearBatch(p) \/ Shut(p)
PopStep(p) == Peek(p) \/ Take(p) \/ Advance(p)
StrandStep ==
  \/ RunTask \/ Process \/ StartWrite \/ Quiet \/ Flush \/ Again \/ Rewake
  \/ WriteDone \/ WriteFailed \/ EndSending \/ CloseStep(Strand) \/ PopStep(Strand)

Next ==
  \/ \E p \in Senders : SendStep(p) \/ BeginClose(p) \/ CloseStep(p) \/ PopStep(p)
  \/ StrandStep \/ ReadFailed \/ ToggleStall

Spec == Init /\ [][Next]_vars

\* The IO threads run what is ready on the strand, and a write that is outstanding ends
\* some day (the peer reads, or the connection breaks).  A thread inside Close or Push goes
\* on.  Nobody has to begin a call, and the peer need not go away.
FairSpec ==
  /\ Spec
  /\ WF_vars(StrandStep)
  /\ \A p \in Senders : WF_vars(Measure(p) \/ Push(p) \/ Wake(p) \/ CloseStep(p) \/ PopStep(p))

-------------------------------------------------------------------------------
(* Properties.                                                              *)

\* The work that only the holder of bIsSending does: a posted ProcessSendQueue, the strand
\* in it, or an outstanding write.
AtWork == pc[Strand] \in {"check", "popped", "quiet", "failed"}
          \/ (pc[Strand] \in {"peek", "take", "advance"} /\ mode[Strand] # "close")
Rights == tasks + (IF AtWork THEN 1 ELSE 0) + (IF writing # <<>> THEN 1 ELSE 0)

\* There is never more than one write outstanding on a socket, nor a batch being filled
\* while one is: at most one task, handler or write has the right to send, and bIsSending
\* is set as long as one has (Send, ProcessSendQueue, OnWriteComplete).
OneWriter == Rights <= 1 /\ (Rights = 1 => sending /\ ~buffered)

\* When a packet waits in the send queue of a connected socket and nobody has the right to
\* send, then somebody is about to take it or to close the socket: the sender that pushed
\* it, or the strand, which looks at the queue once more after it gave up the right (Send,
\* ProcessSendQueue).
PacketAttended ==
  head \in full /\ state = "Connected" /\ ~sending =>
    \/ \E p \in Senders : pc[p] = "wake"
    \/ pc[Strand] \in {"again", "rewake", "cas"}

\* As long as the socket is connected the peer is sent the packets in the order of their
\* pushes, each once and none left out, whatever the batches are.
WrittenInOrder ==
  state = "Connected" => written = [i \in 1 .. Len(written) |-> i - 1]

\* A packet in the send queue of a connected socket is written, or the socket is closed:
\* no packet is pushed just when the strand gives up bIsSending and then forgotten.  The
\* stall test excepted.
EveryPacketIsWritten ==
  \A k \in 0 .. MaxCalls * Cardinality(Senders) - 1 :
    (k \in full /\ state = "Connected" /\ stall = "off")
      ~> (k \in Packets(written) \/ state # "Connected" \/ stall # "off")
=============================================================================
