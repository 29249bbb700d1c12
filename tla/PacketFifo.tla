------------------------------ MODULE PacketFifo ------------------------------
(***************************************************************************)
(* What an MPSC queue promises to its one consumer: the packets come out   *)
(* in the order in which their places were taken, each exactly once, and   *)
(* none before its producer has finished writing it.  A packet that is not *)
(* ready holds up the ones behind it.                                      *)
(***************************************************************************)
EXTENDS Naturals, Sequences

CONSTANTS Items,      \* the packets that may be queued
          Capacity    \* how many may wait

VARIABLES queue,      \* the places taken, oldest first: a packet, and whether it is ready
          delivered   \* the packets handed to the consumer, in order

Init == queue = <<>> /\ delivered = <<>>

TakePlace(i) ==
  /\ Len(queue) < Capacity
  /\ queue' = Append(queue, [item |-> i, ready |-> FALSE])
  /\ UNCHANGED delivered

Finish(n) ==
  /\ queue' = [queue EXCEPT ![n].ready = TRUE]
  /\ UNCHANGED delivered

Deliver ==
  /\ queue # <<>> /\ Head(queue).ready
  /\ queue' = Tail(queue)
  /\ delivered' = Append(delivered, Head(queue).item)

Next == (\E i \in Items : TakePlace(i)) \/ (\E n \in 1 .. Len(queue) : Finish(n)) \/ Deliver

Spec == Init /\ [][Next]_<<queue, delivered>>
=============================================================================
