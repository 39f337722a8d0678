---------------------------- MODULE StagedBuffer ----------------------------
(***************************************************************************)
(* One FifoBuffer or LinkBuffer between a producer and a consumer.         *)
(*                                                                         *)
(* The simulator ticks the components at both ends once per cycle, in any  *)
(* order, and then propagates the buffer.  In its tick the producer pushes *)
(* batches, in the decoder's case of several elements, until one is        *)
(* refused, and the consumer takes as many elements as it likes.           *)
(* Elements are numbered in the order in which they are pushed.            *)
(***************************************************************************)
EXTENDS BufferOps

CONSTANTS
  Capacity,     \* Capacity_
  MaxBatch,     \* bound: the largest batch that the producer pushes
  MaxElements   \* bound: how many elements are pushed

ASSUME BufferAssumption ==
  /\ Capacity \in Nat \ {0}
  /\ MaxBatch \in Nat
  /\ MaxElements \in Nat

VARIABLES
  kind,          \* its class: "fifo" or "link"
  buf,           \* the buffer
  numSent,       \* how many elements were pushed
  numReceived,   \* how many elements were popped
  starts         \* history: numSent at the start of each cycle

bufferVars == <<kind, buf, numSent, numReceived, starts>>

CanPush(n) == IF kind = "fifo" THEN FifoCanPush(buf, n, Capacity)
                               ELSE LinkCanPush(buf, n, Capacity)

Propagated == IF kind = "fifo" THEN FifoPropagated(buf)
                               ELSE LinkPropagated(buf)

BufferInit ==
  /\ kind \in {"fifo", "link"}
  /\ buf = EmptyBuffer
  /\ numSent = 0 /\ numReceived = 0
  /\ starts = {0}

PushMany(n) ==
  /\ numSent + n <= MaxElements
  /\ CanPush(n)
  /\ buf' = Pushed(buf, [k \in 1 .. n |-> numSent + k])
  /\ numSent' = numSent + n
  /\ UNCHANGED <<kind, numReceived, starts>>

\* Components only pop what they have peeked at.
Pop ==
  /\ HasElement(buf)
  /\ buf' = Popped(buf)
  /\ numReceived' = numReceived + 1
  /\ UNCHANGED <<kind, numSent, starts>>

Propagate ==
  /\ buf' = Propagated
  /\ starts' = starts \cup {numSent}
  /\ UNCHANGED <<kind, numSent, numReceived>>

BufferNext == (\E n \in 1 .. MaxBatch : PushMany(n)) \/ Pop \/ Propagate

\* Every cycle ends, and a component takes what it finds unless a sink of its
\* own refuses it, which cannot go on for ever in a pipeline that drains.
BufferFairness == WF_bufferVars(Propagate) /\ WF_bufferVars(Pop)

-----------------------------------------------------------------------------
(* Properties.                                                             *)

\* "The source component will stall if the second has not consumed all the
\* elements that the former pushed in the previous cycle" (buffer.h): what the
\* consumer of a link finds was pushed in one cycle, and so was what waits
\* behind it.  Batches of two cycles never merge, however long the stall.
OneCycleAtATime ==
  kind = "link" =>
    /\ \A k \in 1 .. Len(buf.fifo) - 1 : buf.fifo[k] \notin starts
    /\ \A k \in 1 .. Len(buf.pending) - 1 : buf.pending[k] \notin starts

\* A link that stalls recovers once its consumer has drained it, and what was
\* pushed arrives.
StallsEndAndAllArrive ==
  /\ buf.stalled ~> ~ buf.stalled
  /\ \A n \in 1 .. MaxElements : (numSent >= n) ~> (numReceived >= n)

\* The buffer is a FIFO channel of its capacity.  A link holds up to one batch
\* of Capacity elements in each of its areas.
Chan == INSTANCE Channel
  WITH inTransit <- Contents(buf),
       bound <- IF kind = "fifo" THEN Capacity ELSE 2 * Capacity

ImplementsChannel == Chan!Spec

=============================================================================
