----------------------------- MODULE BufferOps -----------------------------
(***************************************************************************)
(* The buffers between components (llvm_sim/components/buffer.h).          *)
(*                                                                         *)
(* A buffer has a staging area, `pending', and a consumable area, `fifo',  *)
(* both written here oldest element first.  Of the number of cycles since  *)
(* the last propagation only its being positive matters: `stalled'.        *)
(***************************************************************************)
EXTENDS Naturals, Sequences

EmptyBuffer == [pending |-> << >>, fifo |-> << >>, stalled |-> FALSE]

\* Everything in the buffer, oldest first.
Contents(b) == b.fifo \o b.pending

\* Peek() != nullptr; the element is Head(b.fifo).
HasElement(b) == b.fifo # << >>

Popped(b) == [b EXCEPT !.fifo = IF @ = << >> THEN @ ELSE Tail(@)]

\* Mutants: the new elements are not counted; a stall does not keep the
\* producer from pushing.
FifoCanPushLate(b, n, capacity) == Len(b.pending) + Len(b.fifo) < capacity
LinkCanPushStalled(b, n, capacity) == n + Len(b.pending) <= capacity

\* FifoBuffer::CanPush and LinkBuffer::CanPush for n elements.
FifoCanPush(b, n, capacity) == n + Len(b.pending) + Len(b.fifo) <= capacity
LinkCanPush(b, n, capacity) == ~ b.stalled /\ n + Len(b.pending) <= capacity

\* PushMany, once CanPush has said yes.
Pushed(b, elems) == [b EXCEPT !.pending = @ \o elems]

\* BufferImpl::Propagate.  A FifoBuffer can always propagate, a LinkBuffer
\* only after its consumer has taken everything.
FifoPropagated(b) ==
  [pending |-> << >>, fifo |-> Contents(b), stalled |-> FALSE]

\* Mutant: the stall counter is not reset.
LinkPropagatedStuck(b) ==
  IF HasElement(b) THEN [b EXCEPT !.stalled = TRUE]
                   ELSE [pending |-> << >>, fifo |-> b.pending,
                         stalled |-> b.stalled]

LinkPropagated(b) ==
  IF HasElement(b) THEN [b EXCEPT !.stalled = TRUE] ELSE FifoPropagated(b)

=============================================================================
