--------------------------- MODULE SimulationProofs ---------------------------
(***************************************************************************)
(* Proofs about the parts of the simulator that MC_Simulation checks: a    *)
(* buffer of any capacity between any producer and consumer, the register  *)
(* renamer for any instructions, the cache of decompositions, and the      *)
(* analyses of a log of any length.                                        *)
(***************************************************************************)
EXTENDS SimulationContext, RegisterRenamer, StagedBuffer, SimulationAnalysis, TLAPS,
        SequenceTheorems, FiniteSetTheorems, WellFoundedInduction

BufferSpec == BufferInit /\ [][BufferNext]_bufferVars

-----------------------------------------------------------------------------
(* The buffer.  Elements are their numbers: the two areas hold, one after  *)
(* the other, the numbers from numReceived + 1 to numSent.                 *)

\* The elements of s are the numbers that follow first.
Numbered(s, first) == \A k \in 1 .. Len(s) : s[k] = first + k

\* No cycle started within the n numbers that follow first.
OfOneCycle(first, n) == \A i \in first + 1 .. first + n - 1 : i \notin starts

BufferTypeOK ==
  /\ kind \in {"fifo", "link"}
  /\ buf \in [pending : Seq(Nat), fifo : Seq(Nat), stalled : BOOLEAN]
  /\ numSent \in Nat /\ numReceived \in Nat
  /\ starts \in SUBSET (0 .. numSent)

NumberedInOrder ==
  /\ numReceived + Len(buf.fifo) + Len(buf.pending) = numSent
  /\ Numbered(buf.fifo, numReceived)
  /\ Numbered(buf.pending, numReceived + Len(buf.fifo))

WithinCapacity ==
  IF kind = "fifo" THEN Len(buf.fifo) + Len(buf.pending) <= Capacity
                   ELSE Len(buf.fifo) <= Capacity /\ Len(buf.pending) <= Capacity

\* A link only takes more elements in the cycle in which it took the first of
\* those that are pending: a cycle that ends before it propagates stalls it.
StalledBatchIsClosed ==
  kind = "link" /\ Len(buf.pending) # 0 /\ ~ buf.stalled => numSent \notin starts

AreasOfOneCycle ==
  kind = "link" => /\ OfOneCycle(numReceived, Len(buf.fifo))
                   /\ OfOneCycle(numReceived + Len(buf.fifo), Len(buf.pending))

BufferInv ==
  /\ BufferTypeOK
  /\ NumberedInOrder
  /\ WithinCapacity
  /\ StalledBatchIsClosed
  /\ AreasOfOneCycle

-----------------------------------------------------------------------------
(* Numbered sequences.                                                     *)

LEMMA JoinedInAnyOrder ==
  ASSUME NEW s, NEW t, NEW u, s \in Seq(Nat), t \in Seq(Nat), u \in Seq(Nat)
  PROVE  (s \o t) \o u = s \o (t \o u)
BY ConcatAssociative, SMTT(30)

LEMMA NumberedConcat ==
  ASSUME NEW s \in Seq(Nat), NEW t \in Seq(Nat), NEW first \in Nat,
         Numbered(s, first), Numbered(t, first + Len(s))
  PROVE  /\ s \o t \in Seq(Nat)
         /\ Len(s \o t) = Len(s) + Len(t)
         /\ Numbered(s \o t, first)
<1>1. /\ s \o t \in Seq(Nat)
      /\ Len(s \o t) = Len(s) + Len(t)
      /\ Len(s) \in Nat /\ Len(t) \in Nat
      /\ \A k \in 1 .. Len(s) + Len(t) : (s \o t)[k] =
           IF k <= Len(s) THEN s[k] ELSE t[k - Len(s)]
  BY ConcatProperties, LenProperties
<1>2. ASSUME NEW k \in 1 .. Len(s) + Len(t)
      PROVE  (s \o t)[k] = first + k
  <2>1. CASE k <= Len(s)
    BY <2>1, <1>1 DEF Numbered
  <2>2. CASE k > Len(s)
    <3>1. k - Len(s) \in 1 .. Len(t)
      BY <2>2, <1>1
    <3>2. t[k - Len(s)] = first + Len(s) + (k - Len(s))
      BY <3>1 DEF Numbered
    <3> QED BY <3>2, <2>2, <1>1
  <2> QED BY <2>1, <2>2, <1>1
<1> QED BY <1>1, <1>2 DEF Numbered

LEMMA NumberedTail ==
  ASSUME NEW s \in Seq(Nat), s # << >>, NEW first \in Nat, Numbered(s, first)
  PROVE  /\ Tail(s) \in Seq(Nat)
         /\ Len(Tail(s)) = Len(s) - 1
         /\ Len(s) \in Nat \ {0}
         /\ Numbered(Tail(s), first + 1)
         /\ Head(s) = first + 1
<1>1. Len(s) \in Nat \ {0}
  BY EmptySeq, LenProperties
<1>2. /\ Tail(s) \in Seq(Nat)
      /\ Len(Tail(s)) = Len(s) - 1
      /\ \A k \in 1 .. Len(s) - 1 : Tail(s)[k] = s[k + 1]
  BY <1>1, HeadTailProperties
<1>3. \A k \in 1 .. Len(s) - 1 : k + 1 \in 1 .. Len(s)
  BY <1>1
<1>4. \A k \in 1 .. Len(s) - 1 : Tail(s)[k] = (first + 1) + k
  BY <1>1, <1>2, <1>3 DEF Numbered
<1>5. Head(s) = first + 1
  BY <1>1 DEF Numbered
<1> QED BY <1>1, <1>2, <1>4, <1>5 DEF Numbered

LEMMA NumberedBatch ==
  ASSUME NEW n \in Nat, NEW first \in Nat
  PROVE  /\ [k \in 1 .. n |-> first + k] \in Seq(Nat)
         /\ Len([k \in 1 .. n |-> first + k]) = n
         /\ Numbered([k \in 1 .. n |-> first + k], first)
BY DEF Numbered

\* The number of an element identifies it.
LEMMA OfOneCycleElements ==
  ASSUME NEW s \in Seq(Nat), NEW first \in Nat, Numbered(s, first),
         OfOneCycle(first, Len(s)), NEW k \in 1 .. Len(s) - 1
  PROVE  s[k] \notin starts
<1>1. Len(s) \in Nat
  BY LenProperties
<1>2. s[k] = first + k /\ first + k \in first + 1 .. first + Len(s) - 1
  BY <1>1 DEF Numbered
<1> QED BY <1>2 DEF OfOneCycle

LEMMA BufferFacts ==
  ASSUME BufferInv
  PROVE  /\ buf.fifo \in Seq(Nat) /\ buf.pending \in Seq(Nat)
         /\ Len(buf.fifo) \in Nat /\ Len(buf.pending) \in Nat
         /\ numSent \in Nat /\ numReceived \in Nat
         /\ starts \in SUBSET (0 .. numSent)
         /\ kind \in {"fifo", "link"}
         /\ buf.stalled \in BOOLEAN
         /\ buf = [pending |-> buf.pending, fifo |-> buf.fifo, stalled |-> buf.stalled]
         /\ Numbered(buf.fifo, numReceived)
         /\ Numbered(buf.pending, numReceived + Len(buf.fifo))
         /\ numReceived + Len(buf.fifo) + Len(buf.pending) = numSent
<1>1. /\ buf.fifo \in Seq(Nat) /\ buf.pending \in Seq(Nat)
      /\ buf.stalled \in BOOLEAN
      /\ buf = [pending |-> buf.pending, fifo |-> buf.fifo, stalled |-> buf.stalled]
  BY DEF BufferInv, BufferTypeOK
<1> QED BY <1>1, LenProperties DEF BufferInv, BufferTypeOK, NumberedInOrder

\* A buffer that holds the two sequences p and f satisfies the invariant when
\* their numbers and lengths do.
LEMMA BufferInvOf ==
  ASSUME NEW p \in Seq(Nat), NEW f \in Seq(Nat), NEW st \in BOOLEAN,
         buf' = [pending |-> p, fifo |-> f, stalled |-> st],
         kind' \in {"fifo", "link"}, numSent' \in Nat, numReceived' \in Nat,
         starts' \in SUBSET (0 .. numSent'),
         numReceived' + Len(f) + Len(p) = numSent',
         Numbered(f, numReceived'), Numbered(p, numReceived' + Len(f)),
         IF kind' = "fifo" THEN Len(f) + Len(p) <= Capacity
                           ELSE Len(f) <= Capacity /\ Len(p) <= Capacity,
         kind' = "link" /\ Len(p) # 0 /\ ~ st => numSent' \notin starts',
         kind' = "link" => /\ OfOneCycle(numReceived, Len(f))'
                           /\ OfOneCycle(numReceived + Len(f), Len(p))'
  PROVE  BufferInv'
<1>1. buf'.pending = p /\ buf'.fifo = f /\ buf'.stalled = st
  OBVIOUS
<1>2. buf' \in [pending : Seq(Nat), fifo : Seq(Nat), stalled : BOOLEAN]
  OBVIOUS
<1>3. BufferTypeOK'
  BY <1>2 DEF BufferTypeOK
<1>4. NumberedInOrder' /\ WithinCapacity' /\ StalledBatchIsClosed'
  BY <1>1 DEF NumberedInOrder, WithinCapacity, StalledBatchIsClosed
<1>5. AreasOfOneCycle'
  BY <1>1 DEF AreasOfOneCycle, OfOneCycle
<1> QED BY <1>3, <1>4, <1>5 DEF BufferInv

-----------------------------------------------------------------------------
(* The steps of the buffer.                                                *)

LEMMA BufferInitInv == BufferInit => BufferInv
<1> SUFFICES ASSUME BufferInit PROVE BufferInv
  OBVIOUS
<1>1. /\ buf.fifo = << >> /\ buf.pending = << >> /\ buf.stalled = FALSE
      /\ buf \in [pending : Seq(Nat), fifo : Seq(Nat), stalled : BOOLEAN]
      /\ kind \in {"fifo", "link"} /\ numSent = 0 /\ numReceived = 0 /\ starts = {0}
  BY DEF BufferInit, EmptyBuffer
<1>2. Len(buf.fifo) = 0 /\ Len(buf.pending) = 0
  BY <1>1
<1> QED BY <1>1, <1>2, BufferAssumption
        DEF BufferInv, BufferTypeOK, NumberedInOrder, WithinCapacity, Numbered,
            StalledBatchIsClosed, AreasOfOneCycle, OfOneCycle

LEMMA PushManyKeeps ==
  ASSUME BufferInv, NEW n \in 1 .. MaxBatch, PushMany(n)
  PROVE  BufferInv'
<1>1. PICK f \in Seq(Nat), p \in Seq(Nat), st \in BOOLEAN :
        /\ f = buf.fifo /\ p = buf.pending /\ st = buf.stalled
        /\ buf = [pending |-> p, fifo |-> f, stalled |-> st]
  BY BufferFacts
<1>2. /\ Len(f) \in Nat /\ Len(p) \in Nat /\ n \in Nat \ {0}
      /\ numSent \in Nat /\ numReceived \in Nat /\ starts \in SUBSET (0 .. numSent)
      /\ kind \in {"fifo", "link"}
      /\ Numbered(f, numReceived) /\ Numbered(p, numReceived + Len(f))
      /\ numReceived + Len(f) + Len(p) = numSent
  BY <1>1, BufferFacts, BufferAssumption
<1>3. PICK batch : batch = [k \in 1 .. n |-> numSent + k]
  OBVIOUS
<1>4. /\ buf' = [buf EXCEPT !.pending = @ \o batch]
      /\ numSent' = numSent + n
      /\ kind' = kind /\ numReceived' = numReceived /\ starts' = starts
      /\ CanPush(n)
  BY <1>3 DEF PushMany, Pushed
<1>5. batch \in Seq(Nat) /\ Len(batch) = n /\ Numbered(batch, numSent)
  BY <1>2, <1>3, NumberedBatch
<1>6. buf' = [pending |-> p \o batch, fifo |-> f, stalled |-> st]
  BY <1>1, <1>4
<1>7. /\ p \o batch \in Seq(Nat) /\ Len(p \o batch) = Len(p) + n
      /\ Numbered(p \o batch, numReceived + Len(f))
  <2>1. PICK first \in Nat : first = numReceived + Len(f)
    BY <1>2
  <2>2. Numbered(p, first) /\ Numbered(batch, first + Len(p))
    BY <2>1, <1>2, <1>5
  <2> QED BY <2>1, <2>2, <1>5, NumberedConcat
<1>8. IF kind' = "fifo" THEN Len(f) + Len(p \o batch) <= Capacity
                        ELSE Len(f) <= Capacity /\ Len(p \o batch) <= Capacity
  <2>1. IF kind = "fifo" THEN Len(f) + Len(p) <= Capacity
                         ELSE Len(f) <= Capacity /\ Len(p) <= Capacity
    BY <1>1 DEF BufferInv, WithinCapacity
  <2>2. IF kind = "fifo" THEN n + Len(p) + Len(f) <= Capacity
                         ELSE n + Len(p) <= Capacity
    BY <1>1, <1>4 DEF CanPush, FifoCanPush, LinkCanPush
  <2>3. Len(p \o batch) = Len(p) + n /\ kind' = kind
    BY <1>4, <1>7
  <2>4. Len(f) \in Nat /\ Len(p) \in Nat /\ n \in Nat /\ Capacity \in Nat
    BY <1>2, BufferAssumption
  <2>5. CASE kind = "fifo"
    BY <2>2, <2>3, <2>4, <2>5
  <2>6. CASE kind # "fifo"
    BY <2>1, <2>2, <2>3, <2>4, <2>6
  <2> QED BY <2>5, <2>6
<1>9. numSent' \in Nat /\ numSent' > numSent /\ starts' \in SUBSET (0 .. numSent')
  BY <1>2, <1>4
<1>10. numSent' \notin starts'
  BY <1>2, <1>4, <1>9
<1>11. ASSUME kind' = "link"
       PROVE  /\ OfOneCycle(numReceived, Len(f))'
              /\ OfOneCycle(numReceived + Len(f), Len(p \o batch))'
  <2>1. ~ st
    BY <1>1, <1>4, <1>11 DEF CanPush, LinkCanPush
  <2>2. /\ OfOneCycle(numReceived, Len(f)) /\ OfOneCycle(numReceived + Len(f), Len(p))
        /\ Len(p) # 0 => numSent \notin starts
    BY <1>1, <1>4, <1>11, <2>1 DEF BufferInv, AreasOfOneCycle, StalledBatchIsClosed
  <2>3. ASSUME NEW i \in numReceived + Len(f) + 1 .. numReceived + Len(f) + (Len(p) + n) - 1
        PROVE  i \notin starts
    <3>1. CASE i < numSent
      BY <3>1, <1>2, <2>2 DEF OfOneCycle
    <3>2. CASE i = numSent
      BY <3>2, <1>2, <2>2
    <3>3. CASE i > numSent
      BY <3>3, <1>2
    <3> QED BY <3>1, <3>2, <3>3, <1>2
  <2> QED BY <2>2, <2>3, <1>4, <1>7 DEF OfOneCycle
<1>12. numReceived' + Len(f) + Len(p \o batch) = numSent'
  BY <1>2, <1>4, <1>7
<1>13. kind' \in {"fifo", "link"} /\ numReceived' \in Nat
       /\ Numbered(f, numReceived') /\ Numbered(p \o batch, numReceived' + Len(f))
  BY <1>2, <1>4, <1>7
<1> QED BY <1>6, <1>7, <1>8, <1>9, <1>10, <1>11, <1>12, <1>13, BufferInvOf

LEMMA PopKeeps ==
  ASSUME BufferInv, Pop
  PROVE  BufferInv'
<1>1. PICK f \in Seq(Nat), p \in Seq(Nat), st \in BOOLEAN :
        /\ f = buf.fifo /\ p = buf.pending /\ st = buf.stalled
        /\ buf = [pending |-> p, fifo |-> f, stalled |-> st]
  BY BufferFacts
<1>2. /\ Len(f) \in Nat /\ Len(p) \in Nat
      /\ numSent \in Nat /\ numReceived \in Nat /\ starts \in SUBSET (0 .. numSent)
      /\ kind \in {"fifo", "link"}
      /\ Numbered(f, numReceived) /\ Numbered(p, numReceived + Len(f))
      /\ numReceived + Len(f) + Len(p) = numSent
  BY <1>1, BufferFacts
<1>3. /\ f # << >>
      /\ buf' = [buf EXCEPT !.fifo = IF @ = << >> THEN @ ELSE Tail(@)]
      /\ numReceived' = numReceived + 1
      /\ kind' = kind /\ numSent' = numSent /\ starts' = starts
  BY <1>1 DEF Pop, HasElement, Popped
<1>4. buf' = [pending |-> p, fifo |-> Tail(f), stalled |-> st]
  BY <1>1, <1>3
<1>5. /\ Tail(f) \in Seq(Nat) /\ Len(Tail(f)) = Len(f) - 1 /\ Len(f) \in Nat \ {0}
      /\ Numbered(Tail(f), numReceived + 1)
  BY <1>2, <1>3, NumberedTail
<1>6. numReceived' + Len(Tail(f)) = numReceived + Len(f)
  BY <1>2, <1>3, <1>5
<1>7. /\ kind' \in {"fifo", "link"} /\ numReceived' \in Nat /\ numSent' \in Nat
      /\ starts' \in SUBSET (0 .. numSent')
      /\ Numbered(Tail(f), numReceived') /\ Numbered(p, numReceived' + Len(Tail(f)))
      /\ numReceived' + Len(Tail(f)) + Len(p) = numSent'
  BY <1>2, <1>3, <1>5, <1>6
<1>8. IF kind' = "fifo" THEN Len(Tail(f)) + Len(p) <= Capacity
                        ELSE Len(Tail(f)) <= Capacity /\ Len(p) <= Capacity
  <2>1. IF kind = "fifo" THEN Len(f) + Len(p) <= Capacity
                         ELSE Len(f) <= Capacity /\ Len(p) <= Capacity
    BY <1>1 DEF BufferInv, WithinCapacity
  <2> QED BY <2>1, <1>2, <1>3, <1>5, BufferAssumption
<1>9. kind' = "link" /\ Len(p) # 0 /\ ~ st => numSent' \notin starts'
  BY <1>1, <1>3 DEF BufferInv, StalledBatchIsClosed
<1>10. ASSUME kind' = "link"
       PROVE  /\ OfOneCycle(numReceived, Len(Tail(f)))'
              /\ OfOneCycle(numReceived + Len(Tail(f)), Len(p))'
  <2>1. OfOneCycle(numReceived, Len(f)) /\ OfOneCycle(numReceived + Len(f), Len(p))
    BY <1>1, <1>3, <1>10 DEF BufferInv, AreasOfOneCycle
  <2>2. \A i \in (numReceived + 1) + 1 .. (numReceived + 1) + (Len(f) - 1) - 1 : i \notin starts
    BY <2>1, <1>2, <1>5 DEF OfOneCycle
  <2>3. \A i \in numReceived + Len(f) + 1 .. numReceived + Len(f) + Len(p) - 1 : i \notin starts
    BY <2>1 DEF OfOneCycle
  <2> QED BY <2>2, <2>3, <1>3, <1>5, <1>6 DEF OfOneCycle
<1> QED BY <1>4, <1>5, <1>7, <1>8, <1>9, <1>10, BufferInvOf

LEMMA ContentsInOrder ==
  ASSUME BufferInv
  PROVE  /\ Contents(buf) \in Seq(Nat)
         /\ Len(Contents(buf)) = Len(buf.fifo) + Len(buf.pending)
         /\ Numbered(Contents(buf), numReceived)
BY BufferFacts, NumberedConcat DEF Contents

LEMMA PropagateKeeps ==
  ASSUME BufferInv, Propagate
  PROVE  BufferInv'
<1>1. PICK f \in Seq(Nat), p \in Seq(Nat), st \in BOOLEAN :
        /\ f = buf.fifo /\ p = buf.pending /\ st = buf.stalled
        /\ buf = [pending |-> p, fifo |-> f, stalled |-> st]
  BY BufferFacts
<1>2. /\ Len(f) \in Nat /\ Len(p) \in Nat
      /\ numSent \in Nat /\ numReceived \in Nat /\ starts \in SUBSET (0 .. numSent)
      /\ kind \in {"fifo", "link"}
      /\ Numbered(f, numReceived) /\ Numbered(p, numReceived + Len(f))
      /\ numReceived + Len(f) + Len(p) = numSent
  BY <1>1, BufferFacts
<1>3. /\ buf' = Propagated /\ starts' = starts \cup {numSent}
      /\ kind' = kind /\ numSent' = numSent /\ numReceived' = numReceived
  BY DEF Propagate
<1>4. starts' \in SUBSET (0 .. numSent')
  BY <1>2, <1>3
<1>5. CASE kind = "link" /\ f # << >>
  <2>1. buf' = [buf EXCEPT !.stalled = TRUE]
    BY <1>1, <1>3, <1>5 DEF Propagated, LinkPropagated, HasElement
  <2>2. buf' = [pending |-> p, fifo |-> f, stalled |-> TRUE]
    BY <2>1, <1>1
  <2>3. OfOneCycle(numReceived, Len(f)) /\ OfOneCycle(numReceived + Len(f), Len(p))
    BY <1>1, <1>5 DEF BufferInv, AreasOfOneCycle
  <2>4. /\ \A i \in numReceived + 1 .. numReceived + Len(f) - 1 : i # numSent
        /\ \A i \in numReceived + Len(f) + 1 .. numReceived + Len(f) + Len(p) - 1 :
             i # numSent
    BY <1>2
  <2>5. OfOneCycle(numReceived, Len(f))' /\ OfOneCycle(numReceived + Len(f), Len(p))'
    BY <2>3, <2>4, <1>3 DEF OfOneCycle
  <2>6. IF kind' = "fifo" THEN Len(f) + Len(p) <= Capacity
                          ELSE Len(f) <= Capacity /\ Len(p) <= Capacity
    BY <1>1, <1>3 DEF BufferInv, WithinCapacity
  <2> QED BY <2>2, <2>5, <2>6, <1>2, <1>3, <1>4, BufferInvOf
<1>6. CASE ~ (kind = "link" /\ f # << >>)
  <2>1. PICK c : c = f \o p
    OBVIOUS
  <2>2. c \in Seq(Nat) /\ Len(c) = Len(f) + Len(p) /\ Numbered(c, numReceived)
    BY <2>1, <1>2, NumberedConcat
  <2>3. buf' = [pending |-> << >>, fifo |-> c, stalled |-> FALSE]
    BY <2>1, <1>1, <1>2, <1>3, <1>6
       DEF Propagated, LinkPropagated, HasElement, FifoPropagated, Contents
  <2>4. PICK none \in Seq(Nat) : none = << >>
    BY EmptySeq
  <2>5. Len(none) = 0 /\ Numbered(none, numReceived + Len(c))
    BY <2>4 DEF Numbered
  <2>6. kind = "link" => Len(f) = 0
    BY <1>6
  <2>7. IF kind' = "fifo" THEN Len(c) + Len(none) <= Capacity
                          ELSE Len(c) <= Capacity /\ Len(none) <= Capacity
    <3>1. IF kind = "fifo" THEN Len(f) + Len(p) <= Capacity
                           ELSE Len(f) <= Capacity /\ Len(p) <= Capacity
      BY <1>1 DEF BufferInv, WithinCapacity
    <3> QED BY <3>1, <1>2, <1>3, <2>2, <2>5, <2>6, BufferAssumption
  <2>8. ASSUME kind' = "link"
        PROVE  /\ OfOneCycle(numReceived, Len(c))'
               /\ OfOneCycle(numReceived + Len(c), Len(none))'
    <3>1. OfOneCycle(numReceived + Len(f), Len(p)) /\ Len(f) = 0
      BY <1>1, <1>3, <2>6, <2>8 DEF BufferInv, AreasOfOneCycle
    <3>2. \A i \in numReceived + 1 .. numReceived + Len(c) - 1 :
            i \notin starts /\ i # numSent
      BY <3>1, <2>2, <1>2 DEF OfOneCycle
    <3> QED BY <3>2, <2>2, <2>5, <1>2, <1>3 DEF OfOneCycle
  <2>9. numReceived' + Len(c) + Len(none) = numSent'
    BY <2>2, <2>5, <1>2, <1>3
  <2>10. /\ kind' \in {"fifo", "link"} /\ numSent' \in Nat /\ numReceived' \in Nat
         /\ Numbered(c, numReceived') /\ Numbered(none, numReceived' + Len(c))
         /\ buf' = [pending |-> none, fifo |-> c, stalled |-> FALSE]
    BY <2>2, <2>3, <2>4, <2>5, <1>2, <1>3
  <2> QED BY <2>2, <2>4, <2>5, <2>7, <2>8, <2>9, <2>10, <1>4, BufferInvOf
<1> QED BY <1>5, <1>6

LEMMA BufferNextInv == BufferInv /\ [BufferNext]_bufferVars => BufferInv'
<1> SUFFICES ASSUME BufferInv, [BufferNext]_bufferVars PROVE BufferInv'
  OBVIOUS
<1>1. CASE UNCHANGED bufferVars
  BY <1>1 DEF bufferVars, BufferInv, BufferTypeOK, NumberedInOrder, WithinCapacity,
              StalledBatchIsClosed, AreasOfOneCycle, OfOneCycle, Numbered
<1>2. CASE BufferNext
  BY <1>2, PushManyKeeps, PopKeeps, PropagateKeeps DEF BufferNext
<1> QED BY <1>1, <1>2

LEMMA AreasAreBatches == BufferInv => OneCycleAtATime
<1> SUFFICES ASSUME BufferInv, kind = "link"
             PROVE  /\ \A k \in 1 .. Len(buf.fifo) - 1 : buf.fifo[k] \notin starts
                    /\ \A k \in 1 .. Len(buf.pending) - 1 : buf.pending[k] \notin starts
  BY DEF OneCycleAtATime
<1>1. PICK f \in Seq(Nat), p \in Seq(Nat) : f = buf.fifo /\ p = buf.pending
  BY BufferFacts
<1>2. /\ numReceived \in Nat /\ Len(f) \in Nat /\ numReceived + Len(f) \in Nat
      /\ Numbered(f, numReceived) /\ Numbered(p, numReceived + Len(f))
  BY <1>1, BufferFacts
<1>3. OfOneCycle(numReceived, Len(f)) /\ OfOneCycle(numReceived + Len(f), Len(p))
  BY <1>1 DEF BufferInv, AreasOfOneCycle
<1>4. \A k \in 1 .. Len(f) - 1 : f[k] \notin starts
  BY <1>2, <1>3, OfOneCycleElements
<1>5. \A k \in 1 .. Len(p) - 1 : p[k] \notin starts
  BY <1>2, <1>3, OfOneCycleElements
<1> QED BY <1>1, <1>4, <1>5

\* What the consumer of a link finds was pushed in one cycle, and so was what
\* waits behind it: a stall, however long, never merges the batches of two
\* cycles (LinkBuffer::CanPush and Propagate).
THEOREM CyclesNeverMerge == BufferSpec => []OneCycleAtATime
BY BufferInitInv, BufferNextInv, AreasAreBatches, PTL DEF BufferSpec

-----------------------------------------------------------------------------
(* The buffer is a FIFO channel.                                           *)

ChanBound == IF kind = "fifo" THEN Capacity ELSE 2 * Capacity

LEMMA InitIsChannelInit == BufferInit => Chan!Init
BY BufferAssumption DEF BufferInit, EmptyBuffer, Contents, Chan!Init

LEMMA PushManyIsSend ==
  ASSUME BufferInv, NEW n \in 1 .. MaxBatch, PushMany(n)
  PROVE  Chan!Send
<1>1. PICK f \in Seq(Nat), p \in Seq(Nat), st \in BOOLEAN :
        /\ f = buf.fifo /\ p = buf.pending /\ st = buf.stalled
        /\ buf = [pending |-> p, fifo |-> f, stalled |-> st]
  BY BufferFacts
<1>2. /\ Len(f) \in Nat /\ Len(p) \in Nat /\ n \in Nat \ {0}
      /\ numSent \in Nat /\ kind \in {"fifo", "link"}
  BY <1>1, BufferFacts, BufferAssumption
<1>3. PICK batch : batch = [k \in 1 .. n |-> numSent + k]
  OBVIOUS
<1>4. /\ buf' = [buf EXCEPT !.pending = @ \o batch]
      /\ numSent' = numSent + n
      /\ kind' = kind /\ numReceived' = numReceived
      /\ CanPush(n)
  BY <1>3 DEF PushMany, Pushed
<1>5. batch \in Seq(Nat)
  BY <1>2, <1>3, NumberedBatch
<1>6. buf'.fifo = f /\ buf'.pending = p \o batch
  BY <1>1, <1>4
<1>7. Contents(buf)' = Contents(buf) \o batch
  <2>1. Contents(buf)' = f \o (p \o batch) /\ Contents(buf) = f \o p
    BY <1>1, <1>6 DEF Contents
  <2>2. (f \o p) \o batch = f \o (p \o batch)
    <3>1. f \in Seq(Nat) /\ p \in Seq(Nat)
      BY <1>1, <1>2
    <3> QED BY <3>1, <1>5, JoinedInAnyOrder, SMTT(30)
  <2> QED BY <2>1, <2>2
<1>8. Len(Contents(buf)) = Len(f) + Len(p)
  BY <1>1, ContentsInOrder
<1>9. Len(f) + Len(p) + n <= ChanBound
  <2>1. IF kind = "fifo" THEN Len(f) + Len(p) <= Capacity
                         ELSE Len(f) <= Capacity /\ Len(p) <= Capacity
    BY <1>1 DEF BufferInv, WithinCapacity
  <2>2. IF kind = "fifo" THEN n + Len(p) + Len(f) <= Capacity
                         ELSE n + Len(p) <= Capacity
    BY <1>1, <1>4 DEF CanPush, FifoCanPush, LinkCanPush
  <2> QED BY <2>1, <2>2, <1>2, BufferAssumption DEF ChanBound
<1>10. n \in 1 .. ChanBound - Len(Contents(buf))
  BY <1>2, <1>8, <1>9, BufferAssumption DEF ChanBound
<1>11. ChanBound' = ChanBound
  BY <1>4 DEF ChanBound
<1> QED BY <1>3, <1>4, <1>7, <1>10, <1>11 DEF Chan!Send, ChanBound

LEMMA PopIsReceive ==
  ASSUME BufferInv, Pop
  PROVE  Chan!Receive
<1>1. PICK f \in Seq(Nat), p \in Seq(Nat), st \in BOOLEAN :
        /\ f = buf.fifo /\ p = buf.pending /\ st = buf.stalled
        /\ buf = [pending |-> p, fifo |-> f, stalled |-> st]
  BY BufferFacts
<1>2. /\ f # << >>
      /\ buf' = [buf EXCEPT !.fifo = IF @ = << >> THEN @ ELSE Tail(@)]
      /\ numReceived' = numReceived + 1
      /\ kind' = kind /\ numSent' = numSent
  BY <1>1 DEF Pop, HasElement, Popped
<1>3. buf'.fifo = Tail(f) /\ buf'.pending = p
  BY <1>1, <1>2
<1>4. PICK c \in Seq(Nat) : c = Contents(buf)
  BY ContentsInOrder
<1>5. Len(c) = Len(f) + Len(p) /\ Numbered(c, numReceived) /\ numReceived \in Nat
      /\ Len(f) \in Nat \ {0} /\ Len(p) \in Nat
  BY <1>1, <1>2, <1>4, ContentsInOrder, BufferFacts, EmptySeq
<1>6. c # << >>
  BY <1>5
<1>7. Head(c) = numReceived + 1
  BY <1>4, <1>5, <1>6, NumberedTail
<1>8. Tail(c) = Tail(f) \o p
  <2>1. c = f \o p
    BY <1>1, <1>4 DEF Contents
  <2>2. /\ Tail(c) \in Seq(Nat) /\ Len(Tail(c)) = Len(c) - 1
        /\ \A k \in 1 .. Len(c) - 1 : Tail(c)[k] = numReceived + 1 + k
    BY <1>5, <1>6, NumberedTail DEF Numbered
  <2>3. /\ Tail(f) \in Seq(Nat) /\ Len(Tail(f)) = Len(f) - 1
        /\ Numbered(Tail(f), numReceived + 1)
    BY <1>1, <1>2, <1>5, BufferFacts, NumberedTail
  <2>4. Numbered(p, numReceived + 1 + Len(Tail(f)))
    <3>1. numReceived + 1 + Len(Tail(f)) = numReceived + Len(f)
      BY <2>3, <1>5
    <3> QED BY <3>1, <1>1, BufferFacts
  <2>5. /\ Tail(f) \o p \in Seq(Nat)
        /\ Len(Tail(f) \o p) = Len(c) - 1
        /\ Numbered(Tail(f) \o p, numReceived + 1)
    <3>1. PICK first \in Nat : first = numReceived + 1
      BY <1>5
    <3>2. Numbered(Tail(f), first) /\ Numbered(p, first + Len(Tail(f)))
      BY <3>1, <2>3, <2>4
    <3>3. /\ Tail(f) \o p \in Seq(Nat)
          /\ Len(Tail(f) \o p) = Len(Tail(f)) + Len(p)
          /\ Numbered(Tail(f) \o p, first)
      BY <3>2, <2>3, NumberedConcat
    <3> QED BY <3>1, <3>3, <2>3, <1>5
  <2>6. \A k \in 1 .. Len(c) - 1 : (Tail(f) \o p)[k] = numReceived + 1 + k
    BY <2>5 DEF Numbered
  <2>7. PICK s \in Seq(Nat), t \in Seq(Nat) : s = Tail(c) /\ t = Tail(f) \o p
    BY <2>2, <2>5
  <2>8. /\ Len(s) = Len(t) /\ Len(s) = Len(c) - 1
        /\ \A k \in 1 .. Len(s) : s[k] = t[k]
    BY <2>2, <2>5, <2>6, <2>7
  <2>9. s = t
    BY <2>8, SeqEqual
  <2> QED BY <2>7, <2>9
<1>9. Contents(buf)' = Tail(Contents(buf))
  BY <1>3, <1>4, <1>8 DEF Contents
<1> QED BY <1>2, <1>4, <1>6, <1>7, <1>9 DEF Chan!Receive

\* Propagation moves elements from one area to the other, or nowhere.
LEMMA PropagateStutters ==
  ASSUME BufferInv, Propagate
  PROVE  UNCHANGED Chan!vars
<1>1. PICK f \in Seq(Nat), p \in Seq(Nat), st \in BOOLEAN :
        /\ f = buf.fifo /\ p = buf.pending /\ st = buf.stalled
        /\ buf = [pending |-> p, fifo |-> f, stalled |-> st]
  BY BufferFacts
<1>2. /\ buf' = Propagated
      /\ kind' = kind /\ numSent' = numSent /\ numReceived' = numReceived
  BY DEF Propagate
<1>3. CASE kind = "link" /\ f # << >>
  <2>1. buf' = [buf EXCEPT !.stalled = TRUE]
    BY <1>1, <1>2, <1>3 DEF Propagated, LinkPropagated, HasElement
  <2>2. buf'.fifo = f /\ buf'.pending = p
    BY <2>1, <1>1
  <2> QED BY <2>2, <1>1, <1>2 DEF Contents, Chan!vars
<1>4. CASE ~ (kind = "link" /\ f # << >>)
  <2>1. buf' = [pending |-> << >>, fifo |-> f \o p, stalled |-> FALSE]
    <3>1. kind \in {"fifo", "link"}
      BY BufferFacts
    <3> QED BY <3>1, <1>1, <1>2, <1>4
            DEF Propagated, LinkPropagated, HasElement, FifoPropagated, Contents
  <2>2. buf'.fifo = f \o p /\ buf'.pending = << >>
    BY <2>1
  <2>3. (f \o p) \o << >> = f \o p
    BY ConcatProperties, ConcatEmptySeq
  <2> QED BY <2>2, <2>3, <1>1, <1>2 DEF Contents, Chan!vars
<1> QED BY <1>3, <1>4

LEMMA BufferNextIsChannelNext ==
  BufferInv /\ [BufferNext]_bufferVars => [Chan!Next]_Chan!vars
<1> SUFFICES ASSUME BufferInv, [BufferNext]_bufferVars
             PROVE  [Chan!Next]_Chan!vars
  OBVIOUS
<1>1. CASE UNCHANGED bufferVars
  BY <1>1 DEF bufferVars, Contents, Chan!vars
<1>2. CASE BufferNext
  BY <1>2, PushManyIsSend, PopIsReceive, PropagateStutters DEF BufferNext, Chan!Next
<1> QED BY <1>1, <1>2

\* Both buffers are FIFO channels: they lose, duplicate and reorder nothing and
\* never hold more than their capacity, twice that for a LinkBuffer.
THEOREM BufferIsAChannel == BufferSpec => ImplementsChannel
BY BufferInitInv, BufferNextInv, InitIsChannelInit, BufferNextIsChannelNext, PTL
   DEF BufferSpec, ImplementsChannel, Chan!Spec

-----------------------------------------------------------------------------
(* The register renamer, for any instructions.                             *)

RenamerSpec == TickInit /\ [][TickNext]_tickVars

Ids == [instr : Nat, index : Nat]
PortSets == UNION {{instr.uops[k].ports : k \in 1 .. Len(instr.uops)} : instr \in Instructions}
RenamedUops == [id : Ids, uses : SUBSET Nat, defs : SUBSET Nat, ports : PortSets]

\* The order of the program.
Before(a, b) == a.instr < b.instr \/ (a.instr = b.instr /\ a.index < b.index)

LastUopId(w) == [instr |-> w - 1, index |-> Len(program[w].uops) - 1]

RenamerTypeOK ==
  /\ program \in Seq(Instructions)
  /\ arrived \in Seq(Ids)
  /\ numRead \in 0 .. Len(arrived)
  /\ numAllocated \in Nat
  /\ names \in [Units -> 0 .. numAllocated]
  /\ budget \in Nat
  /\ sent \in Seq(RenamedUops)
  /\ pendingUop \in RenamedUops \cup {NoUop}
  /\ budget > 0 => pendingUop = NoUop

\* The uops of the program arrive once each, and in order.
ArrivedInOrder ==
  /\ \A k \in 1 .. Len(arrived) :
       /\ arrived[k].instr + 1 \in 1 .. Len(program)
       /\ arrived[k].index + 1 \in 1 .. Len(InstrOf(arrived[k]).uops)
  /\ \A j, k \in 1 .. Len(arrived) : j < k => Before(arrived[j], arrived[k])
  /\ \A w \in 1 .. Len(program) : \A q \in 1 .. Len(program[w].uops) :
       \E k \in 1 .. Len(arrived) : arrived[k] = [instr |-> w - 1, index |-> q - 1]

\* Every uop that was read is renamed, with as many names as it has defs.
OutputIsNamed ==
  /\ Len(Output) = numRead
  /\ \A k \in 1 .. numRead :
       /\ Output[k].id = arrived[k]
       /\ \E a \in 0 .. numAllocated :
            /\ a + NumRenames(InstrOf(arrived[k]), arrived[k]) <= numAllocated
            /\ Output[k].defs =
                 a + 1 .. a + NumRenames(InstrOf(arrived[k]), arrived[k])
  /\ \A j, k \in 1 .. numRead : j < k => Output[j].defs \cap Output[k].defs = {}

RenamerInv == RenamerTypeOK /\ ArrivedInOrder /\ OutputIsNamed

\* w is the last instruction before the i-th one that writes x, its d-th
\* register is the last one of its that holds x, and n is the name of that.
IsLastName(i, x, n) ==
  \E w \in Writers(i, x) :
    /\ \A v \in Writers(i, x) : v <= w
    /\ \E d \in 1 .. Len(program[w].defs), k \in 1 .. numRead, a \in 0 .. numAllocated :
         /\ x \in program[w].defs[d]
         /\ \A e \in 1 .. Len(program[w].defs) : x \in program[w].defs[e] => e <= d
         /\ Output[k].id = LastUopId(w)
         /\ Output[k].defs = a + 1 .. a + Len(program[w].defs)
         /\ n = a + d

\* The instruction that the next uop belongs to.
NextInstr == IF HasUop THEN HeadUop.instr + 1 ELSE Len(program) + 1

NamesAreLast ==
  \A i \in 1 .. Len(program) + 1 : i = NextInstr =>
    \A x \in Units : IF Writers(i, x) = {} THEN names[x] = 0
                                           ELSE IsLastName(i, x, names[x])

\* The uses of the k-th uop, of the i-th instruction.
UsesOfFirst(k, i) ==
  IF arrived[k].index # 0 THEN Output[k].uses = {}
  ELSE /\ \A n \in Output[k].uses : \E x \in program[i].uses : IsLastName(i, x, n)
       /\ \A x \in program[i].uses :
            Writers(i, x) # {} => \E n \in Output[k].uses : IsLastName(i, x, n)

UsesAreLast ==
  \A k \in 1 .. numRead : \A i \in 1 .. Len(program) :
    i = arrived[k].instr + 1 => UsesOfFirst(k, i)

RenamingInv == RenamerInv /\ NamesAreLast /\ UsesAreLast

-----------------------------------------------------------------------------
(* Maxima of finite sets of naturals.                                      *)

\* The pairs of naturals of which the first is less.
LessThan == {ss \in Nat \X Nat : ss[1] < ss[2]}

LEMMA LessThanIsWellFounded == IsWellFoundedOn(LessThan, Nat)
BY NatLessThanWellFounded, Zenon DEF OpToRel, LessThan

LEMMA MaximumExists ==
  ASSUME NEW n \in Nat, NEW S \in SUBSET (1 .. n), S # {}
  PROVE  \E m \in S : \A e \in S : e <= m
<1>1. PICK T : T = {n - e : e \in S}
  OBVIOUS
<1>2. PICK e0 \in S : TRUE
  OBVIOUS
<1>3. n - e0 \in T /\ T \in SUBSET Nat
  BY <1>1, <1>2
<1>4. PICK t \in T : \A u \in T : ~ (<<u, t>> \in LessThan)
  BY <1>3, LessThanIsWellFounded, WFMin
<1>5. \A u \in T : ~ (u < t)
  BY <1>3, <1>4 DEF LessThan
<1>6. PICK m \in S : t = n - m
  BY <1>1
<1>7. ASSUME NEW e \in S PROVE e <= m
  <2>1. n - e \in T
    BY <1>1
  <2>2. ~ (n - e < n - m)
    BY <2>1, <1>5, <1>6
  <2> QED BY <2>2
<1> QED BY <1>7

LEMMA MaxIs ==
  ASSUME NEW S \in SUBSET Nat, NEW m \in S, \A e \in S : e <= m
  PROVE  /\ Max(S) = m
         /\ (CHOOSE d \in S : \A e \in S : e <= d) = m
<1>1. \A d \in S : (\A e \in S : d >= e) => d = m
  OBVIOUS
<1>2. \A d \in S : (\A e \in S : e <= d) => d = m
  OBVIOUS
<1>3. \A e \in S : m >= e
  OBVIOUS
<1>4. Max(S) \in S /\ \A e \in S : Max(S) >= e
  BY <1>3 DEF Max
<1> QED BY <1>1, <1>2, <1>4

-----------------------------------------------------------------------------
LEMMA InstructionFacts ==
  ASSUME RenamerTypeOK, NEW w \in 1 .. Len(program)
  PROVE  /\ program[w] \in Instructions
         /\ program[w].uses \in SUBSET Units
         /\ program[w].defs \in Seq(SUBSET Units)
         /\ Len(program[w].defs) \in Nat
         /\ Len(program[w].uops) \in Nat \ {0}
<1>1. program[w] \in Instructions
  BY DEF RenamerTypeOK
<1> QED BY <1>1, InstructionsAssumption

LEMMA ArrivedFacts ==
  ASSUME RenamerInv, NEW k \in 1 .. Len(arrived)
  PROVE  /\ arrived[k] \in Ids
         /\ arrived[k].instr \in Nat /\ arrived[k].index \in Nat
         /\ arrived[k].instr + 1 \in 1 .. Len(program)
         /\ InstrOf(arrived[k]) = program[arrived[k].instr + 1]
         /\ InstrOf(arrived[k]) \in Instructions
         /\ arrived[k].index + 1 \in 1 .. Len(InstrOf(arrived[k]).uops)
         /\ NumRenames(InstrOf(arrived[k]), arrived[k]) \in Nat
<1>1. arrived[k] \in Ids
  BY DEF RenamerInv, RenamerTypeOK
<1>2. /\ arrived[k].instr + 1 \in 1 .. Len(program)
      /\ arrived[k].index + 1 \in 1 .. Len(InstrOf(arrived[k]).uops)
  BY DEF RenamerInv, ArrivedInOrder
<1>3. /\ InstrOf(arrived[k]) = program[arrived[k].instr + 1]
      /\ InstrOf(arrived[k]) \in Instructions
      /\ Len(InstrOf(arrived[k]).defs) \in Nat
  BY <1>2, InstructionFacts DEF InstrOf, RenamerInv
<1> QED BY <1>1, <1>2, <1>3 DEF Ids, NumRenames

LEMMA OutputType ==
  ASSUME RenamerTypeOK
  PROVE  /\ Output \in Seq(RenamedUops)
         /\ Len(Output) \in Nat
         /\ DOMAIN Output = 1 .. Len(Output)
<1>1. Output \in Seq(RenamedUops)
  BY AppendProperties DEF RenamerTypeOK, Output
<1> QED BY <1>1, LenProperties

\* What an instruction without side effects on the renamer leaves alone.
LEMMA SameRenaming ==
  ASSUME RenamingInv, Output' = Output,
         UNCHANGED <<names, numAllocated, numRead, program, arrived>>
  PROVE  ArrivedInOrder' /\ OutputIsNamed' /\ NamesAreLast' /\ UsesAreLast'
<1>1. ArrivedInOrder' /\ OutputIsNamed'
  BY DEF RenamingInv, RenamerInv, ArrivedInOrder, OutputIsNamed, InstrOf, NumRenames,
         IsLastUop, Before
<1>2. /\ \A i, x : Writers(i, x)' = Writers(i, x)
      /\ \A i, x, n : IsLastName(i, x, n)' <=> IsLastName(i, x, n)
  BY DEF IsLastName, Writers, LastUopId
<1>3. NextInstr' = NextInstr
  BY DEF NextInstr, HasUop, HeadUop
<1>4. NamesAreLast' /\ UsesAreLast'
  <2>1. \A k, i : UsesOfFirst(k, i)' <=> UsesOfFirst(k, i)
    BY <1>2 DEF UsesOfFirst
  <2>2. \A i, x : IsLastName(i, x, names[x])' <=> IsLastName(i, x, names[x])
    BY DEF IsLastName, Writers, LastUopId
  <2>3. NamesAreLast'
    BY <2>2, <1>2, <1>3 DEF RenamingInv, NamesAreLast
  <2>4. UsesAreLast'
    BY <2>1 DEF RenamingInv, UsesAreLast
  <2> QED BY <2>3, <2>4
<1> QED BY <1>1, <1>4

LEMMA StartTickKeeps ==
  ASSUME RenamingInv, StartTick
  PROVE  RenamingInv'
<1>1. Output' = Output
  BY DEF StartTick, renamerVars, Output
<1>2. RenamerTypeOK'
  BY WidthAssumption DEF StartTick, renamerVars, RenamingInv, RenamerInv, RenamerTypeOK
<1> QED BY <1>1, <1>2, SameRenaming DEF StartTick, renamerVars, RenamingInv, RenamerInv

LEMMA EndTickKeeps ==
  ASSUME RenamingInv, EndTick
  PROVE  RenamingInv'
<1>1. Output' = Output
  BY DEF EndTick, renamerVars, Output
<1>2. RenamerTypeOK'
  BY DEF EndTick, renamerVars, RenamingInv, RenamerInv, RenamerTypeOK
<1> QED BY <1>1, <1>2, SameRenaming DEF EndTick, renamerVars, RenamingInv, RenamerInv

LEMMA FlushPendingKeeps ==
  ASSUME RenamingInv, FlushPending
  PROVE  RenamingInv'
<1>1. Output' = Output
  BY DEF FlushPending, Output
<1>2. pendingUop \in RenamedUops /\ sent \in Seq(RenamedUops)
  BY DEF FlushPending, RenamingInv, RenamerInv, RenamerTypeOK
<1>3. sent' \in Seq(RenamedUops)
  BY <1>2, AppendProperties DEF FlushPending
<1>4. RenamerTypeOK'
  BY <1>3, WidthAssumption DEF FlushPending, RenamingInv, RenamerInv, RenamerTypeOK
<1> QED BY <1>1, <1>4, SameRenaming DEF FlushPending, RenamingInv, RenamerInv

-----------------------------------------------------------------------------
(* What has been named keeps its name.                                     *)

LEMMA WritersKept ==
  ASSUME NEW i \in 1 .. Len(program) + 1, NEW x, Len(program) \in Nat,
         \A w \in 1 .. Len(program) : program'[w] = program[w]
  PROVE  Writers(i, x)' = Writers(i, x)
<1>1. \A w \in 1 .. i - 1 : program'[w] = program[w]
  OBVIOUS
<1> QED BY <1>1 DEF Writers

LEMMA LastNameKept ==
  ASSUME NEW i \in 1 .. Len(program) + 1, NEW x, NEW n, Len(program) \in Nat,
         IsLastName(i, x, n),
         \A w \in 1 .. Len(program) : program'[w] = program[w],
         numRead \in Nat, numRead' \in Nat, numRead <= numRead',
         numAllocated \in Nat, numAllocated' \in Nat, numAllocated <= numAllocated',
         \A k \in 1 .. numRead : Output'[k] = Output[k]
  PROVE  IsLastName(i, x, n)'
<1>1. PICK w \in Writers(i, x) :
        /\ \A v \in Writers(i, x) : v <= w
        /\ \E d \in 1 .. Len(program[w].defs), k \in 1 .. numRead, a \in 0 .. numAllocated :
             /\ x \in program[w].defs[d]
             /\ \A e \in 1 .. Len(program[w].defs) : x \in program[w].defs[e] => e <= d
             /\ Output[k].id = LastUopId(w)
             /\ Output[k].defs = a + 1 .. a + Len(program[w].defs)
             /\ n = a + d
  BY DEF IsLastName
<1>2. Writers(i, x)' = Writers(i, x)
  BY WritersKept
<1>3. w \in 1 .. Len(program)
  BY <1>1 DEF Writers
<1>4. program'[w] = program[w] /\ LastUopId(w)' = LastUopId(w)
  BY <1>3 DEF LastUopId
<1>5. PICK d \in 1 .. Len(program[w].defs), k \in 1 .. numRead, a \in 0 .. numAllocated :
        /\ x \in program[w].defs[d]
        /\ \A e \in 1 .. Len(program[w].defs) : x \in program[w].defs[e] => e <= d
        /\ Output[k].id = LastUopId(w)
        /\ Output[k].defs = a + 1 .. a + Len(program[w].defs)
        /\ n = a + d
  BY <1>1
<1>6. k \in 1 .. numRead' /\ a \in 0 .. numAllocated' /\ Output'[k] = Output[k]
  OBVIOUS
<1>7. \A v \in Writers(i, x)' : v <= w
  BY <1>1, <1>2
<1> QED BY <1>1, <1>2, <1>4, <1>5, <1>6, <1>7 DEF IsLastName

LEMMA NextInstrType ==
  ASSUME RenamerInv
  PROVE  /\ Len(program) \in Nat /\ Len(arrived) \in Nat
         /\ numRead \in 0 .. Len(arrived) /\ numAllocated \in Nat
         /\ NextInstr \in 1 .. Len(program) + 1
         /\ HasUop => numRead + 1 \in 1 .. Len(arrived)
         /\ \A k \in 1 .. numRead : k \in 1 .. Len(arrived)
<1>1. /\ Len(program) \in Nat /\ Len(arrived) \in Nat
      /\ numRead \in 0 .. Len(arrived) /\ numAllocated \in Nat
  BY LenProperties DEF RenamerInv, RenamerTypeOK
<1>2. HasUop => numRead + 1 \in 1 .. Len(arrived)
  BY <1>1 DEF HasUop
<1>3. HasUop => HeadUop.instr + 1 \in 1 .. Len(program)
  BY <1>2, ArrivedFacts DEF HeadUop
<1> QED BY <1>1, <1>2, <1>3 DEF NextInstr

-----------------------------------------------------------------------------
(* Arrivals.                                                               *)

LEMMA ArriveEffect ==
  ASSUME RenamerInv, NEW instr \in Instructions, Arrive(instr)
  PROVE  /\ program' \in Seq(Instructions)
         /\ Len(program') = Len(program) + 1
         /\ \A w \in 1 .. Len(program) : program'[w] = program[w]
         /\ program'[Len(program) + 1] = instr
         /\ arrived' \in Seq(Ids)
         /\ Len(arrived') = Len(arrived) + Len(instr.uops)
         /\ \A k \in 1 .. Len(arrived) : arrived'[k] = arrived[k]
         /\ \A q \in 1 .. Len(instr.uops) :
              arrived'[Len(arrived) + q] = [instr |-> Len(program), index |-> q - 1]
         /\ Output' = Output /\ sent' = sent /\ pendingUop' = pendingUop
         /\ UNCHANGED <<names, numAllocated, numRead, budget>>
<1>1. PICK batch : batch = [q \in 1 .. Len(instr.uops) |->
                              [instr |-> Len(program), index |-> q - 1]]
  OBVIOUS
<1>2. Len(instr.uops) \in Nat \ {0} /\ Len(program) \in Nat
  BY InstructionsAssumption, NextInstrType
<1>3. /\ batch \in Seq(Ids) /\ Len(batch) = Len(instr.uops)
      /\ \A q \in 1 .. Len(instr.uops) : batch[q] = [instr |-> Len(program), index |-> q - 1]
  BY <1>1, <1>2 DEF Ids
<1>4. /\ program' = Append(program, instr) /\ arrived' = arrived \o batch
      /\ sent' = sent /\ pendingUop' = pendingUop
      /\ UNCHANGED <<names, numAllocated, numRead, budget>>
  BY <1>1 DEF Arrive, renamerVars
<1>5. Output' = Output
  BY <1>4 DEF Output
<1>6. program \in Seq(Instructions) /\ arrived \in Seq(Ids) /\ Len(arrived) \in Nat
  BY NextInstrType DEF RenamerInv, RenamerTypeOK
<1>7. /\ program' \in Seq(Instructions) /\ Len(program') = Len(program) + 1
      /\ \A w \in 1 .. Len(program) : program'[w] = program[w]
      /\ program'[Len(program) + 1] = instr
  BY <1>4, <1>6, AppendProperties
<1>8. /\ arrived' \in Seq(Ids) /\ Len(arrived') = Len(arrived) + Len(batch)
      /\ \A k \in 1 .. Len(arrived) + Len(batch) : arrived'[k] =
           IF k <= Len(arrived) THEN arrived[k] ELSE batch[k - Len(arrived)]
  <2>1. PICK s \in Seq(Ids), t \in Seq(Ids) : s = arrived /\ t = batch
    BY <1>3, <1>6
  <2>2. /\ s \o t \in Seq(Ids) /\ Len(s \o t) = Len(s) + Len(t)
        /\ \A k \in 1 .. Len(s) + Len(t) : (s \o t)[k] =
             IF k <= Len(s) THEN s[k] ELSE t[k - Len(s)]
    BY ConcatProperties
  <2>3. arrived' = s \o t
    BY <2>1, <1>4
  <2> QED BY <2>1, <2>2, <2>3
<1>9. ASSUME NEW k \in 1 .. Len(arrived)
      PROVE  arrived'[k] = arrived[k]
  <2>1. k \in 1 .. Len(arrived) + Len(batch) /\ k <= Len(arrived)
    BY <1>2, <1>3, <1>6
  <2> QED BY <2>1, <1>8
<1>10. ASSUME NEW q \in 1 .. Len(instr.uops)
       PROVE  arrived'[Len(arrived) + q] = [instr |-> Len(program), index |-> q - 1]
  <2>1. /\ Len(arrived) + q \in 1 .. Len(arrived) + Len(batch)
        /\ ~ (Len(arrived) + q <= Len(arrived))
        /\ Len(arrived) + q - Len(arrived) = q
    BY <1>2, <1>3, <1>6
  <2> QED BY <2>1, <1>3, <1>8
<1> QED BY <1>3, <1>4, <1>5, <1>7, <1>8, <1>9, <1>10

LEMMA ArriveInOrder ==
  ASSUME RenamerInv, NEW instr \in Instructions, Arrive(instr)
  PROVE  ArrivedInOrder'
<1>1. PICK lp \in Nat, la \in Nat, lu \in Nat \ {0} :
        lp = Len(program) /\ la = Len(arrived) /\ lu = Len(instr.uops)
  BY NextInstrType, InstructionsAssumption
<1>2. /\ Len(program') = lp + 1 /\ program'[lp + 1] = instr
      /\ \A w \in 1 .. lp : program'[w] = program[w]
      /\ Len(arrived') = la + lu
      /\ \A k \in 1 .. la : arrived'[k] = arrived[k]
      /\ \A q \in 1 .. lu : arrived'[la + q] = [instr |-> lp, index |-> q - 1]
  BY <1>1, ArriveEffect
<1>3. \A k \in 1 .. la : /\ arrived[k].instr \in Nat /\ arrived[k].index \in Nat
                         /\ arrived[k].instr + 1 \in 1 .. lp
                         /\ arrived[k].index + 1 \in 1 .. Len(program[arrived[k].instr + 1].uops)
  BY <1>1, ArrivedFacts
<1>4. ASSUME NEW k \in 1 .. la + lu, ~ (k <= la)
      PROVE  \E q \in 1 .. lu : k = la + q /\ arrived'[k] = [instr |-> lp, index |-> q - 1]
  <2>1. k - la \in 1 .. lu /\ k = la + (k - la)
    BY <1>4
  <2> QED BY <2>1, <1>2
<1>5. ASSUME NEW k \in 1 .. la + lu
      PROVE  /\ arrived'[k].instr + 1 \in 1 .. lp + 1
             /\ arrived'[k].index + 1 \in 1 .. Len(program'[arrived'[k].instr + 1].uops)
  <2>1. CASE k <= la
    <3>1. /\ arrived'[k] = arrived[k]
          /\ arrived[k].instr + 1 \in 1 .. lp
          /\ arrived[k].index + 1 \in 1 .. Len(program[arrived[k].instr + 1].uops)
      <4>1. k \in 1 .. la
        BY <2>1
      <4> QED BY <4>1, <1>2, <1>3
    <3>2. PICK w \in 1 .. lp : w = arrived[k].instr + 1
      BY <3>1
    <3>3. program'[w] = program[w]
      BY <1>2
    <3> QED BY <3>1, <3>2, <3>3
  <2>2. CASE ~ (k <= la)
    <3>1. PICK q \in 1 .. lu : arrived'[k] = [instr |-> lp, index |-> q - 1]
      BY <2>2, <1>4
    <3>2. arrived'[k].instr = lp /\ arrived'[k].index + 1 = q
      BY <3>1
    <3> QED BY <3>2, <1>1, <1>2
  <2> QED BY <2>1, <2>2
<1>6. ASSUME NEW j \in 1 .. la + lu, NEW k \in 1 .. la + lu, j < k
      PROVE  Before(arrived'[j], arrived'[k])
  <2>1. CASE k <= la
    <3>1. j \in 1 .. la /\ k \in 1 .. la
      BY <2>1, <1>6
    <3>2. Before(arrived[j], arrived[k])
      BY <3>1, <1>1, <1>6 DEF RenamerInv, ArrivedInOrder
    <3> QED BY <3>1, <3>2, <1>2
  <2>2. CASE ~ (k <= la)
    <3>1. PICK q \in 1 .. lu : k = la + q /\ arrived'[k] = [instr |-> lp, index |-> q - 1]
      BY <2>2, <1>4
    <3>2. CASE j <= la
      <4>1. arrived'[j].instr < lp
        BY <3>2, <1>2, <1>3
      <4> QED BY <4>1, <3>1 DEF Before
    <3>3. CASE ~ (j <= la)
      <4>1. PICK p \in 1 .. lu : j = la + p /\ arrived'[j] = [instr |-> lp, index |-> p - 1]
        BY <3>3, <1>4
      <4> QED BY <4>1, <3>1, <1>6 DEF Before
    <3> QED BY <3>2, <3>3
  <2> QED BY <2>1, <2>2
<1>7. ASSUME NEW w \in 1 .. lp + 1, NEW q \in 1 .. Len(program'[w].uops)
      PROVE  \E k \in 1 .. la + lu : arrived'[k] = [instr |-> w - 1, index |-> q - 1]
  <2>1. CASE w <= lp
    <3>1. program'[w] = program[w]
      BY <2>1, <1>2
    <3>2. PICK k \in 1 .. la : arrived[k] = [instr |-> w - 1, index |-> q - 1]
      BY <2>1, <3>1, <1>1 DEF RenamerInv, ArrivedInOrder
    <3> QED BY <3>2, <1>2
  <2>2. CASE w = lp + 1
    <3>1. q \in 1 .. lu /\ la + q \in 1 .. la + lu /\ w - 1 = lp
      BY <2>2, <1>1, <1>2
    <3> QED BY <3>1, <1>2
  <2> QED BY <2>1, <2>2
<1> QED BY <1>2, <1>5, <1>6, <1>7 DEF ArrivedInOrder, InstrOf

LEMMA ArriveKeeps ==
  ASSUME RenamingInv, NEW instr \in Instructions, Arrive(instr)
  PROVE  RenamingInv'
<1> USE DEF RenamingInv
<1>1. RenamerTypeOK'
  <2>1. numRead \in 0 .. Len(arrived')
    BY ArriveEffect, NextInstrType, InstructionsAssumption
  <2> QED BY <2>1, ArriveEffect DEF RenamerInv, RenamerTypeOK
<1>2. ArrivedInOrder'
  BY ArriveInOrder
<1>3. /\ \A w \in 1 .. Len(program) : program'[w] = program[w]
      /\ \A k \in 1 .. Len(arrived) : arrived'[k] = arrived[k]
      /\ Output' = Output
      /\ UNCHANGED <<names, numAllocated, numRead>>
  BY ArriveEffect
<1>4. \A k \in 1 .. Len(arrived) :
        /\ InstrOf(arrived[k])' = InstrOf(arrived[k])
        /\ NumRenames(InstrOf(arrived[k]), arrived[k])' =
             NumRenames(InstrOf(arrived[k]), arrived[k])
  BY <1>3, ArrivedFacts DEF InstrOf, NumRenames, IsLastUop
<1>5. OutputIsNamed'
  <2>1. \A k \in 1 .. numRead : k \in 1 .. Len(arrived) /\ arrived'[k] = arrived[k]
    BY <1>3, NextInstrType
  <2>2. ASSUME NEW k \in 1 .. numRead
        PROVE  /\ Output[k].id = arrived'[k]
               /\ \E a \in 0 .. numAllocated :
                    /\ a + NumRenames(InstrOf(arrived[k]), arrived[k])' <= numAllocated
                    /\ Output[k].defs =
                         a + 1 .. a + NumRenames(InstrOf(arrived[k]), arrived[k])'
    BY <2>1, <1>4 DEF OutputIsNamed, RenamerInv
  <2>3. /\ Len(Output) = numRead
        /\ \A j, k \in 1 .. numRead : j < k => Output[j].defs \cap Output[k].defs = {}
    BY DEF OutputIsNamed, RenamerInv
  <2> QED BY <2>2, <2>3, <1>3 DEF OutputIsNamed
<1>6. NextInstr' = NextInstr
  <2>1. CASE HasUop
    BY <2>1, <1>3, ArriveEffect, NextInstrType, InstructionsAssumption
       DEF NextInstr, HasUop, HeadUop
  <2>2. CASE ~ HasUop
    <3>1. numRead = Len(arrived) /\ 1 \in 1 .. Len(instr.uops)
      BY <2>2, NextInstrType, InstructionsAssumption DEF HasUop
    <3>2. HasUop' /\ HeadUop' = [instr |-> Len(program), index |-> 0]
      <4>1. /\ arrived'[Len(arrived) + 1] = [instr |-> Len(program), index |-> 1 - 1]
            /\ Len(arrived') = Len(arrived) + Len(instr.uops)
        BY <3>1, ArriveEffect
      <4>2. Len(arrived) \in Nat /\ Len(instr.uops) \in Nat \ {0} /\ numRead' = Len(arrived)
        BY <3>1, <1>3, NextInstrType, InstructionsAssumption
      <4> QED BY <4>1, <4>2 DEF HasUop, HeadUop
    <3> QED BY <2>2, <3>2 DEF NextInstr
  <2> QED BY <2>1, <2>2
<1>7. ASSUME NEW i \in 1 .. Len(program) + 1
      PROVE  /\ \A x : Writers(i, x)' = Writers(i, x)
             /\ \A x, n : IsLastName(i, x, n) => IsLastName(i, x, n)'
  <2>1. /\ Len(program) \in Nat /\ numRead \in Nat /\ numRead' = numRead
        /\ numAllocated \in Nat /\ numAllocated' = numAllocated
    BY <1>3, NextInstrType
  <2> QED BY <2>1, <1>3, WritersKept, LastNameKept
<1>8. NamesAreLast'
  <2> SUFFICES ASSUME NEW i \in 1 .. Len(program') + 1, i = NextInstr', NEW x \in Units
               PROVE  IF Writers(i, x)' = {} THEN names'[x] = 0
                                             ELSE IsLastName(i, x, names[x])'
    BY DEF NamesAreLast
  <2>1. i = NextInstr /\ i \in 1 .. Len(program) + 1
    BY <1>6, NextInstrType
  <2>2. PICK n : n = names[x]
    OBVIOUS
  <2>3. IF Writers(i, x) = {} THEN n = 0 ELSE IsLastName(i, x, n)
    BY <2>1, <2>2 DEF NamesAreLast
  <2>4. IF Writers(i, x)' = {} THEN n = 0 ELSE IsLastName(i, x, n)'
    BY <2>1, <2>3, <1>7
  <2>5. names' = names
    BY <1>3
  <2> QED BY <2>2, <2>4, <2>5 DEF IsLastName
<1>9. UsesAreLast'
  <2> SUFFICES ASSUME NEW k \in 1 .. numRead', NEW i \in 1 .. Len(program'),
                      i = arrived'[k].instr + 1
               PROVE  UsesOfFirst(k, i)'
    BY DEF UsesAreLast
  <2>1. k \in 1 .. numRead /\ k \in 1 .. Len(arrived) /\ arrived'[k] = arrived[k]
    BY <1>3, NextInstrType
  <2>2. i \in 1 .. Len(program) /\ i \in 1 .. Len(program) + 1
    BY <2>1, ArrivedFacts, NextInstrType
  <2>3. UsesOfFirst(k, i) /\ program'[i] = program[i]
    BY <2>1, <2>2, <1>3 DEF UsesAreLast
  <2> QED BY <2>1, <2>2, <2>3, <1>3, <1>7 DEF UsesOfFirst
<1> QED BY <1>1, <1>2, <1>5, <1>8, <1>9 DEF RenamerInv

-----------------------------------------------------------------------------
(* Renaming a uop.                                                         *)

Renames ==
  /\ HasUop
  /\ CorePopulateUop(InstrOf(HeadUop), HeadUop)
  /\ Output' = Append(Output, PopulatedUop(InstrOf(HeadUop), HeadUop))
  /\ numRead' = numRead + 1
  /\ UNCHANGED <<program, arrived>>

\* The d-th register of instr is the last one, of the first n, that holds x.
LastDef(instr, n, x, d) ==
  /\ d \in 1 .. n /\ x \in instr.defs[d]
  /\ \A e \in 1 .. n : x \in instr.defs[e] => e <= d

LEMMA NamesEffect ==
  ASSUME RenamerInv, NEW instr \in Instructions, NEW id \in Ids, NEW n \in Nat,
         n = NumRenames(instr, id), CorePopulateUop(instr, id)
  PROVE  /\ numAllocated' = numAllocated + n
         /\ names' \in [Units -> 0 .. numAllocated']
         /\ \A x \in Units :
              \/ names'[x] = names[x] /\ \A d \in 1 .. n : x \notin instr.defs[d]
              \/ \E d : LastDef(instr, n, x, d) /\ names'[x] = numAllocated + d
<1>1. /\ numAllocated' = numAllocated + n
      /\ names' = [x \in Units |->
           IF {f \in 1 .. n : x \in instr.defs[f]} = {} THEN names[x]
           ELSE numAllocated + (CHOOSE d \in {f \in 1 .. n : x \in instr.defs[f]} :
                                  \A e \in {f \in 1 .. n : x \in instr.defs[f]} : e <= d)]
  BY DEF CorePopulateUop, NewName
<1>2. numAllocated \in Nat /\ names \in [Units -> 0 .. numAllocated]
  BY DEF RenamerInv, RenamerTypeOK
<1>3. ASSUME NEW x \in Units
      PROVE  /\ names'[x] \in 0 .. numAllocated + n
             /\ \/ names'[x] = names[x] /\ \A d \in 1 .. n : x \notin instr.defs[d]
                \/ \E d : LastDef(instr, n, x, d) /\ names'[x] = numAllocated + d
  <2>1. PICK setters \in SUBSET (1 .. n) : setters = {f \in 1 .. n : x \in instr.defs[f]}
    OBVIOUS
  <2>2. names'[x] = IF setters = {} THEN names[x]
                    ELSE numAllocated + (CHOOSE d \in setters : \A e \in setters : e <= d)
    BY <1>1, <2>1
  <2>3. CASE setters = {}
    BY <2>1, <2>2, <2>3, <1>2
  <2>4. CASE setters # {}
    <3>1. PICK m \in setters : \A e \in setters : e <= m
      BY <2>4, MaximumExists
    <3>2. setters \in SUBSET Nat
      OBVIOUS
    <3>3. (CHOOSE d \in setters : \A e \in setters : e <= d) = m
      BY <3>1, <3>2, MaxIs
    <3>4. names'[x] = numAllocated + m /\ m \in 1 .. n
      BY <2>2, <2>4, <3>3
    <3>5. LastDef(instr, n, x, m)
      BY <2>1, <3>1, <3>4 DEF LastDef
    <3> QED BY <3>4, <3>5, <1>2
  <2> QED BY <2>3, <2>4
<1>4. names' \in [Units -> 0 .. numAllocated + n]
  <2>1. names' = [x \in Units |-> names'[x]]
    BY <1>1
  <2> QED BY <2>1, <1>3
<1> QED BY <1>1, <1>3, <1>4

UsesOf(instr, id) == IF id.index = 0 THEN {names[x] : x \in instr.uses} \ {0} ELSE {}

LEMMA PopulatedUopIs ==
  ASSUME RenamerInv, NEW instr \in Instructions, NEW id \in Ids, NEW n \in Nat,
         n = NumRenames(instr, id), id.index + 1 \in 1 .. Len(instr.uops)
  PROVE  /\ PopulatedUop(instr, id) \in RenamedUops
         /\ PopulatedUop(instr, id).id = id
         /\ PopulatedUop(instr, id).defs = numAllocated + 1 .. numAllocated + n
         /\ PopulatedUop(instr, id).uses = UsesOf(instr, id)
<1>1. numAllocated \in Nat /\ names \in [Units -> 0 .. numAllocated]
  BY DEF RenamerInv, RenamerTypeOK
<1>2. {NewName(d) : d \in 1 .. n} = numAllocated + 1 .. numAllocated + n
  <2>1. ASSUME NEW v \in numAllocated + 1 .. numAllocated + n
        PROVE  \E d \in 1 .. n : v = numAllocated + d
    <3>1. v - numAllocated \in 1 .. n /\ v = numAllocated + (v - numAllocated)
      BY <1>1
    <3> QED BY <3>1
  <2>2. \A d \in 1 .. n : numAllocated + d \in numAllocated + 1 .. numAllocated + n
    BY <1>1
  <2> QED BY <2>1, <2>2 DEF NewName
<1>3. instr.uops[id.index + 1].ports \in PortSets
  BY DEF PortSets
<1>4. {names[x] : x \in instr.uses} \in SUBSET Nat
  BY <1>1, InstructionsAssumption
<1>5. PICK defs \in SUBSET Nat : defs = numAllocated + 1 .. numAllocated + n
  BY <1>1
<1>6. PICK uses \in SUBSET Nat :
        uses = UsesOf(instr, id)
  BY <1>4 DEF UsesOf
<1>7. PICK ports \in PortSets : ports = instr.uops[id.index + 1].ports
  BY <1>3
<1>8. PopulatedUop(instr, id) = [id |-> id, uses |-> uses, defs |-> defs, ports |-> ports]
  BY <1>2, <1>5, <1>6, <1>7 DEF PopulatedUop, NameDeps, UsesOf
<1>9. [id |-> id, uses |-> uses, defs |-> defs, ports |-> ports] \in RenamedUops
  BY DEF RenamedUops
<1> QED BY <1>5, <1>6, <1>8, <1>9

\* uop, the id of instr, takes the next n names.
RenamesAs(id, instr, n, uop) ==
  /\ numRead + 1 \in 1 .. Len(arrived)
  /\ id = arrived[numRead + 1]
  /\ id.instr + 1 \in 1 .. Len(program)
  /\ instr = program[id.instr + 1]
  /\ n = NumRenames(instr, id)
  /\ id.index + 1 \in 1 .. Len(instr.uops)
  /\ uop = PopulatedUop(instr, id)
  /\ uop.id = id
  /\ uop.defs = numAllocated + 1 .. numAllocated + n
  /\ uop.uses = UsesOf(instr, id)
  /\ Len(Output') = numRead + 1
  /\ \A k \in 1 .. numRead : Output'[k] = Output[k]
  /\ Output'[numRead + 1] = uop
  /\ numAllocated' = numAllocated + n
  /\ names' \in [Units -> 0 .. numAllocated']
  /\ \A x \in Units :
       \/ names'[x] = names[x] /\ \A d \in 1 .. n : x \notin instr.defs[d]
       \/ \E d : LastDef(instr, n, x, d) /\ names'[x] = numAllocated + d

LEMMA RenameEffect ==
  ASSUME RenamerInv, Renames
  PROVE  \E id \in Ids, instr \in Instructions, n \in Nat, uop \in RenamedUops :
           RenamesAs(id, instr, n, uop)
<1>1. numRead + 1 \in 1 .. Len(arrived)
  BY NextInstrType DEF Renames
<1>2. PICK id \in Ids : id = arrived[numRead + 1]
  BY <1>1, ArrivedFacts
<1>3. id.instr + 1 \in 1 .. Len(program) /\ InstrOf(id) = program[id.instr + 1]
  BY <1>1, <1>2, ArrivedFacts
<1>4. PICK instr \in Instructions : instr = InstrOf(id)
  BY <1>1, <1>2, ArrivedFacts
<1>5. PICK n \in Nat : n = NumRenames(instr, id)
  BY <1>1, <1>2, <1>4, ArrivedFacts
<1>6. id.index + 1 \in 1 .. Len(instr.uops)
  BY <1>1, <1>2, <1>4, ArrivedFacts
<1>7. PICK uop : uop = PopulatedUop(instr, id)
  OBVIOUS
<1>8. /\ uop \in RenamedUops /\ uop.id = id
      /\ uop.defs = numAllocated + 1 .. numAllocated + n
      /\ uop.uses = UsesOf(instr, id)
  <2>1. /\ PopulatedUop(instr, id) \in RenamedUops
        /\ PopulatedUop(instr, id).id = id
        /\ PopulatedUop(instr, id).defs = numAllocated + 1 .. numAllocated + n
        /\ PopulatedUop(instr, id).uses =
             UsesOf(instr, id)
    BY <1>5, <1>6, PopulatedUopIs
  <2> QED BY <2>1, <1>7
<1>9. CorePopulateUop(instr, id) /\ Output' = Append(Output, uop)
  BY <1>2, <1>4, <1>7 DEF Renames, HeadUop
<1>10. Output \in Seq(RenamedUops) /\ Len(Output) = numRead
  BY OutputType DEF RenamerInv, OutputIsNamed
<1>11. /\ Len(Output') = numRead + 1
       /\ \A k \in 1 .. numRead : Output'[k] = Output[k]
       /\ Output'[numRead + 1] = uop
  BY <1>8, <1>9, <1>10, AppendProperties
<1>12. /\ numAllocated' = numAllocated + n
       /\ names' \in [Units -> 0 .. numAllocated']
       /\ \A x \in Units :
            \/ names'[x] = names[x] /\ \A d \in 1 .. n : x \notin instr.defs[d]
            \/ \E d : LastDef(instr, n, x, d) /\ names'[x] = numAllocated + d
  BY <1>5, <1>9, NamesEffect
<1>13. RenamesAs(id, instr, n, uop)
  BY <1>1, <1>2, <1>3, <1>4, <1>5, <1>6, <1>7, <1>8, <1>11, <1>12 DEF RenamesAs
<1> QED BY <1>8, <1>13

LEMMA RenameNames ==
  ASSUME RenamerInv, Renames
  PROVE  ArrivedInOrder' /\ OutputIsNamed'
<1>1. ArrivedInOrder'
  BY DEF Renames, RenamerInv, ArrivedInOrder, InstrOf, Before
<1>2. PICK id \in Ids, instr \in Instructions, n \in Nat, uop \in RenamedUops :
        RenamesAs(id, instr, n, uop)
  BY RenameEffect
<1>13. /\ numRead + 1 \in 1 .. Len(arrived) /\ id = arrived[numRead + 1]
       /\ id.instr + 1 \in 1 .. Len(program) /\ instr = program[id.instr + 1]
       /\ n = NumRenames(instr, id) /\ uop.id = id
       /\ uop.defs = numAllocated + 1 .. numAllocated + n
       /\ Len(Output') = numRead + 1
       /\ \A k \in 1 .. numRead : Output'[k] = Output[k]
       /\ Output'[numRead + 1] = uop
       /\ numAllocated' = numAllocated + n
  BY <1>2 DEF RenamesAs
<1>3. PICK r \in Nat, a \in Nat : r = numRead /\ a = numAllocated
  BY NextInstrType
<1>4. numRead' = r + 1 /\ arrived' = arrived /\ program' = program /\ numAllocated' = a + n
  BY <1>13, <1>3 DEF Renames
<1>5. ASSUME NEW k
      PROVE  NumRenames(InstrOf(arrived[k]), arrived[k])' =
               NumRenames(InstrOf(arrived[k]), arrived[k])
  <2>1. InstrOf(arrived[k])' = InstrOf(arrived[k]) /\ arrived'[k] = arrived[k]
    BY <1>4 DEF InstrOf
  <2> QED BY <2>1 DEF NumRenames, IsLastUop
<1>6. \A k \in 1 .. r :
        /\ Output[k].id = arrived[k]
        /\ \E b \in 0 .. a :
             /\ b + NumRenames(InstrOf(arrived[k]), arrived[k]) <= a
             /\ Output[k].defs =
                  b + 1 .. b + NumRenames(InstrOf(arrived[k]), arrived[k])
  BY <1>3 DEF RenamerInv, OutputIsNamed
<1>7. ASSUME NEW k \in 1 .. r
      PROVE  Output[k].defs \subseteq 1 .. a
  <2>1. PICK m \in Nat : m = NumRenames(InstrOf(arrived[k]), arrived[k])
    BY <1>3, NextInstrType, ArrivedFacts
  <2>2. PICK b \in 0 .. a : b + m <= a /\ Output[k].defs = b + 1 .. b + m
    BY <2>1, <1>6
  <2>3. b + 1 .. b + m \subseteq 1 .. a
    BY <2>2
  <2> QED BY <2>2, <2>3
<1>8. uop.defs = a + 1 .. a + n
  BY <1>13, <1>3
<1>9. ASSUME NEW k \in 1 .. r + 1
      PROVE  /\ Output'[k].id = arrived[k]
             /\ \E b \in 0 .. a + n :
                  /\ b + NumRenames(InstrOf(arrived[k]), arrived[k]) <= a + n
                  /\ Output'[k].defs =
                       b + 1 .. b + NumRenames(InstrOf(arrived[k]), arrived[k])
  <2>1. CASE k \in 1 .. r
    <3>1. PICK m \in Nat : m = NumRenames(InstrOf(arrived[k]), arrived[k])
      BY <2>1, <1>3, NextInstrType, ArrivedFacts
    <3>2. PICK b \in 0 .. a : b + m <= a /\ Output[k].defs = b + 1 .. b + m
      BY <2>1, <3>1, <1>6
    <3>3. b \in 0 .. a + n /\ b + m <= a + n
      BY <3>2
    <3>4. Output'[k] = Output[k] /\ Output[k].id = arrived[k]
      BY <2>1, <1>13, <1>3, <1>6
    <3> QED BY <3>1, <3>2, <3>3, <3>4
  <2>2. CASE k = r + 1
    <3>1. Output'[k] = uop /\ id = arrived[k]
      BY <2>2, <1>13, <1>3
    <3>2. NumRenames(InstrOf(arrived[k]), arrived[k]) = n
      BY <3>1, <1>13 DEF InstrOf
    <3>3. a \in 0 .. a + n /\ a + n <= a + n
      OBVIOUS
    <3> QED BY <3>1, <3>2, <3>3, <1>13, <1>8
  <2> QED BY <2>1, <2>2
<1>10. ASSUME NEW j \in 1 .. r + 1, NEW k \in 1 .. r + 1, j < k
       PROVE  Output'[j].defs \cap Output'[k].defs = {}
  <2>1. j \in 1 .. r /\ Output'[j] = Output[j]
    BY <1>10, <1>13, <1>3
  <2>2. CASE k \in 1 .. r
    BY <2>1, <2>2, <1>13, <1>3, <1>10 DEF RenamerInv, OutputIsNamed
  <2>3. CASE k = r + 1
    <3>1. Output'[k].defs = a + 1 .. a + n
      BY <2>3, <1>13, <1>3, <1>8
    <3> QED BY <3>1, <2>1, <1>7
  <2> QED BY <2>2, <2>3
<1>11. Len(Output') = r + 1
  BY <1>13, <1>3
<1>12. OutputIsNamed'
  BY <1>4, <1>5, <1>9, <1>10, <1>11 DEF OutputIsNamed
<1> QED BY <1>1, <1>12

\* After the last uop of an instruction comes the next instruction.
LEMMA NextInstrStep ==
  ASSUME RenamerInv, Renames, NEW id \in Ids, id = arrived[numRead + 1]
  PROVE  /\ NextInstr = id.instr + 1
         /\ NextInstr' = IF IsLastUop(program[id.instr + 1], id) THEN id.instr + 2
                                                                 ELSE id.instr + 1
<1>1. PICK k \in 1 .. Len(arrived) : k = numRead + 1
  BY NextInstrType DEF Renames
<1>2. PICK la \in Nat, lp \in Nat : la = Len(arrived) /\ lp = Len(program)
  BY NextInstrType
<1>3. PICK w \in 1 .. lp, i \in Nat :
        w = id.instr + 1 /\ w + 1 = id.instr + 2 /\ i = id.index
  BY <1>1, <1>2, ArrivedFacts DEF Ids
<1>4. PICK u \in Nat \ {0} : u = Len(program[w].uops)
  BY <1>2, <1>3, InstructionFacts DEF RenamerInv
<1>5. i + 1 \in 1 .. u /\ (IsLastUop(program[id.instr + 1], id) <=> i + 1 = u)
  BY <1>1, <1>3, <1>4, ArrivedFacts DEF IsLastUop
<1>6. NextInstr = w
  BY <1>1, <1>3 DEF Renames, NextInstr, HeadUop
<1>7. NextInstr' = IF k < la THEN arrived[k + 1].instr + 1 ELSE lp + 1
  BY <1>1, <1>2 DEF Renames, NextInstr, HasUop, HeadUop
<1>8. ASSUME NEW p \in 1 .. la
      PROVE  \E v \in 1 .. lp, j \in Nat :
               /\ arrived[p].instr = v - 1 /\ arrived[p].index = j
               /\ j + 1 \in 1 .. Len(program[v].uops)
  <2>1. PICK v \in 1 .. lp, j \in Nat : v = arrived[p].instr + 1 /\ j = arrived[p].index
    BY <1>2, ArrivedFacts
  <2>2. arrived[p].instr = v - 1 /\ j + 1 \in 1 .. Len(program[v].uops)
    BY <2>1, <1>2, ArrivedFacts
  <2> QED BY <2>1, <2>2
<1>9. \A p, q \in 1 .. la : p < q =>
        \/ arrived[p].instr < arrived[q].instr
        \/ arrived[p].instr = arrived[q].instr /\ arrived[p].index < arrived[q].index
  BY <1>2 DEF RenamerInv, ArrivedInOrder, Before
<1>10. arrived[k].instr = w - 1 /\ arrived[k].index = i /\ k \in 1 .. la
  <2>1. arrived[k].instr \in Nat /\ k \in 1 .. la
    BY <1>1, <1>2, ArrivedFacts
  <2> QED BY <2>1, <1>1, <1>2, <1>3
\* What comes after the k-th uop of the program has a later place.
<1>11. ASSUME NEW v \in 1 .. lp, NEW j \in Nat, j + 1 \in 1 .. Len(program[v].uops),
              w < v \/ (w = v /\ i < j)
       PROVE  \E p \in 1 .. la : k < p /\ arrived[p].instr = v - 1 /\ arrived[p].index = j
  <2>1. PICK q \in 1 .. Len(program[v].uops) : q = j + 1
    BY <1>11
  <2>2. PICK p \in 1 .. la : arrived[p] = [instr |-> v - 1, index |-> q - 1]
    BY <1>2 DEF RenamerInv, ArrivedInOrder
  <2>3. arrived[p].instr = v - 1 /\ arrived[p].index = j
    BY <2>1, <2>2
  <2>4. ~ (p < k)
    BY <1>9, <1>10, <1>11, <2>3
  <2>5. p # k
    <3> SUFFICES ASSUME p = k PROVE FALSE
      OBVIOUS
    <3>1. arrived[p].instr = w - 1 /\ arrived[p].index = i
      BY <1>10
    <3>2. v - 1 = w - 1 /\ j = i
      BY <3>1, <2>3
    <3>3. v = w
      BY <3>2
    <3> QED BY <3>2, <3>3, <1>11
  <2> QED BY <2>3, <2>4, <2>5, <1>10
<1>12. CASE k < la
  <2>1. k + 1 \in 1 .. la /\ k < k + 1
    BY <1>12, <1>10
  <2>2. PICK v \in 1 .. lp, j \in Nat :
          /\ arrived[k + 1].instr = v - 1 /\ arrived[k + 1].index = j
          /\ j + 1 \in 1 .. Len(program[v].uops)
    BY <2>1, <1>8
  <2>3. w < v \/ (w = v /\ i < j)
    BY <2>1, <2>2, <1>9, <1>10
  <2>4. NextInstr' = v
    BY <2>2, <1>7, <1>12
  <2>5. ASSUME NEW x \in 1 .. lp, NEW y \in Nat, y + 1 \in 1 .. Len(program[x].uops),
               w < x \/ (w = x /\ i < y)
        PROVE  v < x \/ (v = x /\ j <= y)
    <3>1. PICK p \in 1 .. la : k < p /\ arrived[p].instr = x - 1 /\ arrived[p].index = y
      BY <2>5, <1>11
    <3>2. p = k + 1 \/ k + 1 < p
      BY <3>1, <1>10
    <3> QED BY <3>1, <3>2, <2>1, <2>2, <1>9
  <2>6. CASE i + 1 = u
    <3>1. w < v
      BY <2>2, <2>3, <2>6, <1>4
    <3>2. w + 1 \in 1 .. lp
      BY <3>1
    <3>3. 0 + 1 \in 1 .. Len(program[w + 1].uops)
      BY <3>2, <1>2, InstructionFacts DEF RenamerInv
    <3>4. v < w + 1 \/ v = w + 1
      <4>1. 0 \in Nat /\ w < w + 1
        BY <3>2
      <4>2. v < w + 1 \/ (v = w + 1 /\ j <= 0)
        BY <4>1, <3>2, <3>3, <2>5, Zenon
      <4> QED BY <4>2
    <3>5. v = w + 1
      BY <3>1, <3>4
    <3> QED BY <3>5, <2>4, <2>6, <1>3, <1>5, <1>6
  <2>7. CASE i + 1 # u
    <3>1. i + 1 \in Nat /\ (i + 1) + 1 \in 1 .. Len(program[w].uops) /\ i < i + 1
      BY <2>7, <1>4, <1>5
    <3>2. v < w \/ v = w
      BY <3>1, <2>5
    <3>3. v = w
      BY <3>2, <2>3
    <3> QED BY <3>3, <2>4, <2>7, <1>3, <1>5, <1>6
  <2> QED BY <2>6, <2>7
<1>13. CASE ~ (k < la)
  <2>1. \A p \in 1 .. la : ~ (k < p)
    BY <1>13, <1>10
  <2>2. i + 1 = u
    <3>1. i + 1 # u => i + 1 \in Nat /\ (i + 1) + 1 \in 1 .. Len(program[w].uops) /\ i < i + 1
      BY <1>4, <1>5
    <3> QED BY <3>1, <2>1, <1>11
  <2>3. w = lp
    <3>1. w # lp => w + 1 \in 1 .. lp /\ w < w + 1
      OBVIOUS
    <3>2. w # lp => 0 + 1 \in 1 .. Len(program[w + 1].uops)
      BY <3>1, <1>2, InstructionFacts DEF RenamerInv
    <3> QED BY <3>1, <3>2, <2>1, <1>11
  <2> QED BY <2>2, <2>3, <1>3, <1>5, <1>6, <1>7, <1>13
<1> QED BY <1>12, <1>13

LEMMA RenameKeepsLast ==
  ASSUME RenamerInv, Renames, NEW i \in 1 .. Len(program) + 1
  PROVE  /\ \A x : Writers(i, x)' = Writers(i, x)
         /\ \A x, n : IsLastName(i, x, n) => IsLastName(i, x, n)'
<1>1. PICK id \in Ids, instr \in Instructions, n \in Nat, uop \in RenamedUops :
        RenamesAs(id, instr, n, uop)
  BY RenameEffect
<1>2. /\ \A k \in 1 .. numRead : Output'[k] = Output[k]
      /\ numAllocated' = numAllocated + n
  BY <1>1 DEF RenamesAs
<1>3. numRead' = numRead + 1 /\ program' = program
  BY DEF Renames
<1>4. /\ numRead' \in Nat /\ numRead <= numRead' /\ Len(program) \in Nat /\ numRead \in Nat
      /\ numAllocated' \in Nat /\ numAllocated <= numAllocated' /\ numAllocated \in Nat
      /\ \A w \in 1 .. Len(program) : program'[w] = program[w]
  BY <1>2, <1>3, NextInstrType
<1> QED BY <1>2, <1>4, WritersKept, LastNameKept

\* A named unit has a name.
LEMMA LastNamePositive ==
  ASSUME RenamerInv, NEW i, NEW x, NEW n, IsLastName(i, x, n)
  PROVE  n # 0 /\ Writers(i, x) # {}
<1>1. PICK w \in Writers(i, x) :
        \E d \in 1 .. Len(program[w].defs), k \in 1 .. numRead, a \in 0 .. numAllocated :
          n = a + d
  BY DEF IsLastName
<1>2. PICK d \in 1 .. Len(program[w].defs), a \in 0 .. numAllocated : n = a + d
  BY <1>1
<1> QED BY <1>1, <1>2

LEMMA RenameNamesLast ==
  ASSUME RenamingInv, Renames
  PROVE  NamesAreLast'
<1> USE DEF RenamingInv
<1>1. PICK id \in Ids, instr \in Instructions, n \in Nat, uop \in RenamedUops :
        RenamesAs(id, instr, n, uop)
  BY RenameEffect
<1>2. /\ id = arrived[numRead + 1] /\ instr = program[id.instr + 1]
      /\ n = NumRenames(instr, id) /\ uop.id = id
      /\ id.instr + 1 \in 1 .. Len(program)
      /\ uop.defs = numAllocated + 1 .. numAllocated + n
      /\ Output'[numRead + 1] = uop
      /\ numAllocated' = numAllocated + n
      /\ \A x \in Units :
           \/ names'[x] = names[x] /\ \A d \in 1 .. n : x \notin instr.defs[d]
           \/ \E d : LastDef(instr, n, x, d) /\ names'[x] = numAllocated + d
  BY <1>1 DEF RenamesAs
<1>3. PICK w \in 1 .. Len(program) : w = id.instr + 1
  BY <1>2
<1>4. /\ NextInstr = w
      /\ NextInstr' = IF IsLastUop(instr, id) THEN w + 1 ELSE w
  BY <1>2, <1>3, NextInstrStep DEF Ids
<1>5. /\ instr = program[w] /\ instr.defs \in Seq(SUBSET Units) /\ Len(instr.defs) \in Nat
      /\ Len(program) \in Nat
  BY <1>2, <1>3, InstructionFacts, NextInstrType DEF RenamerInv
<1>6. program' = program /\ numRead' = numRead + 1 /\ numRead \in Nat /\ numAllocated \in Nat
  BY NextInstrType DEF Renames
<1>7. w \in 1 .. Len(program) + 1 /\ w + 1 \in 1 .. Len(program) + 1
  BY <1>5
<1>8. \A x \in Units : IF Writers(w, x) = {} THEN names[x] = 0 ELSE IsLastName(w, x, names[x])
  BY <1>4, <1>7 DEF NamesAreLast
\* What the uop does not name keeps its name.
<1>9. ASSUME NEW x \in Units, NEW m, m = names[x]
      PROVE  IF Writers(w, x)' = {} THEN m = 0 ELSE IsLastName(w, x, m)'
  BY <1>7, <1>8, <1>9, RenameKeepsLast
<1>10. ASSUME NEW x \in Units, NEW m, m = names[x], IsLastUop(instr, id),
              \A d \in 1 .. n : x \notin instr.defs[d]
       PROVE  IF Writers(w + 1, x)' = {} THEN m = 0 ELSE IsLastName(w + 1, x, m)'
  <2>1. n = Len(instr.defs) /\ DOMAIN instr.defs = 1 .. n
    BY <1>2, <1>5, <1>10 DEF NumRenames
  <2>2. Writers(w + 1, x)' = Writers(w, x)'
    <3>1. ~ \E d \in DOMAIN program'[w].defs : x \in program'[w].defs[d]
      BY <2>1, <1>5, <1>6, <1>10
    <3>2. \A v \in 1 .. (w + 1) - 1 : v # w => v \in 1 .. w - 1
      OBVIOUS
    <3>3. \A v \in 1 .. w - 1 : v \in 1 .. (w + 1) - 1
      OBVIOUS
    <3> QED BY <3>1, <3>2, <3>3 DEF Writers
  <2>3. IsLastName(w, x, m)' => IsLastName(w + 1, x, m)'
    BY <2>2 DEF IsLastName
  <2> QED BY <2>2, <2>3, <1>9, <1>10
\* What it names has the name of the last register that holds it.
<1>11. ASSUME NEW x \in Units, NEW m, NEW d, LastDef(instr, n, x, d), m = numAllocated + d
       PROVE  /\ IsLastUop(instr, id)
              /\ IsLastName(w + 1, x, m)'
              /\ Writers(w + 1, x)' # {}
  <2>1. d \in 1 .. n /\ x \in instr.defs[d] /\ \A e \in 1 .. n : x \in instr.defs[e] => e <= d
    BY <1>11 DEF LastDef
  <2>2. IsLastUop(instr, id) /\ n = Len(instr.defs) /\ DOMAIN instr.defs = 1 .. n
    BY <2>1, <1>2, <1>5 DEF NumRenames
  <2>3. program'[w] = instr
    BY <1>5, <1>6
  <2>4. w \in Writers(w + 1, x)' /\ \A v \in Writers(w + 1, x)' : v <= w
    <3>1. w \in 1 .. (w + 1) - 1 /\ \A v \in 1 .. (w + 1) - 1 : v <= w
      OBVIOUS
    <3> QED BY <3>1, <2>1, <2>2, <2>3 DEF Writers
  <2>5. id = LastUopId(w)'
    <3>1. id = [instr |-> id.instr, index |-> id.index] /\ id.instr \in Nat /\ id.index \in Nat
      BY DEF Ids
    <3>2. PICK u \in Nat : u = Len(instr.uops)
      BY <1>5, InstructionFacts DEF RenamerInv
    <3>3. id.index + 1 = u
      BY <3>2, <2>2 DEF IsLastUop
    <3>4. PICK i \in Nat : i = id.index
      BY <3>1
    <3>5. i = u - 1
      BY <3>2, <3>3, <3>4
    <3>6. id.instr = w - 1 /\ id.index = u - 1
      BY <3>1, <3>4, <3>5, <1>3
    <3> QED BY <3>1, <3>2, <3>6, <2>3 DEF LastUopId
  <2>6. PICK k \in 1 .. numRead', a \in 0 .. numAllocated' :
          k = numRead + 1 /\ a = numAllocated
    <3>1. numRead + 1 \in 1 .. numRead'
      BY <1>6
    <3>2. numAllocated \in 0 .. numAllocated'
      BY <1>2, <1>6
    <3> QED BY <3>1, <3>2
  <2>7. /\ Output'[k].id = LastUopId(w)'
        /\ Output'[k].defs = a + 1 .. a + Len(program'[w].defs)
        /\ m = a + d
    BY <2>2, <2>3, <2>5, <2>6, <1>2, <1>11
  <2>8. /\ d \in 1 .. Len(program'[w].defs) /\ x \in program'[w].defs[d]
        /\ \A e \in 1 .. Len(program'[w].defs) : x \in program'[w].defs[e] => e <= d
    BY <2>1, <2>2, <2>3
  <2>9. IsLastName(w + 1, x, m)'
    BY <2>4, <2>7, <2>8 DEF IsLastName
  <2> QED BY <2>2, <2>4, <2>9
<1> SUFFICES ASSUME NEW i \in 1 .. Len(program') + 1, i = NextInstr', NEW x \in Units
             PROVE  IF Writers(i, x)' = {} THEN names'[x] = 0
                                           ELSE IsLastName(i, x, names[x])'
  BY DEF NamesAreLast
<1>12. PICK m : m = names'[x]
  OBVIOUS
<1>13. IF Writers(i, x)' = {} THEN m = 0 ELSE IsLastName(i, x, m)'
  <2>1. CASE names'[x] = names[x] /\ \A d \in 1 .. n : x \notin instr.defs[d]
    BY <2>1, <1>4, <1>9, <1>10, <1>12
  <2>2. CASE \E d : LastDef(instr, n, x, d) /\ names'[x] = numAllocated + d
    BY <2>2, <1>4, <1>11, <1>12
  <2> QED BY <2>1, <2>2, <1>2
<1> QED BY <1>12, <1>13 DEF IsLastName

LEMMA RenameUsesLast ==
  ASSUME RenamingInv, Renames
  PROVE  UsesAreLast'
<1> USE DEF RenamingInv
<1>1. PICK id \in Ids, instr \in Instructions, n \in Nat, uop \in RenamedUops :
        RenamesAs(id, instr, n, uop)
  BY RenameEffect
<1>2. /\ id = arrived[numRead + 1] /\ instr = program[id.instr + 1]
      /\ uop.uses = UsesOf(instr, id)
      /\ id.instr + 1 \in 1 .. Len(program)
      /\ Output'[numRead + 1] = uop
      /\ \A k \in 1 .. numRead : Output'[k] = Output[k]
  BY <1>1 DEF RenamesAs
<1>3. program' = program /\ arrived' = arrived /\ numRead' = numRead + 1 /\ numRead \in Nat
      /\ Len(program) \in Nat
  BY NextInstrType DEF Renames
<1> SUFFICES ASSUME NEW k \in 1 .. numRead', NEW i \in 1 .. Len(program'),
                    i = arrived'[k].instr + 1
             PROVE  UsesOfFirst(k, i)'
  BY DEF UsesAreLast
<1>4. i \in 1 .. Len(program) /\ i \in 1 .. Len(program) + 1
  BY <1>3
<1>5. CASE k \in 1 .. numRead
  <2>1. UsesOfFirst(k, i) /\ Output'[k] = Output[k]
    BY <1>2, <1>3, <1>4, <1>5 DEF UsesAreLast
  <2> QED BY <2>1, <1>3, <1>4, RenameKeepsLast DEF UsesOfFirst
<1>6. CASE k = numRead + 1
  <2>1. i = NextInstr /\ Output'[k] = uop /\ arrived'[k] = id /\ program'[i] = instr
    BY <1>2, <1>3, <1>6, NextInstrStep
  <2>2. \A x \in Units : IF Writers(i, x) = {} THEN names[x] = 0 ELSE IsLastName(i, x, names[x])
    BY <2>1, <1>4 DEF NamesAreLast
  <2>3. instr.uses \in SUBSET Units
    BY InstructionsAssumption
  <2>4. CASE id.index # 0
    BY <2>1, <2>4, <1>2 DEF UsesOfFirst, UsesOf
  <2>5. CASE id.index = 0
    <3>1. uop.uses = {names[x] : x \in instr.uses} \ {0}
      BY <2>5, <1>2 DEF UsesOf
    <3>2. ASSUME NEW m \in uop.uses
          PROVE  \E x \in instr.uses : IsLastName(i, x, m)'
      <4>1. PICK x \in instr.uses : m = names[x] /\ m # 0
        BY <3>1
      <4>2. IsLastName(i, x, m)
        BY <4>1, <2>2, <2>3
      <4> QED BY <4>2, <1>4, RenameKeepsLast
    <3>3. ASSUME NEW x \in instr.uses, Writers(i, x)' # {}
          PROVE  \E m \in uop.uses : IsLastName(i, x, m)'
      <4>1. Writers(i, x) # {}
        BY <3>3, <1>4, RenameKeepsLast
      <4>2. PICK m : m = names[x] /\ IsLastName(i, x, m)
        BY <4>1, <2>2, <2>3
      <4>3. m \in uop.uses
        BY <4>2, <3>1, LastNamePositive
      <4> QED BY <4>2, <4>3, <1>4, RenameKeepsLast
    <3> QED BY <3>2, <3>3, <2>1, <2>5 DEF UsesOfFirst
  <2> QED BY <2>4, <2>5
<1> QED BY <1>3, <1>5, <1>6

-----------------------------------------------------------------------------
(* The renamer as a whole.                                                 *)

LEMMA RenamerInitInv == TickInit => RenamingInv
<1> SUFFICES ASSUME TickInit PROVE RenamingInv
  OBVIOUS
<1>1. /\ names = [x \in Units |-> 0] /\ numAllocated = 0 /\ pendingUop = NoUop
      /\ budget = 0 /\ numRead = 0 /\ program = << >> /\ arrived = << >> /\ sent = << >>
  BY DEF TickInit, RenamerInit
<1>2. Len(program) = 0 /\ Len(arrived) = 0 /\ Output = << >> /\ Len(Output) = 0
  BY <1>1 DEF Output
<1>3. RenamerTypeOK
  <2>1. program \in Seq(Instructions) /\ arrived \in Seq(Ids) /\ sent \in Seq(RenamedUops)
    BY <1>1, EmptySeq
  <2>2. names \in [Units -> 0 .. numAllocated]
    BY <1>1
  <2> QED BY <1>1, <1>2, <2>1, <2>2 DEF RenamerTypeOK
<1>4. ArrivedInOrder
  BY <1>2 DEF ArrivedInOrder
<1>5. OutputIsNamed
  BY <1>1, <1>2 DEF OutputIsNamed
<1>6. NamesAreLast
  <2>1. \A i \in 1 .. Len(program) + 1 : \A x : Writers(i, x) = {}
    BY <1>2 DEF Writers
  <2> QED BY <2>1, <1>1 DEF NamesAreLast
<1>7. UsesAreLast
  BY <1>1 DEF UsesAreLast
<1> QED BY <1>3, <1>4, <1>5, <1>6, <1>7 DEF RenamingInv, RenamerInv

\* Whether the sink takes the uop or not, it is renamed.
LEMMA RenameSteps ==
  ASSUME NoUop \notin RenamedUops, RenamingInv, RenameUop \/ RenameUopRefused
  PROVE  Renames /\ RenamerTypeOK'
<1> USE DEF RenamingInv
<1>1. /\ HasUop /\ CorePopulateUop(InstrOf(HeadUop), HeadUop)
      /\ numRead' = numRead + 1 /\ program' = program /\ arrived' = arrived
      /\ budget \in Nat /\ budget > 0 /\ pendingUop = NoUop
  BY DEF RenameUop, RenameUopRefused, RenamerInv, RenamerTypeOK
<1>2. PICK id \in Ids, instr \in Instructions, n \in Nat, uop \in RenamedUops :
        /\ id = HeadUop /\ instr = InstrOf(id) /\ n = NumRenames(instr, id)
        /\ uop = PopulatedUop(InstrOf(HeadUop), HeadUop)
  <2>1. numRead + 1 \in 1 .. Len(arrived)
    BY <1>1, NextInstrType
  <2>2. PICK id \in Ids, instr \in Instructions, n \in Nat :
          /\ id = HeadUop /\ instr = InstrOf(id) /\ n = NumRenames(instr, id)
          /\ id.index + 1 \in 1 .. Len(instr.uops)
    BY <2>1, ArrivedFacts DEF HeadUop
  <2>3. PopulatedUop(instr, id) \in RenamedUops
    BY <2>2, PopulatedUopIs
  <2> QED BY <2>2, <2>3
<1>3. \/ sent' = Append(sent, uop) /\ pendingUop' = pendingUop /\ budget' = budget - 1
      \/ sent' = sent /\ pendingUop' = uop /\ budget' = 0
  BY <1>2 DEF RenameUop, RenameUopRefused
<1>4. Output' = Append(Output, uop)
  BY <1>1, <1>2, <1>3 DEF Output
<1>5. numAllocated' = numAllocated + n /\ names' \in [Units -> 0 .. numAllocated']
  BY <1>1, <1>2, NamesEffect
<1>6. /\ program \in Seq(Instructions) /\ arrived \in Seq(Ids) /\ numAllocated \in Nat
      /\ numRead \in 0 .. Len(arrived) /\ Len(arrived) \in Nat /\ sent \in Seq(RenamedUops)
      /\ numRead + 1 \in 1 .. Len(arrived)
  BY <1>1, NextInstrType DEF RenamerInv, RenamerTypeOK
<1>7. sent' \in Seq(RenamedUops) /\ pendingUop' \in RenamedUops \cup {NoUop}
  <2>1. Append(sent, uop) \in Seq(RenamedUops)
    BY <1>6, AppendProperties
  <2> QED BY <2>1, <1>1, <1>3, <1>6
<1>8. budget' \in Nat /\ (budget' > 0 => pendingUop' = NoUop)
  BY <1>1, <1>3
<1>9. numAllocated' \in Nat /\ numRead' \in 0 .. Len(arrived')
  BY <1>1, <1>5, <1>6
<1>10. RenamerTypeOK'
  BY <1>1, <1>5, <1>6, <1>7, <1>8, <1>9 DEF RenamerTypeOK
<1> QED BY <1>1, <1>2, <1>4, <1>10 DEF Renames

LEMMA RenamerNextInv ==
  ASSUME NoUop \notin RenamedUops
  PROVE  RenamingInv /\ [TickNext]_tickVars => RenamingInv'
<1> SUFFICES ASSUME RenamingInv, [TickNext]_tickVars PROVE RenamingInv'
  OBVIOUS
<1>1. ASSUME NEW instr \in Instructions, Arrive(instr) PROVE RenamingInv'
  BY <1>1, ArriveKeeps
<1>2. CASE StartTick
  BY <1>2, StartTickKeeps
<1>3. CASE FlushPending
  BY <1>3, FlushPendingKeeps
<1>4. CASE RenameUop \/ RenameUopRefused
  <2>1. Renames /\ RenamerTypeOK'
    BY <1>4, RenameSteps
  <2>2. ArrivedInOrder' /\ OutputIsNamed'
    BY <2>1, RenameNames DEF RenamingInv
  <2>3. NamesAreLast' /\ UsesAreLast'
    BY <2>1, RenameNamesLast, RenameUsesLast
  <2> QED BY <2>1, <2>2, <2>3 DEF RenamingInv, RenamerInv
<1>5. CASE EndTick
  BY <1>5, EndTickKeeps
<1>6. CASE UNCHANGED tickVars
  <2>1. Output' = Output /\ UNCHANGED <<names, numAllocated, numRead, program, arrived>>
    BY <1>6 DEF tickVars, renamerVars, Output
  <2>2. RenamerTypeOK'
    BY <1>6 DEF tickVars, renamerVars, RenamingInv, RenamerInv, RenamerTypeOK
  <2> QED BY <2>1, <2>2, SameRenaming DEF RenamingInv, RenamerInv
<1> QED BY <1>1, <1>2, <1>3, <1>4, <1>5, <1>6 DEF TickNext

\* No physical register is given out twice, whatever arrives and whenever the
\* sink refuses a uop (RegisterRenamer::Tick and PopulateUop).
THEOREM NamesNeverRepeat ==
  ASSUME NoUop \notin RenamedUops
  PROVE  RenamerSpec => []NamesAreUnique
<1>1. RenamingInv => NamesAreUnique
  BY OutputType DEF RenamingInv, RenamerInv, OutputIsNamed, NamesAreUnique
<1> QED BY <1>1, RenamerInitInv, RenamerNextInv, PTL DEF RenamerSpec

-----------------------------------------------------------------------------
(* Only true dependencies remain.                                          *)

\* The uops of the program are all different.
LEMMA IdsDiffer ==
  ASSUME RenamerInv, NEW j \in 1 .. numRead, NEW k \in 1 .. numRead,
         Output[j].id = Output[k].id
  PROVE  j = k
<1>1. /\ j \in 1 .. Len(arrived) /\ k \in 1 .. Len(arrived)
      /\ arrived[j] = arrived[k]
  BY NextInstrType DEF RenamerInv, OutputIsNamed
<1>2. \A x \in Ids : ~ Before(x, x)
  BY DEF Before, Ids
<1>3. arrived[j] \in Ids
  BY <1>1, ArrivedFacts
<1>4. ~ (j < k) /\ ~ (k < j)
  BY <1>1, <1>2, <1>3 DEF RenamerInv, ArrivedInOrder
<1> QED BY <1>4

\* Of the names a + 1 .. a + n, the d-th is the one with d - 1 before it.
LEMMA NameAt ==
  ASSUME NEW a \in Nat, NEW n \in Nat, NEW d \in 1 .. n
  PROVE  (CHOOSE m \in a + 1 .. a + n :
            Cardinality({v \in a + 1 .. a + n : v < m}) = d - 1) = a + d
<1>1. ASSUME NEW m \in a + 1 .. a + n
      PROVE  Cardinality({v \in a + 1 .. a + n : v < m}) = m - a - 1
  <2>1. {v \in a + 1 .. a + n : v < m} = a + 1 .. m - 1
    OBVIOUS
  <2>2. a + 1 \in Int /\ m - 1 \in Int
    OBVIOUS
  <2>3. Cardinality(a + 1 .. m - 1) = IF a + 1 > m - 1 THEN 0 ELSE (m - 1) - (a + 1) + 1
    BY <2>2, FS_Interval
  <2>4. Cardinality({v \in a + 1 .. a + n : v < m}) = Cardinality(a + 1 .. m - 1)
    BY <2>1
  <2> QED BY <2>3, <2>4
<1>2. a + d \in a + 1 .. a + n /\ Cardinality({v \in a + 1 .. a + n : v < a + d}) = d - 1
  BY <1>1
<1>3. \A m \in a + 1 .. a + n :
        Cardinality({v \in a + 1 .. a + n : v < m}) = d - 1 => m = a + d
  BY <1>1
<1> QED BY <1>2, <1>3

LEMMA LastNameIs ==
  ASSUME RenamerInv, NEW i \in 1 .. Len(program) + 1, NEW x, NEW n, IsLastName(i, x, n)
  PROVE  LastName(i, x) = n
<1>1. PICK w \in Writers(i, x) :
        /\ \A v \in Writers(i, x) : v <= w
        /\ \E d \in 1 .. Len(program[w].defs), k \in 1 .. numRead, a \in 0 .. numAllocated :
             /\ x \in program[w].defs[d]
             /\ \A e \in 1 .. Len(program[w].defs) : x \in program[w].defs[e] => e <= d
             /\ Output[k].id = LastUopId(w)
             /\ Output[k].defs = a + 1 .. a + Len(program[w].defs)
             /\ n = a + d
  BY DEF IsLastName
<1>2. PICK d \in 1 .. Len(program[w].defs), k \in 1 .. numRead, a \in 0 .. numAllocated :
        /\ x \in program[w].defs[d]
        /\ \A e \in 1 .. Len(program[w].defs) : x \in program[w].defs[e] => e <= d
        /\ Output[k].id = LastUopId(w)
        /\ Output[k].defs = a + 1 .. a + Len(program[w].defs)
        /\ n = a + d
  BY <1>1
<1>3. w \in 1 .. Len(program) /\ Writers(i, x) \in SUBSET Nat
  BY NextInstrType DEF Writers
<1>4. Max(Writers(i, x)) = w
  BY <1>1, <1>3, MaxIs
<1>5. PICK l \in Nat : l = Len(program[w].defs) /\ DOMAIN program[w].defs = 1 .. l
  BY <1>3, InstructionFacts DEF RenamerInv
<1>6. Max({e \in DOMAIN program[w].defs : x \in program[w].defs[e]}) = d
  <2>1. PICK S : S = {e \in DOMAIN program[w].defs : x \in program[w].defs[e]}
    OBVIOUS
  <2>2. S \in SUBSET Nat
    BY <2>1, <1>5
  <2>3. d \in S /\ \A e \in S : e <= d
    BY <2>1, <1>2, <1>5
  <2> QED BY <2>1, <2>2, <2>3, MaxIs
<1>7. (CHOOSE j \in DOMAIN Output : Output[j].id = LastUopId(w)) = k
  <2>1. DOMAIN Output = 1 .. numRead
    BY OutputType DEF RenamerInv, OutputIsNamed
  <2>2. \A j \in DOMAIN Output : Output[j].id = LastUopId(w) => j = k
    BY <2>1, <1>2, IdsDiffer
  <2>3. k \in DOMAIN Output /\ Output[k].id = LastUopId(w)
    BY <2>1, <1>2
  <2> QED BY <2>2, <2>3
<1>8. (CHOOSE m \in Output[k].defs : Cardinality({v \in Output[k].defs : v < m}) = d - 1) = n
  <2>1. a \in Nat /\ d \in 1 .. l
    BY <1>5, NextInstrType
  <2>2. (CHOOSE m \in a + 1 .. a + l :
           Cardinality({v \in a + 1 .. a + l : v < m}) = d - 1) = a + d
    BY <2>1, NameAt
  <2>3. Output[k].defs = a + 1 .. a + l
    BY <1>2, <1>5
  <2> QED BY <2>2, <2>3, <1>2
<1> QED BY <1>4, <1>6, <1>7, <1>8 DEF LastName, LastUopId

LEMMA UsesAreThoseOfTheWriters ==
  ASSUME RenamingInv
  PROVE  UsesLastWriters
<1> USE DEF RenamingInv
<1> SUFFICES ASSUME NEW k \in DOMAIN Output, NEW i, i = Output[k].id.instr + 1
             PROVE  Output[k].uses =
                      {LastName(i, x) : x \in {y \in program[i].uses :
                                                 Output[k].id.index = 0 /\ Writers(i, y) # {}}}
  BY DEF UsesLastWriters
<1>1. k \in 1 .. numRead /\ k \in 1 .. Len(arrived) /\ Output[k].id = arrived[k]
  BY OutputType, NextInstrType DEF RenamerInv, OutputIsNamed
<1>2. i \in 1 .. Len(program) /\ i \in 1 .. Len(program) + 1
  BY <1>1, ArrivedFacts, NextInstrType
<1>3. UsesOfFirst(k, i)
  BY <1>1, <1>2 DEF UsesAreLast
<1>4. \A x, n : IsLastName(i, x, n) => LastName(i, x) = n /\ Writers(i, x) # {}
  BY <1>2, LastNameIs, LastNamePositive
<1>5. CASE arrived[k].index # 0
  BY <1>1, <1>3, <1>5 DEF UsesOfFirst
<1>6. CASE arrived[k].index = 0
  <2>1. \A n \in Output[k].uses :
          \E x \in program[i].uses : n = LastName(i, x) /\ Writers(i, x) # {}
    BY <1>3, <1>4, <1>6 DEF UsesOfFirst
  <2>2. \A x \in program[i].uses : Writers(i, x) # {} => LastName(i, x) \in Output[k].uses
    BY <1>3, <1>4, <1>6 DEF UsesOfFirst
  <2> QED BY <2>1, <2>2, <1>1, <1>6
<1> QED BY <1>5, <1>6

\* Only true dependencies remain: each uop uses the names that the last writers
\* of what its instruction reads have given it, overlapping registers included,
\* and nothing else (PopulateUop and RegisterNameTracker).
THEOREM UsesAreTrueDependencies ==
  ASSUME NoUop \notin RenamedUops
  PROVE  RenamerSpec => []UsesLastWriters
BY RenamerInitInv, RenamerNextInv, UsesAreThoseOfTheWriters, PTL DEF RenamerSpec

-----------------------------------------------------------------------------
(* The cache of decompositions.                                            *)

ContextSpec == ContextInit /\ [][ContextNext]_contextVars

\* What is in the cache: decompositions of instructions that were asked about.
EntriesAreFresh ==
  \A e \in DecompositionCache_ : e.inst \in Insts /\ e.uops = Decompose(e.inst)

CacheInv == EntriesAreFresh /\ CachedIsFresh

\* OpEq is the identity on the kinds that it names.
LEMMA NamedOperandsAgree ==
  ASSUME NEW x \in Operands, NEW y \in Operands, OpEq(x, y),
         x.kind \in NamedKinds \cup {"invalid"}
  PROVE  x = y
<1>1. y.kind = x.kind /\ (x.kind \in NamedKinds => y.value = x.value)
  BY DEF OpEq
<1>2. CASE x.kind \in NamedKinds
  <2>1. \A z \in Operands : z.kind \in NamedKinds =>
          z \in [kind : NamedKinds \cup {"sfp", "expr", "inst"}, value : Int]
    BY DEF Operands, NamedKinds
  <2> QED BY <1>1, <1>2, <2>1
<1>3. CASE x.kind = "invalid"
  <2>1. \A z \in Operands : z.kind = "invalid" => z \in [kind : {"invalid"}, value : {0}]
    BY DEF Operands, NamedKinds
  <2> QED BY <1>1, <1>3, <2>1
<1> QED BY <1>2, <1>3

\* Where MCInstEq looks at the operands, equal instructions are the same, and
\* it looks at all that are of a kind it names.
LEMMA EqualInstsAgree ==
  ASSUME NEW a \in Insts, NEW b \in Insts, MCInstEq(a, b)
  PROVE  /\ a.opcode = b.opcode /\ a.flags = b.flags
         /\ Len(a.operands) = Len(b.operands)
         /\ \A i \in DOMAIN a.operands \ Unnamed(a) : a.operands[i] = b.operands[i]
         /\ Unnamed(a) = {} => a = b
<1>1. /\ a \in [opcode : DOMAIN SchedClassOf, flags : Nat, operands : Seq(Operands)]
      /\ b \in [opcode : DOMAIN SchedClassOf, flags : Nat, operands : Seq(Operands)]
  BY InstsAssumption
<1>2. /\ a.opcode = b.opcode /\ a.flags = b.flags
      /\ Len(a.operands) = Len(b.operands)
      /\ \A i \in DOMAIN a.operands : OpEq(a.operands[i], b.operands[i])
  BY DEF MCInstEq
<1>3. PICK oa \in Seq(Operands), ob \in Seq(Operands) : oa = a.operands /\ ob = b.operands
  BY <1>1
<1>4. /\ DOMAIN oa = DOMAIN ob
      /\ \A i \in DOMAIN oa : oa[i] \in Operands /\ ob[i] \in Operands
  BY <1>2, <1>3
<1>5. \A i \in DOMAIN oa \ Unnamed(a) : oa[i] = ob[i]
  <2> TAKE i \in DOMAIN oa \ Unnamed(a)
  <2>1. oa[i].kind \in NamedKinds \cup {"invalid"}
    BY <1>3 DEF Unnamed
  <2>2. OpEq(oa[i], ob[i])
    BY <1>2, <1>3
  <2> QED BY <1>4, <2>1, <2>2, NamedOperandsAgree
<1>6. ASSUME Unnamed(a) = {} PROVE a = b
  <2>1. \A i \in DOMAIN oa : oa[i] = ob[i]
    BY <1>5, <1>6
  <2>2. oa = ob
    <3>1. Len(oa) = Len(ob)
      BY <1>2, <1>3
    <3>2. \A i \in 1 .. Len(oa) : oa[i] = ob[i]
      BY <1>3, <2>1, LenProperties
    <3> QED BY <3>1, <3>2, SeqEqual
  <2>3. /\ a = [opcode |-> a.opcode, flags |-> a.flags, operands |-> a.operands]
        /\ b = [opcode |-> b.opcode, flags |-> b.flags, operands |-> b.operands]
    BY <1>1
  <2>4. a.operands = b.operands
    BY <1>3, <2>2
  <2> QED BY <1>2, <2>3, <2>4
<1> QED BY <1>2, <1>3, <1>5, <1>6

LEMMA AnswerIsFresh ==
  ASSUME CacheInv, NEW inst \in Insts, GetInstructionDecomposition(inst)
  PROVE  CacheInv'
<1>1. ASSUME NEW e \in DecompositionCache_, Hit(e, inst),
             answer' = [inst |-> inst, uops |-> e.uops],
             UNCHANGED DecompositionCache_
      PROVE  CacheInv'
  <2>1. e.inst \in Insts /\ e.uops = Decompose(e.inst)
    BY DEF CacheInv, EntriesAreFresh
  <2>2. answer'.inst = inst /\ answer'.uops = e.uops
    BY <1>1
  <2>3. MCInstEq(e.inst, inst)
    BY <1>1 DEF Hit
  <2>4. EntriesAreFresh'
    BY <1>1 DEF CacheInv, EntriesAreFresh
  <2>5. CASE Unnamed(e.inst) = {}
    <3>1. e.inst = inst
      BY <2>1, <2>3, <2>5, EqualInstsAgree
    <3>2. answer'.uops = Decompose(answer'.inst)
      BY <2>1, <2>2, <3>1
    <3> QED BY <2>4, <3>2 DEF CacheInv, CachedIsFresh, AnswersAreFresh
  <2>6. CASE Unnamed(e.inst) # {}
    <3>1. /\ e.inst.opcode = inst.opcode /\ e.inst.flags = inst.flags
          /\ Len(e.inst.operands) = Len(inst.operands)
          /\ \A i \in DOMAIN e.inst.operands \ Unnamed(e.inst) :
               e.inst.operands[i] = inst.operands[i]
      BY <2>1, <2>3, EqualInstsAgree
    <3>2. e \in DecompositionCache_'
      BY <1>1
    <3>3. CachedIsFresh'
      BY <2>1, <2>2, <2>6, <3>1, <3>2 DEF CachedIsFresh
    <3> QED BY <2>4, <3>3 DEF CacheInv
  <2> QED BY <2>5, <2>6
<1>2. ASSUME NEW uops, uops = Decompose(inst),
             DecompositionCache_' = DecompositionCache_ \cup {[inst |-> inst, uops |-> uops]},
             answer' = [inst |-> inst, uops |-> uops]
      PROVE  CacheInv'
  <2>1. answer'.uops = Decompose(answer'.inst)
    BY <1>2
  <2>2. EntriesAreFresh'
    BY <1>2 DEF CacheInv, EntriesAreFresh
  <2> QED BY <2>1, <2>2 DEF CacheInv, CachedIsFresh, AnswersAreFresh
<1> QED BY <1>1, <1>2 DEF GetInstructionDecomposition

LEMMA CacheInvHolds == ContextSpec => []CacheInv
<1>1. ContextInit => CacheInv
  BY DEF ContextInit, CacheInv, EntriesAreFresh, CachedIsFresh, AnswersAreFresh
<1>2. CacheInv /\ [ContextNext]_contextVars => CacheInv'
  <2>1. CacheInv /\ UNCHANGED contextVars => CacheInv'
    BY DEF contextVars, CacheInv, EntriesAreFresh, CachedIsFresh, AnswersAreFresh
  <2> QED BY <2>1, AnswerIsFresh DEF ContextNext
<1> QED BY <1>1, <1>2, PTL DEF ContextSpec

\* Whatever was asked before and in whatever order, instructions that differ in
\* a register, a number or their flags never get each other's uops, and the
\* uops of another instruction come from one that was cached with an operand
\* of an unnamed kind (GlobalContext::GetInstructionDecomposition, MCInstEq).
THEOREM CacheNeverLies == ContextSpec => []CachedIsFresh
<1>1. CacheInv => CachedIsFresh
  BY DEF CacheInv
<1> QED BY <1>1, CacheInvHolds, PTL

\* As long as every operand is a register or a number, as in code without
\* symbols, every answer is the decomposition of its instruction.
THEOREM NamedAnswersAreFresh ==
  ASSUME \A inst \in Insts : Unnamed(inst) = {}
  PROVE  ContextSpec => []AnswersAreFresh
<1>1. CacheInv => AnswersAreFresh
  BY DEF CacheInv, EntriesAreFresh, CachedIsFresh
<1> QED BY <1>1, CacheInvHolds, PTL

-----------------------------------------------------------------------------
(* Numbers: least elements, induction on a set, quotients.                 *)

LEMMA LeastExists ==
  ASSUME NEW S \in SUBSET Nat, S # {}
  PROVE  \E m \in S : \A e \in S : m <= e
<1>1. PICK m \in S : \A e \in S : ~ (<<e, m>> \in LessThan)
  <2>1. PICK e0 \in S : TRUE
    OBVIOUS
  <2> QED BY <2>1, LessThanIsWellFounded, WFMin
<1>2. ASSUME NEW e \in S PROVE m <= e
  <2>1. e \in Nat /\ m \in Nat /\ ~ (<<e, m>> \in LessThan)
    BY <1>1
  <2>2. ~ (e < m)
    BY <2>1 DEF LessThan
  <2> QED BY <2>1, <2>2
<1> QED BY <1>2

\* A set with zero and with all successors of its numbers has all numbers.
LEMMA Reaches ==
  ASSUME NEW S, 0 \in S, \A k \in Nat : k \in S => k + 1 \in S
  PROVE  \A n \in Nat : n \in S
<1> SUFFICES ASSUME NEW n \in Nat, n \notin S PROVE FALSE
  OBVIOUS
<1>1. PICK m \in Nat \ S : \A e \in Nat \ S : m <= e
  <2>1. Nat \ S \in SUBSET Nat /\ Nat \ S # {}
    OBVIOUS
  <2> QED BY <2>1, LeastExists
<1>2. m # 0
  OBVIOUS
<1>3. m - 1 \in Nat /\ ~ (m <= m - 1) /\ (m - 1) + 1 = m
  BY <1>2
<1>4. m - 1 \in S
  BY <1>1, <1>3
<1> QED BY <1>3, <1>4

LEMMA LargestExists ==
  ASSUME NEW n \in Nat, NEW S \in SUBSET (0 .. n), S # {}
  PROVE  \E m \in S : \A e \in S : e <= m
<1>1. PICK T : T = {n - e : e \in S}
  OBVIOUS
<1>2. T \in SUBSET Nat /\ T # {}
  <2>1. \A e \in S : n - e \in Nat
    OBVIOUS
  <2> QED BY <1>1, <2>1
<1>3. PICK t \in T : \A u \in T : t <= u
  BY <1>2, LeastExists
<1>4. PICK m \in S : t = n - m
  BY <1>1
<1>5. ASSUME NEW e \in S PROVE e <= m
  <2>1. n - m <= n - e
    BY <1>1, <1>3, <1>4
  <2> QED BY <2>1
<1> QED BY <1>5

LEMMA MinIs ==
  ASSUME NEW S \in SUBSET Nat, NEW m \in S, \A e \in S : m <= e
  PROVE  Min(S) = m
<1>1. \A d \in S : (\A e \in S : d <= e) => d = m
  OBVIOUS
<1>2. Min(S) \in S /\ \A e \in S : Min(S) <= e
  BY DEF Min
<1> QED BY <1>1, <1>2

\* Multiples of N are N apart.
LEMMA Times ==
  ASSUME NEW N \in Nat \ {0}, NEW p \in Int, NEW q \in Int, p < q
  PROVE  N * p + N <= N * q /\ N * p \in Int /\ N * q \in Int
<1>1. PICK d \in Int : q = p + d /\ d >= 1
  <2>1. q = p + (q - p) /\ q - p >= 1 /\ q - p \in Int
    OBVIOUS
  <2> QED BY <2>1
<1>2. N * q = N * p + N * d
  BY <1>1
<1>3. N * d >= N
  BY <1>1
<1> QED BY <1>2, <1>3

LEMMA DivIs ==
  ASSUME NEW N \in Nat \ {0}, NEW n \in Nat
  PROVE  /\ n \div N \in Nat /\ (n % N) \in 0 .. N - 1
         /\ n = N * (n \div N) + (n % N)
OBVIOUS

\* The numbers below N * c are those with a quotient below c.
LEMMA BelowMultiple ==
  ASSUME NEW N \in Nat \ {0}, NEW n \in Nat, NEW c \in Nat
  PROVE  n \div N < c <=> n < N * c
<1>1. PICK q, r : q = n \div N /\ r = (n % N)
  OBVIOUS
<1>2. q \in Nat /\ r \in 0 .. N - 1 /\ n = N * q + r
  BY <1>1, DivIs
<1>3. PICK x, y : x = N * q /\ y = N * c
  OBVIOUS
<1>4. /\ x \in Int /\ y \in Int
      /\ q < c => x + N <= y
      /\ c < q => y + N <= x
      /\ q = c => x = y
  BY <1>2, <1>3, Times
<1>5. n = x + r
  BY <1>2, <1>3
<1>6. q < c <=> n < y
  BY <1>2, <1>4, <1>5
<1> QED BY <1>1, <1>3, <1>6

\* The quotient grows at the last number of each group of N.
LEMMA NextDiv ==
  ASSUME NEW N \in Nat \ {0}, NEW n \in Nat
  PROVE  (n + 1) \div N = IF (n % N) = N - 1 THEN (n \div N) + 1 ELSE n \div N
<1>1. PICK q, r, q2, r2 : /\ q = n \div N /\ r = (n % N)
                          /\ q2 = (n + 1) \div N /\ r2 = ((n + 1) % N)
  OBVIOUS
<1>2. /\ q \in Int /\ q2 \in Int /\ r \in 0 .. N - 1 /\ r2 \in 0 .. N - 1
      /\ n = N * q + r /\ n + 1 = N * q2 + r2
  BY <1>1, DivIs
<1>3. PICK x, y : x = N * q /\ y = N * q2
  OBVIOUS
<1>4. /\ q < q2 => x + N <= y
      /\ q2 < q => y + N <= x
      /\ q + 1 < q2 => x + N + N <= y
      /\ x \in Int /\ y \in Int
  <2>1. N * (q + 1) = N * q + N
    BY <1>2
  <2> QED BY <2>1, <1>2, <1>3, Times
<1>5. x + r + 1 = y + r2
  BY <1>2, <1>3
<1>6. q2 = q \/ q2 = q + 1
  BY <1>2, <1>4, <1>5
<1>7. (q2 = q => x = y) /\ (q2 = q + 1 => y = x + N)
  BY <1>2, <1>3
<1>8. q2 = IF r = N - 1 THEN q + 1 ELSE q
  BY <1>2, <1>4, <1>5, <1>6, <1>7
<1> QED BY <1>1, <1>8

\* The last numbers of their groups among n numbers from b on, and how many
\* they are.
LastsAmong(N, b, n) == {i \in b .. b + n - 1 : (i % N) = N - 1}

LEMMA CountLasts ==
  ASSUME NEW N \in Nat \ {0}, NEW b \in Nat, NEW n \in Nat
  PROVE  /\ IsFiniteSet(LastsAmong(N, b, n))
         /\ Cardinality(LastsAmong(N, b, n)) = ((b + n) \div N) - (b \div N)
<1> DEFINE Counts(k) == /\ IsFiniteSet(LastsAmong(N, b, k))
                        /\ Cardinality(LastsAmong(N, b, k)) = ((b + k) \div N) - (b \div N)
           S == {k \in Nat : Counts(k)}
<1>1. 0 \in S
  <2>1. LastsAmong(N, b, 0) = {}
    BY DEF LastsAmong
  <2>2. ((b + 0) \div N) - (b \div N) = 0
    <3>1. b + 0 = b /\ b \div N \in Nat
      BY DivIs
    <3> QED BY <3>1
  <2> QED BY <2>1, <2>2, FS_EmptySet
<1>2. ASSUME NEW k \in Nat, k \in S PROVE k + 1 \in S
  <2>1. PICK E, E2 : E = LastsAmong(N, b, k) /\ E2 = LastsAmong(N, b, k + 1)
    OBVIOUS
  <2>2. E2 = IF ((b + k) % N) = N - 1 THEN E \cup {b + k} ELSE E
    <3>1. \A i : i \in b .. b + (k + 1) - 1 <=> i \in b .. b + k - 1 \/ i = b + k
      OBVIOUS
    <3>2. \A i : i \in E2 <=> i \in b .. b + (k + 1) - 1 /\ (i % N) = N - 1
      BY <2>1 DEF LastsAmong
    <3>3. \A i : i \in E <=> i \in b .. b + k - 1 /\ (i % N) = N - 1
      BY <2>1 DEF LastsAmong
    <3> QED BY <3>1, <3>2, <3>3
  <2>3. b + k \notin E
    BY <2>1 DEF LastsAmong
  <2>4. IsFiniteSet(E2) /\ Cardinality(E) \in Nat
        /\ Cardinality(E2) = IF ((b + k) % N) = N - 1 THEN Cardinality(E) + 1
                             ELSE Cardinality(E)
    BY <1>2, <2>1, <2>2, <2>3, FS_AddElement, FS_CardinalityType
  <2>5. PICK q, r : q = (b + k) \div N /\ r = b \div N
    OBVIOUS
  <2>6. /\ q \in Nat /\ r \in Nat
        /\ (b + (k + 1)) \div N = IF ((b + k) % N) = N - 1 THEN q + 1 ELSE q
    <3>1. b + (k + 1) = (b + k) + 1 /\ b + k \in Nat
      OBVIOUS
    <3> QED BY <3>1, <2>5, NextDiv, DivIs
  <2>7. Cardinality(E) = q - r
    BY <1>2, <2>1, <2>5
  <2>8. Cardinality(E2) = ((b + (k + 1)) \div N) - r
    BY <2>4, <2>6, <2>7
  <2> QED BY <2>1, <2>4, <2>5, <2>8
<1>3. n \in S
  <2> HIDE DEF S
  <2> QED BY <1>1, <1>2, Reaches
<1> QED BY <1>3
-----------------------------------------------------------------------------
(* The log.                                                                *)

LogSpec == LogInit /\ [][LogNext]_logVars

PortLines == [port : DispatchPorts, instr : Nat]
LineNumbers == 1 .. Len(Lines)
IterationNumbers == 1 .. Len(Iterations)

\* Each instruction is logged once, and before it retires; the iterations that
\* are counted are those of which all instructions have retired.
LogInv ==
  /\ Lines \in Seq(PortLines) /\ Iterations \in Seq(Nat)
  /\ retired \in Nat /\ NumCycles \in Nat
  /\ \A j, k \in LineNumbers : Lines[j].instr = Lines[k].instr => j = k
  /\ \A i \in 0 .. retired - 1 : \E k \in LineNumbers : Lines[k].instr = i
  /\ BBLength * Len(Iterations) <= retired
  /\ running => /\ Len(Iterations) = retired \div BBLength
                /\ MaxNumIterations = 0 \/ Len(Iterations) < MaxNumIterations
  /\ \A k \in IterationNumbers : Iterations[k] <= NumCycles
  /\ \A j, k \in IterationNumbers : j <= k => Iterations[j] <= Iterations[k]

LEMMA LogInitInv == LogInit => LogInv
<1> SUFFICES ASSUME LogInit PROVE LogInv
  OBVIOUS
<1>1. /\ Lines = << >> /\ Iterations = << >> /\ NumCycles = 0 /\ retired = 0
      /\ Len(Iterations) = 0 /\ LineNumbers = {} /\ IterationNumbers = {}
  BY DEF LogInit, LineNumbers, IterationNumbers
<1>2. BBLength * 0 = 0 /\ 0 \div BBLength = 0
  BY RunAssumption
<1>3. MaxNumIterations = 0 \/ 0 < MaxNumIterations
  BY RunAssumption
<1> QED BY <1>1, <1>2, <1>3 DEF LogInv

\* What the ports log in a cycle.
LEMMA LinesOfCycle ==
  ASSUME LogInv, NEW lines \in DispatchLines
  PROVE  /\ lines \in Seq(PortLines)
         /\ \A j, k \in 1 .. Len(lines) : lines[j].instr = lines[k].instr => j = k
         /\ \A j \in 1 .. Len(lines), k \in LineNumbers : lines[j].instr # Lines[k].instr
<1>1. PICK n \in 0 .. Cardinality(DispatchPorts) :
        lines \in [1 .. n -> [port : DispatchPorts, instr : InFlight]]
  BY DEF DispatchLines
<1>2. n \in Nat
  BY <1>1, RunAssumption, FS_CardinalityType
<1>3. DOMAIN lines = 1 .. n /\ Len(lines) = n
  BY <1>1, <1>2
<1>4. ASSUME NEW i \in InFlight PROVE i \in Nat /\ i \notin Dispatched
  <2>1. PICK r, e : r = retired /\ e = (retired \div BBLength + Window) * BBLength - 1
    OBVIOUS
  <2>2. i \in r .. e /\ i \notin Dispatched
    BY <2>1 DEF InFlight
  <2>3. r \in Nat
    BY <2>1 DEF LogInv
  <2> QED BY <2>2, <2>3
<1>5. \A j \in 1 .. n : lines[j] \in [port : DispatchPorts, instr : InFlight]
  BY <1>1
<1>6. \A j \in 1 .. n : lines[j] \in PortLines /\ lines[j].instr \notin Dispatched
  BY <1>4, <1>5 DEF PortLines
<1>7. lines \in Seq(PortLines)
  BY <1>1, <1>2, <1>3, <1>6
<1>8. ASSUME NEW j \in 1 .. n, NEW k \in 1 .. n, lines[j].instr = lines[k].instr PROVE j = k
  <2>1. j < k => lines[j].instr # lines[k].instr
    BY <1>3 DEF DispatchLines
  <2>2. k < j => lines[k].instr # lines[j].instr
    BY <1>3 DEF DispatchLines
  <2>3. j \in Int /\ k \in Int
    OBVIOUS
  <2> QED BY <2>1, <2>2, <2>3, <1>8
<1>9. \A k \in LineNumbers : Lines[k].instr \in Dispatched
  BY DEF Dispatched, LineNumbers, LogInv
<1> QED BY <1>3, <1>6, <1>7, <1>8, <1>9

\* The iterations that n instructions complete.
LEMMA IterationsOfCycle ==
  ASSUME LogInv, running, NEW n \in Nat,
         NEW new, new = CompleteIterations(retired, retired + n - 1)
  PROVE  \E m \in Nat :
           /\ new = Iterations \o [k \in 1 .. m |-> NumCycles]
           /\ BBLength * (Len(Iterations) + m) <= retired + n
           /\ MaxNumIterations = 0 \/ Len(Iterations) + m <= MaxNumIterations
           /\ \/ MaxNumIterations > 0 /\ Len(Iterations) + m = MaxNumIterations
              \/ Len(Iterations) + m = (retired + n) \div BBLength
<1>1. PICK N, r, c, M : N = BBLength /\ r = retired /\ c = Len(Iterations) /\ M = MaxNumIterations
  OBVIOUS
<1>2. N \in Nat \ {0} /\ r \in Nat /\ c \in Nat /\ M \in Nat /\ c = r \div N /\ (M = 0 \/ c < M)
  BY <1>1, RunAssumption DEF LogInv
<1>3. PICK q : q = (r + n) \div N
  OBVIOUS
<1>4. q \in Nat /\ N * q <= r + n
  <2>1. PICK s, x : s = ((r + n) % N) /\ x = N * q
    OBVIOUS
  <2>2. r + n \in Nat /\ q \in Nat /\ s \in 0 .. N - 1 /\ r + n = x + s
    <3>1. r + n \in Nat
      BY <1>2
    <3> QED BY <3>1, <1>2, <1>3, <2>1, DivIs
  <2>3. x \in Int
    BY <1>2, <2>1, <2>2
  <2>4. x <= r + n
    BY <2>2, <2>3
  <2> QED BY <2>1, <2>2, <2>4
<1>5. PICK ended : ended = Cardinality(LastsAmong(N, r, n))
  OBVIOUS
<1>6. ended = q - c
  BY <1>2, <1>3, <1>5, CountLasts
<1>7. ended \in Nat
  BY <1>2, <1>5, CountLasts, FS_CardinalityType
<1>8. PICK room : room = IF M = 0 THEN ended ELSE M - c
  OBVIOUS
<1>9. room \in Nat
  BY <1>2, <1>7, <1>8
<1>10. PICK m \in Nat : m = IF ended <= room THEN ended ELSE room
  BY <1>7, <1>9
<1>11. Min({ended, room}) = m
  <2>1. {ended, room} \in SUBSET Nat /\ m \in {ended, room} /\ \A e \in {ended, room} : m <= e
    BY <1>7, <1>9, <1>10
  <2> QED BY <2>1, MinIs
<1>12. new = Iterations \o [k \in 1 .. m |-> NumCycles]
  BY <1>1, <1>5, <1>8, <1>11 DEF CompleteIterations, LastsAmong
<1>13. c + m <= q /\ (M = 0 \/ c + m <= M) /\ ((M > 0 /\ c + m = M) \/ c + m = q)
  BY <1>2, <1>4, <1>6, <1>8, <1>10
<1>14. N * (c + m) <= N * q
  <2>1. c + m \in Int /\ (c + m < q \/ c + m = q)
    BY <1>2, <1>4, <1>13
  <2>2. CASE c + m < q
    <3>1. N * (c + m) + N <= N * q /\ N * (c + m) \in Int /\ N * q \in Int
      BY <1>2, <1>4, <2>1, <2>2, Times
    <3> QED BY <1>2, <3>1
  <2>3. CASE c + m = q
    BY <1>2, <1>4, <2>3
  <2> QED BY <2>1, <2>2, <2>3
<1>15. N * (c + m) <= r + n
  BY <1>2, <1>4, <1>14
<1> QED BY <1>1, <1>3, <1>12, <1>13, <1>15

LEMMA CycleInv ==
  ASSUME LogInv, Cycle
  PROVE  LogInv'
<1>1. PICK lines \in DispatchLines, n \in 0 .. BBLength + 1 :
        /\ CanRetire(n)
        /\ Lines' = Lines \o lines
        /\ retired' = retired + n
        /\ Iterations' = CompleteIterations(retired, retired + n - 1)
  BY DEF Cycle
<1>2. /\ running /\ NumCycles' = NumCycles + 1
      /\ running' = ~ (MaxNumIterations > 0 /\ Len(Iterations') >= MaxNumIterations)
  BY DEF Cycle
<1>3. n \in Nat /\ retired \in Nat /\ NumCycles \in Nat
  BY <1>1, RunAssumption DEF LogInv
<1>4. /\ lines \in Seq(PortLines) /\ Lines \in Seq(PortLines)
      /\ \A j, k \in 1 .. Len(lines) : lines[j].instr = lines[k].instr => j = k
      /\ \A j \in 1 .. Len(lines), k \in 1 .. Len(Lines) : lines[j].instr # Lines[k].instr
      /\ \A j, k \in 1 .. Len(Lines) : Lines[j].instr = Lines[k].instr => j = k
  BY LinesOfCycle DEF LogInv, LineNumbers
<1>5. PICK a \in Nat, b \in Nat : a = Len(Lines) /\ b = Len(lines)
  BY <1>4
<1>6. /\ Lines' \in Seq(PortLines) /\ Len(Lines') = a + b
      /\ \A k \in 1 .. a + b : Lines'[k] = IF k <= a THEN Lines[k] ELSE lines[k - a]
  BY <1>1, <1>4, <1>5, ConcatProperties
<1>7. \A j, k \in LineNumbers' : Lines'[j].instr = Lines'[k].instr => j = k
  <2> SUFFICES ASSUME NEW j \in 1 .. a + b, NEW k \in 1 .. a + b,
                      Lines'[j].instr = Lines'[k].instr
               PROVE  j = k
    BY <1>6 DEF LineNumbers
  <2>1. j <= a => j \in 1 .. a /\ Lines'[j] = Lines[j]
    BY <1>6
  <2>2. k <= a => k \in 1 .. a /\ Lines'[k] = Lines[k]
    BY <1>6
  <2>3. ~ (j <= a) => j - a \in 1 .. b /\ Lines'[j] = lines[j - a]
    BY <1>6
  <2>4. ~ (k <= a) => k - a \in 1 .. b /\ Lines'[k] = lines[k - a]
    BY <1>6
  <2>5. CASE j <= a /\ k <= a
    BY <1>4, <1>5, <2>1, <2>2, <2>5
  <2>6. CASE j <= a /\ ~ (k <= a)
    BY <1>4, <1>5, <2>1, <2>4, <2>6
  <2>7. CASE ~ (j <= a) /\ k <= a
    BY <1>4, <1>5, <2>2, <2>3, <2>7
  <2>8. CASE ~ (j <= a) /\ ~ (k <= a)
    <3>1. j - a = k - a
      BY <1>4, <1>5, <2>3, <2>4, <2>8
    <3> QED BY <3>1
  <2> QED BY <2>5, <2>6, <2>7, <2>8
<1>8. ASSUME NEW i \in 0 .. retired' - 1 PROVE \E k \in LineNumbers' : Lines'[k].instr = i
  <2>1. \E k \in 1 .. a : Lines[k].instr = i
    <3>1. CASE i \in 0 .. retired - 1
      BY <3>1, <1>5 DEF LogInv, LineNumbers
    <3>2. CASE i \in retired .. retired + n - 1
      <4>1. i \in Dispatched
        BY <1>1, <3>2 DEF CanRetire
      <4> QED BY <4>1, <1>4, <1>5 DEF Dispatched
    <3> QED BY <1>1, <1>3, <3>1, <3>2
  <2>2. PICK k \in 1 .. a : Lines[k].instr = i
    BY <2>1
  <2>3. k \in 1 .. a + b /\ Lines'[k] = Lines[k]
    BY <1>6
  <2> QED BY <1>6, <2>2, <2>3 DEF LineNumbers
<1>9. PICK m \in Nat :
        /\ Iterations' = Iterations \o [k \in 1 .. m |-> NumCycles]
        /\ BBLength * (Len(Iterations) + m) <= retired + n
        /\ MaxNumIterations = 0 \/ Len(Iterations) + m <= MaxNumIterations
        /\ \/ MaxNumIterations > 0 /\ Len(Iterations) + m = MaxNumIterations
           \/ Len(Iterations) + m = (retired + n) \div BBLength
  BY <1>1, <1>2, <1>3, IterationsOfCycle
<1>10a. Len(Iterations) \in Nat
  BY DEF LogInv
<1>10b. PICK c \in Nat : c = Len(Iterations)
  BY <1>10a
<1>10c. PICK t : t = [k \in 1 .. m |-> NumCycles]
  OBVIOUS
<1>10. c = Len(Iterations) /\ t = [k \in 1 .. m |-> NumCycles]
  BY <1>10b, <1>10c
<1>11. t \in Seq(Nat) /\ Len(t) = m /\ \A k \in 1 .. m : t[k] = NumCycles
  BY <1>3, <1>10
<1>12. /\ Iterations' \in Seq(Nat) /\ Len(Iterations') = c + m
       /\ \A k \in 1 .. c + m : Iterations'[k] = IF k <= c THEN Iterations[k] ELSE t[k - c]
  BY <1>9, <1>10, <1>11, ConcatProperties DEF LogInv
<1>13. ASSUME NEW k \in 1 .. c + m
       PROVE  /\ k <= c => k \in 1 .. c /\ Iterations'[k] = Iterations[k]
              /\ ~ (k <= c) => Iterations'[k] = NumCycles
  BY <1>11, <1>12
<1>14. \A k \in 1 .. c : Iterations[k] \in Nat /\ Iterations[k] <= NumCycles
  BY <1>10 DEF LogInv, IterationNumbers
<1>15. \A k \in IterationNumbers' : Iterations'[k] <= NumCycles'
  BY <1>2, <1>3, <1>12, <1>13, <1>14 DEF IterationNumbers
<1>16. \A j, k \in IterationNumbers' : j <= k => Iterations'[j] <= Iterations'[k]
  <2> SUFFICES ASSUME NEW j \in 1 .. c + m, NEW k \in 1 .. c + m, j <= k
               PROVE  Iterations'[j] <= Iterations'[k]
    BY <1>12 DEF IterationNumbers
  <2>1. CASE k <= c
    <3>1. j \in 1 .. c /\ k \in 1 .. c
      BY <2>1
    <3>2. Iterations[j] <= Iterations[k]
      BY <1>10, <3>1 DEF LogInv, IterationNumbers
    <3> QED BY <1>13, <2>1, <3>1, <3>2
  <2>2. CASE ~ (k <= c) /\ j <= c
    <3>1. j \in 1 .. c
      BY <2>2
    <3> QED BY <1>13, <1>14, <2>2, <3>1
  <2>3. CASE ~ (k <= c) /\ ~ (j <= c)
    BY <1>3, <1>13, <2>3
  <2> QED BY <2>1, <2>2, <2>3
<1>17. running' => /\ Len(Iterations') = retired' \div BBLength
                   /\ MaxNumIterations = 0 \/ Len(Iterations') < MaxNumIterations
  <2>1. PICK M \in Nat : M = MaxNumIterations
    BY RunAssumption
  <2>2. running' => M = 0 \/ c + m < M
    <3>1. running' => ~ (M > 0 /\ c + m >= M)
      BY <1>2, <1>12, <2>1, Zenon
    <3> QED BY <3>1
  <2>3. running' => c + m = (retired + n) \div BBLength
    BY <1>9, <1>10, <2>1, <2>2
  <2> QED BY <1>1, <1>12, <2>1, <2>2, <2>3
<1>18. BBLength * Len(Iterations') <= retired'
  BY <1>1, <1>9, <1>10, <1>12
<1>19. retired' \in Nat /\ NumCycles' \in Nat
  BY <1>1, <1>2, <1>3
<1> QED BY <1>6, <1>7, <1>8, <1>12, <1>15, <1>16, <1>17, <1>18, <1>19 DEF LogInv

LEMMA LogNextInv == LogInv /\ [LogNext]_logVars => LogInv'
<1>1. LogInv /\ UNCHANGED logVars => LogInv'
  BY DEF LogInv, logVars, LineNumbers, IterationNumbers
<1> QED BY <1>1, CycleInv DEF LogNext, Stopped

THEOREM LogInvariance == LogSpec => []LogInv
BY LogInitInv, LogNextInv, PTL DEF LogSpec

-----------------------------------------------------------------------------
(* Port pressure.  MapThenSumSet computes a sum from any fixed point of its *)
(* equation over the subsets: on a finite set all of them agree.            *)

Chosen(s) == CHOOSE x \in s : TRUE

\* f gives the sum of g over each subset of D.
Sums(g, D, f) ==
  \A s \in SUBSET D : f[s] = IF s = {} THEN 0 ELSE g[Chosen(s)] + f[s \ {Chosen(s)}]

LEMMA OneSum ==
  ASSUME NEW D, IsFiniteSet(D), NEW g, NEW f, NEW h, Sums(g, D, f), Sums(g, D, h)
  PROVE  f[D] = h[D]
<1> DEFINE Differ == {Cardinality(s) : s \in {r \in SUBSET D : f[r] # h[r]}}
<1> SUFFICES ASSUME f[D] # h[D] PROVE FALSE
  OBVIOUS
<1>1. Differ \in SUBSET Nat /\ Differ # {}
  BY FS_Subset, FS_CardinalityType
<1>2. PICK m \in Differ : \A e \in Differ : m <= e
  BY <1>1, LeastExists
<1>3. PICK s \in SUBSET D : f[s] # h[s] /\ Cardinality(s) = m
  OBVIOUS
<1>4. s # {}
  BY <1>3 DEF Sums
<1> DEFINE x == Chosen(s)
           r == s \ {x}
<1>5. x \in s
  BY <1>4 DEF Chosen
<1>6. IsFiniteSet(s)
  BY FS_Subset
<1>7. Cardinality(r) = Cardinality(s) - 1 /\ Cardinality(s) \in Nat
  BY <1>5, <1>6, FS_RemoveElement, FS_CardinalityType
<1>8. r \in SUBSET D
  OBVIOUS
<1>9. f[r] = h[r]
  <2>1. ~ (m <= Cardinality(r))
    BY <1>3, <1>7
  <2> QED BY <1>2, <1>8, <2>1
<1>10. f[s] = g[x] + f[r] /\ h[s] = g[x] + h[r]
  BY <1>4, Zenon DEF Sums
<1> QED BY <1>3, <1>9, <1>10

\* The elements of K with a value in s, and how many they are.
Having(K, value, s) == {k \in K : value[k] \in s}

\* Counting by value: the elements with a value in s are those with the value y
\* and those with another one.
LEMMA CountByValue ==
  ASSUME NEW K, IsFiniteSet(K), NEW value, NEW s, NEW y \in s
  PROVE  Cardinality(Having(K, value, s)) =
           Cardinality(Having(K, value, {y})) + Cardinality(Having(K, value, s \ {y}))
<1>1. PICK A, B, C : /\ A = Having(K, value, {y}) /\ B = Having(K, value, s \ {y})
                     /\ C = Having(K, value, s)
  OBVIOUS
<1>2. C = A \cup B /\ A \cap B = {}
  BY <1>1 DEF Having
<1>3. IsFiniteSet(A) /\ IsFiniteSet(B)
  BY <1>1, FS_Subset DEF Having
<1>4. Cardinality(C) = Cardinality(A) + Cardinality(B) - Cardinality({})
  BY <1>2, <1>3, FS_Union
<1>5. Cardinality(A) \in Nat /\ Cardinality(B) \in Nat
  BY <1>3, FS_CardinalityType
<1> QED BY <1>1, <1>4, <1>5, FS_EmptySet

\* So the counts of single values add up.
LEMMA CountsAddUp ==
  ASSUME NEW K, IsFiniteSet(K), NEW value, NEW D
  PROVE  Sums([y \in D |-> Cardinality(Having(K, value, {y}))], D,
              [s \in SUBSET D |-> Cardinality(Having(K, value, s))])
<1> DEFINE g == [y \in D |-> Cardinality(Having(K, value, {y}))]
           h == [s \in SUBSET D |-> Cardinality(Having(K, value, s))]
<1> SUFFICES ASSUME NEW s \in SUBSET D
             PROVE  h[s] = IF s = {} THEN 0 ELSE g[Chosen(s)] + h[s \ {Chosen(s)}]
  BY DEF Sums
<1>1. CASE s = {}
  <2>1. Having(K, value, s) = {}
    BY <1>1 DEF Having
  <2> QED BY <1>1, <2>1, FS_EmptySet
<1>2. CASE s # {}
  <2>1. PICK y \in s : y = Chosen(s)
    BY <1>2 DEF Chosen
  <2>2. h[s] = Cardinality(Having(K, value, s)) /\ g[y] = Cardinality(Having(K, value, {y}))
        /\ h[s \ {y}] = Cardinality(Having(K, value, s \ {y}))
    OBVIOUS
  <2> HIDE DEF g, h
  <2> QED BY <1>2, <2>1, <2>2, CountByValue
<1> QED BY <1>1, <1>2

CompleteLines == {k \in DOMAIN Lines : Lines[k].instr \div BBLength < GetNumCompleteIterations}

LEMMA CompleteLinesAreFinite ==
  ASSUME LogInv
  PROVE  IsFiniteSet(CompleteLines) /\ DOMAIN Lines = LineNumbers
<1>1. DOMAIN Lines = LineNumbers /\ Len(Lines) \in Nat
  BY DEF LogInv, LineNumbers
<1>2. IsFiniteSet(LineNumbers)
  BY <1>1, FS_Interval DEF LineNumbers
<1> QED BY <1>1, <1>2, FS_Subset DEF CompleteLines

LEMMA LineTypes ==
  ASSUME LogInv, NEW k \in DOMAIN Lines
  PROVE  Lines[k].instr \in Nat /\ Lines[k].port \in DispatchPorts
<1>1. Lines[k] \in PortLines
  BY DEF LogInv
<1> QED BY <1>1 DEF PortLines

LinesOf(port) == {k \in CompleteLines : Lines[k].port = port}

\* The cycles on a port are its lines of complete iterations.
LEMMA PressureOfPort ==
  ASSUME LogInv, NEW port
  PROVE  CyclesOnPort(port) = Cardinality(LinesOf(port))
<1> DEFINE D == 0 .. BBLength - 1
           Step(s, f) == IF s = {} THEN 0
                         ELSE CyclesByInst(port, CHOOSE x \in s : TRUE) + f[s \ {CHOOSE x \in s : TRUE}]
           Is(f) == f = [s \in SUBSET D |-> Step(s, f)]
           it == CHOOSE f : Is(f)
<1>1. CyclesOnPort(port) = it[D]
  BY DEF CyclesOnPort, MapThenSumSet, MapThenFoldSet
<1>2. PICK K, value : K = LinesOf(port) /\ value = [k \in DOMAIN Lines |-> Lines[k].instr % BBLength]
  OBVIOUS
<1>3. IsFiniteSet(K)
  BY <1>2, CompleteLinesAreFinite, FS_Subset DEF LinesOf
<1>4. PICK g : g = [y \in D |-> Cardinality(Having(K, value, {y}))]
  OBVIOUS
<1>5. PICK h : h = [s \in SUBSET D |-> Cardinality(Having(K, value, s))]
  OBVIOUS
<1>6. ASSUME NEW y PROVE CyclesByInst(port, y) = Cardinality(Having(K, value, {y}))
  <2>1. {k \in DOMAIN Lines : /\ Lines[k].port = port
                              /\ Lines[k].instr % BBLength = y
                              /\ Lines[k].instr \div BBLength < GetNumCompleteIterations}
          = Having(K, value, {y})
    BY <1>2 DEF Having, LinesOf, CompleteLines
  <2> QED BY <2>1 DEF CyclesByInst
<1>7. Sums(g, D, h)
  <2> HIDE DEF D
  <2> QED BY <1>3, <1>4, <1>5, CountsAddUp
<1>8. ASSUME NEW s \in SUBSET D, NEW f
      PROVE  Step(s, f) = IF s = {} THEN 0 ELSE g[Chosen(s)] + f[s \ {Chosen(s)}]
  <2>1. s # {} => Chosen(s) \in D
    BY DEF Chosen
  <2>2. s # {} => g[Chosen(s)] = CyclesByInst(port, Chosen(s))
    <3> HIDE DEF D
    <3> QED BY <1>4, <1>6, <2>1
  <2> QED BY <2>2 DEF Chosen
<1>9. Is(h)
  <2>1. ASSUME NEW s \in SUBSET D PROVE h[s] = Step(s, h)
    <3>1. h[s] = IF s = {} THEN 0 ELSE g[Chosen(s)] + h[s \ {Chosen(s)}]
      BY <1>7 DEF Sums
    <3> HIDE DEF Step, D
    <3> QED BY <3>1, <1>8
  <2> HIDE DEF Step, D
  <2> QED BY <2>1, <1>5
<1>10. Is(it)
  <2> HIDE DEF Is
  <2> QED BY <1>9
<1>11. Sums(g, D, it)
  <2>1. ASSUME NEW s \in SUBSET D
        PROVE  it[s] = IF s = {} THEN 0 ELSE g[Chosen(s)] + it[s \ {Chosen(s)}]
    <3>1. it[s] = Step(s, it)
      <4> HIDE DEF Step, it, D
      <4> QED BY <1>10
    <3> HIDE DEF Step, D, it
    <3> QED BY <3>1, <1>8
  <2> HIDE DEF it, D
  <2> QED BY <2>1 DEF Sums
<1>12. IsFiniteSet(D)
  BY RunAssumption, FS_Interval
<1>13. it[D] = h[D]
  <2> HIDE DEF it, D
  <2> QED BY <1>7, <1>11, <1>12, OneSum
<1>14. Having(K, value, D) = K
  <2>1. \A k \in K : k \in DOMAIN Lines /\ Lines[k].instr \in Nat
    <3>1. K \in SUBSET DOMAIN Lines
      BY <1>2 DEF LinesOf, CompleteLines
    <3> QED BY <3>1, LineTypes
  <2>2. \A k \in K : value[k] \in D
    BY <1>2, <2>1, RunAssumption
  <2> QED BY <2>2 DEF Having
<1>15. h[D] = Cardinality(K)
  <2> HIDE DEF D
  <2> QED BY <1>5, <1>14
<1> QED BY <1>1, <1>2, <1>13, <1>15

\* All ports together have all lines of complete iterations.
LEMMA PressureOfAllPorts ==
  ASSUME LogInv
  PROVE  MapThenSumSet(CyclesOnPort, DispatchPorts) = Cardinality(CompleteLines)
<1> DEFINE D == DispatchPorts
           Step(s, f) == IF s = {} THEN 0
                         ELSE CyclesOnPort(CHOOSE x \in s : TRUE) + f[s \ {CHOOSE x \in s : TRUE}]
           Is(f) == f = [s \in SUBSET D |-> Step(s, f)]
           it == CHOOSE f : Is(f)
<1>1. MapThenSumSet(CyclesOnPort, DispatchPorts) = it[D]
  BY DEF MapThenSumSet, MapThenFoldSet
<1>2. PICK K, value : K = CompleteLines /\ value = [k \in DOMAIN Lines |-> Lines[k].port]
  OBVIOUS
<1>3. IsFiniteSet(K)
  BY <1>2, CompleteLinesAreFinite
<1>4. PICK g : g = [y \in D |-> Cardinality(Having(K, value, {y}))]
  OBVIOUS
<1>5. PICK h : h = [s \in SUBSET D |-> Cardinality(Having(K, value, s))]
  OBVIOUS
<1>6. ASSUME NEW y PROVE CyclesOnPort(y) = Cardinality(Having(K, value, {y}))
  <2>1. LinesOf(y) = Having(K, value, {y})
    BY <1>2 DEF Having, LinesOf, CompleteLines
  <2> QED BY <2>1, PressureOfPort
<1>7. Sums(g, D, h)
  <2> HIDE DEF D
  <2> QED BY <1>3, <1>4, <1>5, CountsAddUp
<1>8. ASSUME NEW s \in SUBSET D, NEW f
      PROVE  Step(s, f) = IF s = {} THEN 0 ELSE g[Chosen(s)] + f[s \ {Chosen(s)}]
  <2>1. s # {} => Chosen(s) \in D
    BY DEF Chosen
  <2>2. s # {} => g[Chosen(s)] = CyclesOnPort(Chosen(s))
    <3> HIDE DEF D
    <3> QED BY <1>4, <1>6, <2>1
  <2> QED BY <2>2 DEF Chosen
<1>9. Is(h)
  <2>1. ASSUME NEW s \in SUBSET D PROVE h[s] = Step(s, h)
    <3>1. h[s] = IF s = {} THEN 0 ELSE g[Chosen(s)] + h[s \ {Chosen(s)}]
      BY <1>7 DEF Sums
    <3> HIDE DEF Step, D
    <3> QED BY <3>1, <1>8
  <2> HIDE DEF Step, D
  <2> QED BY <2>1, <1>5
<1>10. Is(it)
  <2> HIDE DEF Is
  <2> QED BY <1>9
<1>11. Sums(g, D, it)
  <2>1. ASSUME NEW s \in SUBSET D
        PROVE  it[s] = IF s = {} THEN 0 ELSE g[Chosen(s)] + it[s \ {Chosen(s)}]
    <3>1. it[s] = Step(s, it)
      <4> HIDE DEF Step, it, D
      <4> QED BY <1>10
    <3> HIDE DEF Step, D, it
    <3> QED BY <3>1, <1>8
  <2> HIDE DEF it, D
  <2> QED BY <2>1 DEF Sums
<1>12. IsFiniteSet(D)
  BY RunAssumption
<1>13. it[D] = h[D]
  <2> HIDE DEF it, D
  <2> QED BY <1>7, <1>11, <1>12, OneSum
<1>14. Having(K, value, D) = K
  <2>1. K \in SUBSET DOMAIN Lines
    BY <1>2 DEF CompleteLines
  <2>2. \A k \in K : value[k] \in D
    BY <1>2, <2>1, LineTypes
  <2> QED BY <2>2 DEF Having
<1>15. h[D] = Cardinality(K)
  <2> HIDE DEF D
  <2> QED BY <1>5, <1>14
<1> QED BY <1>1, <1>2, <1>13, <1>15

\* There is one for each instruction of the complete iterations.
LEMMA OneLinePerInstruction ==
  ASSUME LogInv
  PROVE  Cardinality(CompleteLines) = GetNumCompleteIterations * BBLength
<1>1. PICK N \in Nat \ {0}, c \in Nat : N = BBLength /\ c = GetNumCompleteIterations
  <2>1. Len(Iterations) \in Nat
    BY DEF LogInv
  <2> QED BY <2>1, RunAssumption DEF GetNumCompleteIterations
<1>2. PICK m \in Nat : m = N * c
  OBVIOUS
<1>3. PICK K, T : K = CompleteLines /\ T = 0 .. m - 1
  OBVIOUS
<1>4. \A k \in K : k \in DOMAIN Lines
  BY <1>3 DEF CompleteLines
<1>5. PICK f : f = [k \in K |-> Lines[k].instr]
  OBVIOUS
<1>6. ASSUME NEW k \in DOMAIN Lines PROVE k \in K <=> Lines[k].instr \in T
  <2>1. PICK i \in Nat : i = Lines[k].instr
    BY LineTypes
  <2>2. k \in K <=> i \div N < c
    BY <1>1, <1>3, <2>1 DEF CompleteLines
  <2>3. i \div N < c <=> i < m
    BY <1>2, BelowMultiple
  <2> QED BY <1>3, <2>1, <2>2, <2>3
<1>7. f \in [K -> T]
  BY <1>4, <1>5, <1>6
<1>8. \A j, k \in K : f[j] = f[k] => j = k
  BY <1>4, <1>5, CompleteLinesAreFinite DEF LogInv
<1>9. \A i \in T : \E k \in K : f[k] = i
  <2> SUFFICES ASSUME NEW i \in T PROVE \E k \in K : f[k] = i
    OBVIOUS
  <2>1. m <= retired /\ retired \in Nat
    BY <1>1, <1>2 DEF LogInv, GetNumCompleteIterations
  <2>2. i \in 0 .. retired - 1
    BY <1>3, <2>1
  <2>3. PICK k \in DOMAIN Lines : Lines[k].instr = i
    BY <2>2, CompleteLinesAreFinite DEF LogInv
  <2>4. k \in K
    BY <1>6, <2>3
  <2> QED BY <1>5, <2>3, <2>4
<1>10. f \in Bijection(K, T)
  BY <1>7, <1>8, <1>9 DEF Bijection, Injection, Surjection, IsInjective
<1>11. ExistsBijection(K, T)
  BY <1>10 DEF ExistsBijection
<1>12. Cardinality(T) = Cardinality(K)
  BY <1>3, <1>11, CompleteLinesAreFinite, FS_Bijection
<1>13. Cardinality(T) = m
  <2>1. Cardinality(0 .. m - 1) = IF 0 > m - 1 THEN 0 ELSE (m - 1) - 0 + 1
    BY FS_Interval
  <2> QED BY <1>3, <2>1
<1>14. N * c = c * N
  OBVIOUS
<1> QED BY <1>1, <1>2, <1>3, <1>12, <1>13, <1>14

THEOREM PressureOfWholeIterations == LogSpec => []PressureIsOneIteration
<1>1. LogInv => PressureIsOneIteration
  BY PressureOfAllPorts, OneLinePerInstruction DEF PressureIsOneIteration
<1> QED BY <1>1, LogInvariance, PTL

-----------------------------------------------------------------------------
(* Folds.  FoldLeft takes the last position of a set of positions first.   *)

\* What the folds of the simulator do with one element.
Applied(name, acc, x) ==
  IF name = "add" THEN acc + x
  ELSE IF name = "consume" THEN Consume(acc, x)
  ELSE Spread(acc, x)

FoldedOver(name, base, seq, n, h) ==
  h = [s \in SUBSET (1 .. n) |->
         IF s = {} THEN base ELSE Applied(name, h[s \ {Max(s)}], seq[Max(s)])]

\* There is a fixed point of that recursion, whatever the length of the
\* sequence.
LEMMA FoldExists ==
  ASSUME NEW name, NEW base, NEW seq, NEW n \in Nat
  PROVE  \E h : FoldedOver(name, base, seq, n, h)
<1> DEFINE Folds(f, s) ==
             f[s] = IF s = {} THEN base ELSE Applied(name, f[s \ {Max(s)}], seq[Max(s)])
           S == {k \in Nat : \E f : \A s \in SUBSET (1 .. k) : Folds(f, s)}
<1>1. 0 \in S
  <2>1. PICK f : f = [s \in {{}} |-> base]
    OBVIOUS
  <2>2. \A s \in SUBSET (1 .. 0) : s = {}
    OBVIOUS
  <2>3. \A s \in SUBSET (1 .. 0) : Folds(f, s)
    BY <2>1, <2>2
  <2> QED BY <2>3
<1>2. ASSUME NEW k \in Nat, k \in S PROVE k + 1 \in S
  <2>1. PICK f : \A s \in SUBSET (1 .. k) : Folds(f, s)
    BY <1>2
  <2>2. PICK m \in Nat : m = k + 1
    OBVIOUS
  <2>3. PICK g : g = [s \in SUBSET (1 .. m) |->
                        IF m \in s THEN Applied(name, f[s \ {m}], seq[m]) ELSE f[s]]
    OBVIOUS
  <2>4. ASSUME NEW s \in SUBSET (1 .. m) PROVE Folds(g, s)
    <3>1. CASE m \in s
      <4>1. \A e \in s : e <= m
        OBVIOUS
      <4>2. s \in SUBSET Nat
        OBVIOUS
      <4>3. Max(s) = m
        BY <3>1, <4>1, <4>2, MaxIs
      <4>4. PICK r : r = s \ {m}
        OBVIOUS
      <4>5. r \in SUBSET (1 .. m) /\ m \notin r
        <5>1. s \subseteq 1 .. m
          OBVIOUS
        <5> HIDE DEF Folds
        <5> QED BY <4>4, <5>1
      <4>6. g[r] = f[r] /\ g[s] = Applied(name, f[r], seq[m])
        BY <2>3, <3>1, <4>4, <4>5
      <4> QED BY <3>1, <4>3, <4>4, <4>6
    <3>2. CASE m \notin s
      <4>1. s \in SUBSET (1 .. k)
        BY <2>2, <3>2
      <4>2. g[s] = f[s] /\ Folds(f, s)
        BY <2>1, <2>3, <3>2, <4>1
      <4>3. PICK r : r = s \ {Max(s)} /\ r \in SUBSET (1 .. m) /\ m \notin r
        BY <3>2
      <4>4. g[r] = f[r]
        BY <2>3, <4>3
      <4> QED BY <4>2, <4>3, <4>4
    <3> QED BY <3>1, <3>2
  <2> HIDE DEF Folds
  <2> QED BY <2>2, <2>4
<1>3. n \in S
  <2> HIDE DEF S
  <2> QED BY <1>1, <1>2, Reaches
<1>4. PICK f : \A s \in SUBSET (1 .. n) : Folds(f, s)
  BY <1>3
<1>5. PICK h : h = [s \in SUBSET (1 .. n) |-> f[s]]
  OBVIOUS
<1>6. ASSUME NEW s \in SUBSET (1 .. n)
      PROVE  h[s] = IF s = {} THEN base ELSE Applied(name, h[s \ {Max(s)}], seq[Max(s)])
  <2>1. s \ {Max(s)} \in SUBSET (1 .. n)
    OBVIOUS
  <2>2. h[s] = f[s] /\ h[s \ {Max(s)}] = f[s \ {Max(s)}]
    BY <1>5, <2>1
  <2> QED BY <1>4, <2>2
<1> QED BY <1>5, <1>6 DEF FoldedOver

\* it[k] is the value after the first k elements of seq.
Steps(name, base, seq, n, it) ==
  it[0] = base /\ \A k \in 1 .. n : it[k] = Applied(name, it[k - 1], seq[k])

LEMMA FoldSteps ==
  ASSUME NEW name, NEW base, NEW seq, NEW n \in Nat, NEW h,
         FoldedOver(name, base, seq, n, h)
  PROVE  \E it : Steps(name, base, seq, n, it) /\ it[n] = h[1 .. n]
<1>1. PICK it : it = [k \in 0 .. n |-> h[1 .. k]]
  OBVIOUS
<1>2. ASSUME NEW s \in SUBSET (1 .. n)
      PROVE  h[s] = IF s = {} THEN base ELSE Applied(name, h[s \ {Max(s)}], seq[Max(s)])
  BY DEF FoldedOver
<1>3. it[0] = base
  <2>1. 1 .. 0 = {} /\ {} \in SUBSET (1 .. n) /\ 0 \in 0 .. n
    OBVIOUS
  <2>2. h[{}] = base
    BY <1>2, <2>1
  <2> QED BY <1>1, <2>1, <2>2
<1>4. ASSUME NEW k \in 1 .. n PROVE it[k] = Applied(name, it[k - 1], seq[k])
  <2>1. PICK s : s = 1 .. k
    OBVIOUS
  <2>2. s \in SUBSET (1 .. n) /\ s # {} /\ s \ {k} = 1 .. k - 1
    <3>1. \A e \in s : e \in 1 .. n
      BY <2>1
    <3>2. s \ {k} = 1 .. k - 1 /\ k \in s
      BY <2>1
    <3> QED BY <3>1, <3>2
  <2>3. Max(s) = k
    <3>1. s \in SUBSET Nat /\ k \in s /\ \A e \in s : e <= k
      BY <2>1
    <3> QED BY <3>1, MaxIs
  <2>4. it[k] = h[s] /\ it[k - 1] = h[1 .. k - 1]
    BY <1>1, <2>1
  <2> QED BY <1>2, <2>2, <2>3, <2>4
<1>5. it[n] = h[1 .. n]
  BY <1>1
<1> QED BY <1>3, <1>4, <1>5 DEF Steps

-----------------------------------------------------------------------------
(* Inverse throughput.                                                     *)

\* The sum of a sequence of differences telescopes.
LEMMA SumOfDifferences ==
  ASSUME NEW seq \in Seq(Int), NEW n \in Nat, n = Len(seq), NEW E,
         \A k \in 0 .. n : E[k] \in Int,
         \A k \in 1 .. n : seq[k] = E[k] - E[k - 1]
  PROVE  FoldLeft(+, 0, seq) = E[n] - E[0]
<1> DEFINE D == DOMAIN seq
           Is(f) == f = [s \in SUBSET D |->
                           IF s = {} THEN 0 ELSE f[s \ {Max(s)}] + seq[Max(s)]]
           h == CHOOSE f : Is(f)
<1>1. FoldLeft(+, 0, seq) = h[D]
  BY DEF FoldLeft, MapThenFoldSet
<1>2. D = 1 .. n
  OBVIOUS
<1>3. \A f : Is(f) <=> FoldedOver("add", 0, seq, n, f)
  BY <1>2 DEF FoldedOver, Applied
<1> HIDE DEF Is
<1>4. FoldedOver("add", 0, seq, n, h)
  BY <1>3, FoldExists
<1> HIDE DEF h, D
<1>5. PICK it : Steps("add", 0, seq, n, it) /\ it[n] = h[1 .. n]
  BY <1>4, FoldSteps
<1>6. it[0] = 0 /\ \A k \in 1 .. n : it[k] = it[k - 1] + seq[k]
  BY <1>5 DEF Steps, Applied
<1> DEFINE S == {k \in Nat : k <= n => it[k] = E[k] - E[0]}
<1>7. 0 \in S
  <2>1. E[0] \in Int
    OBVIOUS
  <2>2. E[0] - E[0] = 0
    BY <2>1
  <2> QED BY <1>6, <2>2
<1>8. ASSUME NEW k \in Nat, k \in S PROVE k + 1 \in S
  <2> SUFFICES ASSUME k + 1 <= n PROVE it[k + 1] = E[k + 1] - E[0]
    OBVIOUS
  <2>1. PICK m \in 1 .. n : m = k + 1 /\ m - 1 = k
    OBVIOUS
  <2>2. it[k] = E[k] - E[0]
    BY <1>8, <2>1
  <2>3. seq[m] = E[m] - E[m - 1] /\ it[m] = it[m - 1] + seq[m]
    BY <1>6
  <2>4. k \in 0 .. n /\ m \in 0 .. n /\ 0 \in 0 .. n
    BY <2>1
  <2>5. E[k] \in Int /\ E[m] \in Int /\ E[0] \in Int
    BY <2>4
  <2> QED BY <2>1, <2>2, <2>3, <2>5
<1>9. n \in S
  <2> HIDE DEF S
  <2> QED BY <1>7, <1>8, Reaches
<1>10. h[D] = E[n] - E[0]
  BY <1>2, <1>9, <1>5
<1> QED BY <1>1, <1>10

\* Differences that are all at least lo and at most hi.
LEMMA SumBounds ==
  ASSUME NEW n \in Nat, NEW E, NEW lo \in Nat, NEW hi \in Nat,
         \A k \in 0 .. n : E[k] \in Int,
         \A k \in 1 .. n : lo <= E[k] - E[k - 1] /\ E[k] - E[k - 1] <= hi
  PROVE  n * lo <= E[n] - E[0] /\ E[n] - E[0] <= n * hi
<1> DEFINE S == {k \in Nat : k <= n => k * lo <= E[k] - E[0] /\ E[k] - E[0] <= k * hi}
<1>1. 0 \in S
  <2>1. E[0] \in Int
    OBVIOUS
  <2>2. 0 * lo = 0 /\ 0 * hi = 0 /\ E[0] - E[0] = 0
    BY <2>1
  <2> QED BY <2>2
<1>2. ASSUME NEW k \in Nat, k \in S PROVE k + 1 \in S
  <2> SUFFICES ASSUME k + 1 <= n
               PROVE  (k + 1) * lo <= E[k + 1] - E[0] /\ E[k + 1] - E[0] <= (k + 1) * hi
    OBVIOUS
  <2>1. PICK m \in 1 .. n : m = k + 1 /\ m - 1 = k
    OBVIOUS
  <2>2. PICK x, y : x = k * lo /\ y = k * hi
    OBVIOUS
  <2>3. m * lo = x + lo /\ m * hi = y + hi /\ x \in Int /\ y \in Int
    BY <2>1, <2>2
  <2>4. x <= E[k] - E[0] /\ E[k] - E[0] <= y
    BY <1>2, <2>1, <2>2
  <2>5. lo <= E[m] - E[k] /\ E[m] - E[k] <= hi
    BY <2>1
  <2>6. E[k] \in Int /\ E[m] \in Int /\ E[0] \in Int
    BY <2>1
  <2>7. x + lo <= E[m] - E[0] /\ E[m] - E[0] <= y + hi
    BY <2>3, <2>4, <2>5, <2>6
  <2> QED BY <2>1, <2>3, <2>7
<1>3. n \in S
  <2> HIDE DEF S
  <2> QED BY <1>1, <1>2, Reaches
<1> QED BY <1>3

LEMMA EndsInOrder ==
  ASSUME LogInv, NEW k \in 0 .. Len(Iterations)
  PROVE  /\ EndCycleOf(k) \in Nat /\ EndCycleOf(k) <= NumCycles
         /\ k > 0 => EndCycleOf(k - 1) <= EndCycleOf(k)
<1>1. \A j \in 1 .. Len(Iterations) : Iterations[j] \in Nat /\ Iterations[j] <= NumCycles
  BY DEF LogInv, IterationNumbers
<1>2. NumCycles \in Nat /\ Len(Iterations) \in Nat
  BY DEF LogInv
<1>3. CASE k = 0
  BY <1>2, <1>3 DEF EndCycleOf
<1>4. CASE k = 1
  BY <1>1, <1>4 DEF EndCycleOf
<1>5. CASE k > 1
  <2>1. k \in 1 .. Len(Iterations) /\ k - 1 \in 1 .. Len(Iterations) /\ k - 1 <= k /\ k # 0 /\ k - 1 # 0
    BY <1>2, <1>5
  <2>2. Iterations[k - 1] <= Iterations[k]
    BY <2>1 DEF LogInv, IterationNumbers
  <2> QED BY <1>1, <2>1, <2>2 DEF EndCycleOf
<1> QED BY <1>2, <1>3, <1>4, <1>5

LEMMA AnalysesAgree ==
  ASSUME LogInv, GetNumCompleteIterations > 0
  PROVE  LET result == ComputeInverseThroughput
             all == ComputeInverseThroughputs
             last == SubSeq(all, Len(all) - result.NumIterations + 1, Len(all))
         IN  /\ result.TotalNumCycles = FoldLeft(+, 0, last)
             /\ result.NumIterations * result.Min <= result.TotalNumCycles
             /\ result.TotalNumCycles <= result.NumIterations * result.Max
<1>1. PICK c \in Nat : c = GetNumCompleteIterations /\ c = Len(Iterations) /\ c > 0
  <2>1. Len(Iterations) \in Nat
    BY DEF LogInv
  <2> QED BY <2>1 DEF GetNumCompleteIterations
<1>2. PICK k \in Nat : k = c \div 2 /\ k < c
  <2>1. c \div 2 \in Nat /\ c \div 2 < c
    BY <1>1
  <2> QED BY <2>1
<1>3. PICK m \in Nat : m = c - k /\ m > 0
  BY <1>2
<1>4. PICK E : E = [i \in 0 .. m |-> EndCycleOf(k + i)]
  OBVIOUS
<1>5. ASSUME NEW i \in 0 .. m
      PROVE  /\ E[i] \in Nat /\ E[i] <= NumCycles /\ NumCycles \in Nat
             /\ i > 0 => E[i - 1] <= E[i]
  <2>1. k + i \in 0 .. Len(Iterations)
    BY <1>1, <1>3
  <2>2. E[i] = EndCycleOf(k + i)
    BY <1>4
  <2>3. i > 0 => E[i - 1] = EndCycleOf((k + i) - 1)
    <3>1. i > 0 => i - 1 \in 0 .. m /\ k + (i - 1) = (k + i) - 1
      OBVIOUS
    <3> QED BY <3>1, <1>4
  <2>4. i > 0 => k + i > 0
    OBVIOUS
  <2>5. NumCycles \in Nat
    BY DEF LogInv
  <2> QED BY <2>1, <2>2, <2>3, <2>4, <2>5, EndsInOrder
<1>6. PICK t : t = InverseThroughputs(k)
  OBVIOUS
<1>7. t = [i \in 1 .. m |-> E[i] - E[i - 1]]
  <2>1. \A i \in 1 .. m : /\ EndCycleOf(k + i) = E[i]
                          /\ EndCycleOf(k + i - 1) = E[i - 1]
    <3>1. \A i \in 1 .. m : i \in 0 .. m /\ i - 1 \in 0 .. m /\ k + (i - 1) = k + i - 1
      OBVIOUS
    <3> QED BY <3>1, <1>4
  <2> QED BY <1>1, <1>3, <1>6, <2>1 DEF InverseThroughputs
<1>8. \A i \in 1 .. m : t[i] = E[i] - E[i - 1] /\ t[i] \in 0 .. NumCycles
  <2>1. \A i \in 1 .. m : i \in 0 .. m /\ i - 1 \in 0 .. m /\ i > 0
    OBVIOUS
  <2>2. ASSUME NEW i \in 1 .. m PROVE t[i] = E[i] - E[i - 1] /\ t[i] \in 0 .. NumCycles
    <3>1. t[i] = E[i] - E[i - 1]
      BY <1>7
    <3>2. /\ E[i] \in Nat /\ E[i - 1] \in Nat /\ E[i] <= NumCycles /\ NumCycles \in Nat
          /\ E[i - 1] <= E[i]
      BY <2>1, <1>5
    <3> QED BY <3>1, <3>2
  <2> QED BY <2>2
<1>9. DOMAIN t = 1 .. m /\ Range(t) = {t[i] : i \in 1 .. m}
  BY <1>7 DEF Range
<1>10. t \in Seq(Int) /\ Len(t) = m
  <2>1. t \in [1 .. m -> Int]
    BY <1>7, <1>8
  <2> QED BY <1>9, <2>1
\* The minimum and the maximum.
<1>11. PICK T : T = Range(t)
  OBVIOUS
<1>12. T \in SUBSET (0 .. NumCycles) /\ NumCycles \in Nat
  BY <1>8, <1>9, <1>11 DEF LogInv
<1>13. PICK lo \in Nat : lo = Min({UINT_MAX} \cup T) /\ \A x \in T : lo <= x
  <2>1. PICK S : S = {UINT_MAX} \cup T
    OBVIOUS
  <2>2. S \in SUBSET Nat /\ S # {}
    BY <2>1, <1>12 DEF UINT_MAX
  <2>3. PICK x \in S : \A y \in S : x <= y
    BY <2>2, LeastExists
  <2>4. Min(S) = x
    BY <2>2, <2>3, MinIs
  <2> QED BY <2>1, <2>2, <2>3, <2>4
<1>14. PICK hi \in Nat : hi = Max({0} \cup T) /\ \A x \in T : x <= hi
  <2>1. PICK S : S = {0} \cup T
    OBVIOUS
  <2>2. S \in SUBSET (0 .. NumCycles) /\ S # {} /\ S \in SUBSET Nat
    BY <2>1, <1>12
  <2>3. PICK x \in S : \A y \in S : y <= x
    BY <1>12, <2>2, LargestExists
  <2>4. Max(S) = x
    BY <2>2, <2>3, MaxIs
  <2> QED BY <2>1, <2>2, <2>3, <2>4
<1>15. PICK result : result = ComputeInverseThroughput
  OBVIOUS
<1>16. /\ result.NumIterations = m /\ result.Min = lo /\ result.Max = hi
       /\ result.TotalNumCycles = E[m] - E[0]
  <2>1. E[m] = EndCycleOf(c) /\ E[0] = EndCycleOf(k)
    <3>1. m \in 0 .. m /\ 0 \in 0 .. m /\ k + m = c /\ k + 0 = k
      BY <1>2, <1>3
    <3> QED BY <3>1, <1>4
  <2> QED BY <1>1, <1>2, <1>3, <1>6, <1>11, <1>13, <1>14, <1>15, <2>1 DEF ComputeInverseThroughput
<1>17. m * lo <= E[m] - E[0] /\ E[m] - E[0] <= m * hi
  <2>1. \A i \in 0 .. m : E[i] \in Int
    BY <1>5
  <2>2. \A i \in 1 .. m : lo <= E[i] - E[i - 1] /\ E[i] - E[i - 1] <= hi
    BY <1>8, <1>9, <1>11, <1>13, <1>14
  <2> QED BY <2>1, <2>2, SumBounds
\* The list.
<1>18. PICK all : all = ComputeInverseThroughputs
  OBVIOUS
<1>19. PICK d \in 0 .. k : all = InverseThroughputs(d)
  <2>1. PICK d \in Nat : d = Min({k, 5}) /\ d <= k
    <3>1. PICK x \in Nat : x \in {k, 5} /\ x <= k /\ x <= 5
      <4>1. CASE k <= 5
        BY <4>1
      <4>2. CASE ~ (k <= 5)
        BY <4>2
      <4> QED BY <4>1, <4>2
    <3>2. {k, 5} \in SUBSET Nat /\ \A y \in {k, 5} : x <= y
      BY <3>1
    <3>3. Min({k, 5}) = x
      BY <3>1, <3>2, MinIs
    <3> QED BY <3>1, <3>3
  <2>2. all = InverseThroughputs(d)
    BY <1>1, <1>2, <1>18, <2>1 DEF ComputeInverseThroughputs
  <2> QED BY <2>1, <2>2
<1>20. PICK n \in Nat : n = c - d /\ n >= m /\ n - m + d = k
  BY <1>2, <1>3
<1>21. all = [i \in 1 .. n |-> EndCycleOf(d + i) - EndCycleOf(d + i - 1)]
  BY <1>1, <1>19, <1>20 DEF InverseThroughputs
<1>22. Len(all) = n
  BY <1>20, <1>21
<1>23. PICK last : last = SubSeq(all, n - m + 1, n)
  OBVIOUS
<1>24. last = [i \in 1 .. m |-> all[(n - m) + i]]
  <2>1. PICK p \in Nat : p = n - m /\ n = p + m
    BY <1>20
  <2>2. SubSeq(all, p + 1, n) = [i \in 1 .. (n - (p + 1) + 1) |-> all[i + (p + 1) - 1]]
    OBVIOUS
  <2>3. n - (p + 1) + 1 = m
    BY <2>1
  <2>4. \A i \in 1 .. m : i + (p + 1) - 1 = p + i
    BY <2>1
  <2> QED BY <1>23, <2>1, <2>2, <2>3, <2>4
<1>25. \A i \in 1 .. m : last[i] = t[i]
  <2> SUFFICES ASSUME NEW i \in 1 .. m PROVE last[i] = t[i]
    OBVIOUS
  <2>1. (n - m) + i \in 1 .. n /\ d + ((n - m) + i) = k + i /\ d + ((n - m) + i) - 1 = k + i - 1
    BY <1>20
  <2>2. last[i] = EndCycleOf(k + i) - EndCycleOf(k + i - 1)
    BY <1>21, <1>24, <2>1
  <2>3. t[i] = EndCycleOf(k + i) - EndCycleOf(k + i - 1)
    BY <1>1, <1>3, <1>6 DEF InverseThroughputs
  <2> QED BY <2>2, <2>3
<1>26. last = t
  BY <1>7, <1>24, <1>25
<1>27. FoldLeft(+, 0, last) = E[m] - E[0]
  <2>1. \A i \in 0 .. m : E[i] \in Int
    BY <1>5
  <2> QED BY <1>8, <1>10, <1>26, <2>1, SumOfDifferences
<1> QED BY <1>15, <1>16, <1>17, <1>18, <1>22, <1>23, <1>27

THEOREM ThroughputsAreConsistent == LogSpec => []ThroughputsAgree
<1>1. LogInv => ThroughputsAgree
  BY AnalysesAgree DEF ThroughputsAgree
<1> QED BY <1>1, LogInvariance, PTL

-----------------------------------------------------------------------------
(* Decomposition: what the scheduling model says is added up over the      *)
(* hierarchy of resources, and taken apart again.                          *)

LEMMA Bounded ==
  ASSUME NEW n \in Nat, NEW f, \A k \in 1 .. n : f[k] \in Nat
  PROVE  \E M \in Nat : \A k \in 1 .. n : f[k] <= M
<1> DEFINE S == {j \in Nat : j <= n => \E M \in Nat : \A k \in 1 .. j : f[k] <= M}
<1>1. 0 \in S
  <2>1. \A k \in 1 .. 0 : f[k] <= 0
    OBVIOUS
  <2> QED BY <2>1
<1>2. ASSUME NEW j \in Nat, j \in S PROVE j + 1 \in S
  <2> SUFFICES ASSUME j + 1 <= n PROVE \E M \in Nat : \A k \in 1 .. j + 1 : f[k] <= M
    OBVIOUS
  <2>1. j <= n /\ j + 1 \in 1 .. n
    OBVIOUS
  <2>2. PICK M \in Nat : \A k \in 1 .. j : f[k] <= M
    BY <1>2, <2>1
  <2>3. PICK x \in Nat : x = f[j + 1]
    BY <2>1
  <2>4. PICK B \in Nat : B = M + x
    OBVIOUS
  <2>5. ASSUME NEW k \in 1 .. j + 1 PROVE f[k] <= B
    <3>1. CASE k = j + 1
      BY <2>3, <2>4, <3>1
    <3>2. CASE k # j + 1
      <4>1. k \in 1 .. j /\ k \in 1 .. n
        BY <2>1, <3>2
      <4>2. f[k] \in Nat /\ f[k] <= M
        BY <2>2, <4>1
      <4> QED BY <2>4, <4>2
    <3> QED BY <3>1, <3>2
  <2> QED BY <2>5
<1>3. n \in S
  <2> HIDE DEF S
  <2> QED BY <1>1, <1>2, Reaches
<1> QED BY <1>3

\* total[s] is the sum of u over s, in any order.
TotalOf(u, n, total) ==
  /\ total[{}] = 0
  /\ \A s \in SUBSET (1 .. n) :
       total[s] \in Nat /\ \A x \in s : total[s] = u[x] + total[s \ {x}]

LEMMA TotalExists ==
  ASSUME NEW n \in Nat, NEW u, \A k \in 1 .. n : u[k] \in Nat
  PROVE  \E total : TotalOf(u, n, total)
<1>1. PICK M \in Nat : \A k \in 1 .. n : u[k] <= M
  BY Bounded
<1>2. PICK K, value : /\ K = {p \in (1 .. n) \X (1 .. M) : p[2] <= u[p[1]]}
                      /\ value = [p \in K |-> p[1]]
  OBVIOUS
<1>3. IsFiniteSet(K)
  <2>1. IsFiniteSet(1 .. n) /\ IsFiniteSet(1 .. M)
    BY FS_Interval
  <2>2. IsFiniteSet((1 .. n) \X (1 .. M))
    BY <2>1, FS_Product
  <2>3. K \subseteq (1 .. n) \X (1 .. M)
    BY <1>2
  <2> QED BY <2>2, <2>3, FS_Subset
<1>4. PICK total : total = [s \in SUBSET (1 .. n) |-> Cardinality(Having(K, value, s))]
  OBVIOUS
<1>5. ASSUME NEW x \in 1 .. n PROVE Cardinality(Having(K, value, {x})) = u[x]
  <2>1. PICK c \in Nat : c = u[x]
    OBVIOUS
  <2>2. c <= M
    BY <1>1, <2>1
  <2>3. PICK b : b = [j \in 1 .. c |-> <<x, j>>]
    OBVIOUS
  <2>4. ASSUME NEW j \in 1 .. c PROVE <<x, j>> \in Having(K, value, {x})
    <3>1. j \in 1 .. M /\ j <= u[x]
      BY <2>1, <2>2
    <3>2. <<x, j>> \in K
      BY <1>2, <3>1
    <3> QED BY <1>2, <3>2 DEF Having
  <2>5. ASSUME NEW p \in Having(K, value, {x}) PROVE \E j \in 1 .. c : <<x, j>> = p
    <3>1. p \in (1 .. n) \X (1 .. M) /\ p[2] <= u[p[1]] /\ p[1] = x
      BY <1>2 DEF Having
    <3>2. p = <<x, p[2]>> /\ p[2] \in 1 .. M
      BY <3>1
    <3> QED BY <2>1, <3>1, <3>2
  <2>6. b \in Bijection(1 .. c, Having(K, value, {x}))
    <3>1. b \in [1 .. c -> Having(K, value, {x})]
      BY <2>3, <2>4
    <3>2. \A i, j \in 1 .. c : b[i] = b[j] => i = j
      BY <2>3
    <3>3. \A p \in Having(K, value, {x}) : \E j \in 1 .. c : b[j] = p
      BY <2>3, <2>5
    <3> QED BY <3>1, <3>2, <3>3 DEF Bijection, Injection, Surjection, IsInjective
  <2>7. ExistsBijection(1 .. c, Having(K, value, {x}))
    BY <2>6 DEF ExistsBijection
  <2> QED BY <2>1, <2>7, FS_CountingElements
<1>6. total[{}] = 0
  <2>1. Having(K, value, {}) = {}
    BY DEF Having
  <2> QED BY <1>4, <2>1, FS_EmptySet
<1>7. ASSUME NEW s \in SUBSET (1 .. n) PROVE total[s] \in Nat
  <2>1. IsFiniteSet(Having(K, value, s))
    BY <1>3, FS_Subset DEF Having
  <2> QED BY <1>4, <2>1, FS_CardinalityType
<1>8. ASSUME NEW s \in SUBSET (1 .. n), NEW x \in s PROVE total[s] = u[x] + total[s \ {x}]
  <2>1. Cardinality(Having(K, value, s)) =
          Cardinality(Having(K, value, {x})) + Cardinality(Having(K, value, s \ {x}))
    BY <1>3, CountByValue
  <2>2. total[s] = Cardinality(Having(K, value, s))
        /\ total[s \ {x}] = Cardinality(Having(K, value, s \ {x}))
    BY <1>4
  <2> QED BY <1>5, <2>1, <2>2
<1>9. \A s \in SUBSET (1 .. n) :
        total[s] \in Nat /\ \A x \in s : total[s] = u[x] + total[s \ {x}]
  BY <1>7, <1>8
<1>10. TotalOf(u, n, total)
  BY <1>6, <1>9 DEF TotalOf
<1> QED BY <1>10

\* What LLVM says of a resource: its own uops, and those of the resources that
\* it contains.
LEMMA DenormalizedCycles ==
  ASSUME NEW n \in Nat, Resources = 1 .. n, NEW class, NEW total,
         TotalOf(class.uops, n, total), NEW r \in Resources
  PROVE  WriteProcRes(class)[r] =
           class.uops[r] + total[{s \in Resources : r \in SuperResources(s)}]
<1> DEFINE D == {s \in Resources : r \in SuperResources(s)}
           Step(s, f) == IF s = {} THEN 0
                         ELSE class.uops[CHOOSE x \in s : TRUE] + f[s \ {CHOOSE x \in s : TRUE}]
           Is(f) == f = [s \in SUBSET D |-> Step(s, f)]
           it == CHOOSE f : Is(f)
<1>1. WriteProcRes(class)[r] = class.uops[r] + it[D]
  BY DEF WriteProcRes, MapThenSumSet, MapThenFoldSet
<1>2. PICK u, h : u = class.uops /\ h = [s \in SUBSET D |-> total[s]]
  OBVIOUS
<1>3. D \in SUBSET (1 .. n) /\ SUBSET D \subseteq SUBSET (1 .. n)
  OBVIOUS
<1>4. Sums(u, D, h)
  <2> HIDE DEF D
  <2> SUFFICES ASSUME NEW s \in SUBSET D
               PROVE  h[s] = IF s = {} THEN 0 ELSE u[Chosen(s)] + h[s \ {Chosen(s)}]
    BY DEF Sums
  <2>1. h[s] = total[s] /\ h[s \ {Chosen(s)}] = total[s \ {Chosen(s)}]
    BY <1>2
  <2>2. s \in SUBSET (1 .. n) /\ (s # {} => Chosen(s) \in s)
    BY <1>3 DEF Chosen
  <2> QED BY <1>2, <2>1, <2>2 DEF TotalOf
<1>5. ASSUME NEW s \in SUBSET D, NEW f
      PROVE  Step(s, f) = IF s = {} THEN 0 ELSE u[Chosen(s)] + f[s \ {Chosen(s)}]
  BY <1>2 DEF Chosen
<1>6. Is(h)
  <2>1. ASSUME NEW s \in SUBSET D PROVE h[s] = Step(s, h)
    <3>1. h[s] = IF s = {} THEN 0 ELSE u[Chosen(s)] + h[s \ {Chosen(s)}]
      BY <1>4 DEF Sums
    <3> HIDE DEF Step, D
    <3> QED BY <3>1, <1>5
  <2> HIDE DEF Step, D
  <2> QED BY <2>1, <1>2
<1>7. Is(it)
  <2> HIDE DEF Is
  <2> QED BY <1>6
<1>8. Sums(u, D, it)
  <2>1. ASSUME NEW s \in SUBSET D
        PROVE  it[s] = IF s = {} THEN 0 ELSE u[Chosen(s)] + it[s \ {Chosen(s)}]
    <3>1. it[s] = Step(s, it)
      <4> HIDE DEF Step, it, D
      <4> QED BY <1>7
    <3> HIDE DEF Step, D, it
    <3> QED BY <3>1, <1>5
  <2> HIDE DEF it, D
  <2> QED BY <2>1 DEF Sums
<1>9. IsFiniteSet(D)
  <2>1. IsFiniteSet(1 .. n)
    BY FS_Interval
  <2> QED BY <1>3, <2>1, FS_Subset
<1>10. it[D] = h[D]
  <2> HIDE DEF it, D
  <2> QED BY <1>4, <1>8, <1>9, OneSum
<1>11. h[D] = total[D]
  <2> HIDE DEF D
  <2> QED BY <1>2
<1> QED BY <1>1, <1>10, <1>11

\* Where a resource stands in a list of uops.
UopsOn(r, uops) == {i \in 1 .. Len(uops) : uops[i] = r}

\* The uops s, those of the first k resources, and c uops of the next one.
Emits(s, k, c, t) ==
  /\ t \in Seq(Nat) /\ \A i \in 1 .. Len(t) : t[i] \in 1 .. k + 1
  /\ \A r \in 1 .. k : UopsOn(r, t) = UopsOn(r, s)
  /\ Cardinality(UopsOn(k + 1, t)) = c

OfFirst(s, k) == s \in Seq(Nat) /\ \A i \in 1 .. Len(s) : s[i] \in 1 .. k

LEMMA AppendCopies ==
  ASSUME NEW k \in Nat, NEW c \in Nat, NEW s, OfFirst(s, k)
  PROVE  Emits(s, k, c, s \o Copies(c, k + 1))
<1>1. PICK m \in Nat : m = k + 1
  OBVIOUS
<1> DEFINE t == s \o Copies(c, m)
<1>2. s \in Seq(Nat) /\ \A i \in 1 .. Len(s) : s[i] \in 1 .. k
  BY DEF OfFirst
<1>3. PICK b : b = Copies(c, m)
  OBVIOUS
<1>4. b \in Seq(Nat) /\ Len(b) = c /\ \A i \in 1 .. c : b[i] = m
  <2>1. b = [i \in 1 .. c |-> m]
    BY <1>3 DEF Copies
  <2> QED BY <2>1
<1>5. Len(s) \in Nat
  BY <1>2
<1>6. PICK l \in Nat : l = Len(s)
  BY <1>5
<1>7. /\ t \in Seq(Nat) /\ Len(t) = l + c
      /\ \A i \in 1 .. l + c : t[i] = IF i <= l THEN s[i] ELSE b[i - l]
  <2>1. t = s \o b
    BY <1>1, <1>3 DEF t
  <2>2. /\ s \o b \in Seq(Nat) /\ Len(s \o b) = Len(s) + Len(b)
        /\ \A i \in 1 .. Len(s) + Len(b) :
             (s \o b)[i] = IF i <= Len(s) THEN s[i] ELSE b[i - Len(s)]
    BY <1>4, <1>2, ConcatProperties
  <2> QED BY <1>4, <1>6, <2>1, <2>2
<1> HIDE DEF t
<1>8. ASSUME NEW i \in 1 .. l + c
      PROVE  /\ i <= l => t[i] = s[i] /\ t[i] \in 1 .. k
             /\ i > l => t[i] = m
  <2>1. CASE i <= l
    BY <1>6, <1>7, <1>2, <2>1
  <2>2. CASE i > l
    <3>1. i - l \in 1 .. c
      BY <2>2
    <3> QED BY <1>4, <1>7, <2>2, <3>1
  <2> QED BY <2>1, <2>2
<1>9. \A i \in 1 .. Len(t) : t[i] \in 1 .. m
  <2> SUFFICES ASSUME NEW i \in 1 .. l + c PROVE t[i] \in 1 .. m
    BY <1>7
  <2>1. i <= l \/ i > l
    OBVIOUS
  <2>2. 1 .. k \subseteq 1 .. m /\ m \in 1 .. m
    BY <1>1
  <2> QED BY <1>8, <2>1, <2>2
<1>10. ASSUME NEW r \in 1 .. k PROVE UopsOn(r, t) = UopsOn(r, s)
  <2>1. ASSUME NEW i \in UopsOn(r, t) PROVE i \in UopsOn(r, s)
    <3>1. i \in 1 .. l + c /\ t[i] = r /\ r # m
      BY <1>1, <1>7 DEF UopsOn
    <3>2. ~ (i > l)
      BY <1>8, <3>1
    <3>3. i \in 1 .. l /\ i <= l
      <4>1. PICK j \in 1 .. l + c : j = i
        BY <3>1
      <4>2. j <= l
        BY <3>2, <4>1
      <4> QED BY <4>1, <4>2
    <3>4. i \in 1 .. l /\ t[i] = s[i]
      BY <1>8, <3>1, <3>3
    <3> QED BY <1>6, <3>1, <3>4 DEF UopsOn
  <2>2. ASSUME NEW i \in UopsOn(r, s) PROVE i \in UopsOn(r, t)
    BY <1>6, <1>7, <1>8 DEF UopsOn
  <2> QED BY <2>1, <2>2
<1>11. UopsOn(m, t) = l + 1 .. l + c
  <2>1. ASSUME NEW i \in UopsOn(m, t) PROVE i \in l + 1 .. l + c
    BY <1>1, <1>7, <1>8 DEF UopsOn
  <2>2. ASSUME NEW i \in l + 1 .. l + c PROVE i \in UopsOn(m, t)
    BY <1>7, <1>8 DEF UopsOn
  <2> QED BY <2>1, <2>2
<1>12. Cardinality(l + 1 .. l + c) = c
  <2>1. Cardinality(l + 1 .. l + c) =
          IF l + 1 > l + c THEN 0 ELSE (l + c) - (l + 1) + 1
    BY FS_Interval
  <2> QED BY <2>1
<1>13. Emits(s, k, c, t)
  BY <1>1, <1>7, <1>9, <1>10, <1>11, <1>12 DEF Emits
<1> QED BY <1>1, <1>13 DEF t

\* After the first k resources: their uops are emitted, and what is left of the
\* others are their own uops and those of the resources from k + 1 that they
\* contain.
ConsumedUpTo(acc, u, n, total, k) ==
  /\ acc.uops \in Seq(Nat)
  /\ \A i \in 1 .. Len(acc.uops) : acc.uops[i] \in 1 .. k
  /\ \A r \in 1 .. k : Cardinality(UopsOn(r, acc.uops)) = u[r]
  /\ \A r \in k + 1 .. n :
       acc.cycles[r] = u[r] + total[{s \in k + 1 .. n : r \in SuperResources(s)}]

LEMMA ConsumeOne ==
  ASSUME NEW n \in Nat, Resources = 1 .. n, NEW u, \A r \in 1 .. n : u[r] \in Nat,
         NEW total, TotalOf(u, n, total), NEW k \in 0 .. n - 1, NEW acc,
         ConsumedUpTo(acc, u, n, total, k)
  PROVE  ConsumedUpTo(Consume(acc, k + 1), u, n, total, k + 1)
<1>1. PICK m \in 1 .. n : m = k + 1
  OBVIOUS
<1>2. \A i, j \in 1 .. n : j \in SuperResources(i) => i < j
  BY ResourcesInOrder
<1>3. acc.cycles[m] = u[m]
  <2>1. {s \in k + 1 .. n : m \in SuperResources(s)} = {}
    <3>1. ASSUME NEW s \in k + 1 .. n PROVE m \notin SuperResources(s)
      <4>1. s \in 1 .. n /\ ~ (s < m)
        BY <1>1
      <4> QED BY <1>2, <4>1
    <3> QED BY <3>1
  <2>2. m \in k + 1 .. n
    BY <1>1
  <2>3. acc.cycles[m] = u[m] + total[{s \in k + 1 .. n : m \in SuperResources(s)}]
    BY <2>2 DEF ConsumedUpTo
  <2>4. acc.cycles[m] = u[m] + 0
    BY <2>1, <2>3 DEF TotalOf
  <2>5. u[m] \in Nat
    OBVIOUS
  <2> QED BY <2>4, <2>5
<1>4. PICK next : next = Consume(acc, m)
  OBVIOUS
<1>5. next.uops = acc.uops \o Copies(u[m], m)
  BY <1>3, <1>4 DEF Consume
<1>6. PICK t : t = next.uops
  OBVIOUS
<1>7. /\ t \in Seq(Nat) /\ \A i \in 1 .. Len(t) : t[i] \in 1 .. m
      /\ \A r \in 1 .. k : UopsOn(r, t) = UopsOn(r, acc.uops)
      /\ Cardinality(UopsOn(m, t)) = u[m]
  <2>1. OfFirst(acc.uops, k) /\ k \in Nat
    BY DEF ConsumedUpTo, OfFirst
  <2>2. PICK c \in Nat : c = u[m]
    OBVIOUS
  <2>3. Emits(acc.uops, k, c, acc.uops \o Copies(c, k + 1))
    BY <2>1, AppendCopies
  <2>4. Emits(acc.uops, k, u[m], t)
    BY <1>1, <1>5, <1>6, <2>2, <2>3
  <2> QED BY <1>1, <2>4 DEF Emits
<1>8. ASSUME NEW r \in 1 .. m PROVE Cardinality(UopsOn(r, t)) = u[r]
  <2>1. CASE r = m
    BY <1>7, <2>1
  <2>2. CASE r # m
    <3>1. r \in 1 .. k
      BY <1>1, <2>2
    <3> QED BY <1>7, <3>1 DEF ConsumedUpTo
  <2> QED BY <2>1, <2>2
<1>9. ASSUME NEW r \in m + 1 .. n
      PROVE  next.cycles[r] = u[r] + total[{s \in m + 1 .. n : r \in SuperResources(s)}]
  <2>1. PICK A, B : /\ A = {s \in k + 1 .. n : r \in SuperResources(s)}
                    /\ B = {s \in m + 1 .. n : r \in SuperResources(s)}
    OBVIOUS
  <2>2. A \in SUBSET (1 .. n) /\ B \in SUBSET (1 .. n) /\ r \in 1 .. n /\ r # m
    BY <1>1, <2>1
  <2>3. acc.cycles[r] = u[r] + total[A]
    <3>1. r \in k + 1 .. n
      BY <1>1
    <3> QED BY <2>1, <3>1 DEF ConsumedUpTo
  <2>4. next.cycles[r] = IF r \in SuperResources(m) THEN acc.cycles[r] - u[m] ELSE acc.cycles[r]
    BY <1>3, <1>4, <2>2 DEF Consume
  <2>5. total[A] \in Nat /\ total[B] \in Nat /\ u[r] \in Nat /\ u[m] \in Nat
    BY <2>2 DEF TotalOf
  <2>6. CASE r \in SuperResources(m)
    <3>1. m \in A /\ B = A \ {m}
      BY <1>1, <2>1, <2>6
    <3>2. total[A] = u[m] + total[B]
      BY <2>2, <3>1 DEF TotalOf
    <3> QED BY <2>1, <2>3, <2>4, <2>5, <2>6, <3>2
  <2>7. CASE r \notin SuperResources(m)
    <3>1. A = B
      BY <1>1, <2>1, <2>7
    <3> QED BY <2>1, <2>3, <2>4, <2>7, <3>1
  <2> QED BY <2>6, <2>7
<1>10. ConsumedUpTo(next, u, n, total, m)
  BY <1>6, <1>7, <1>8, <1>9 DEF ConsumedUpTo
<1> QED BY <1>1, <1>4, <1>10

\* So many uops on each resource as the author of the model has put there.
LEMMA UopsOfClass ==
  ASSUME NEW n \in Nat, Resources = 1 .. n, NEW class, \A r \in 1 .. n : class.uops[r] \in Nat
  PROVE  /\ ComputeInstructionUops(class) \in Seq(Nat)
         /\ \A r \in 1 .. n :
              Cardinality(UopsOn(r, ComputeInstructionUops(class))) = class.uops[r]
<1>1. PICK u, base, seq : /\ u = class.uops
                          /\ base = [uops |-> << >>, cycles |-> WriteProcRes(class)]
                          /\ seq = [r \in Resources |-> r]
  OBVIOUS
<1>2. \A r \in 1 .. n : u[r] \in Nat
  BY <1>1
<1>3. PICK total : TotalOf(u, n, total)
  BY <1>2, TotalExists
<1> DEFINE D == DOMAIN seq
           Is(f) == f = [s \in SUBSET D |->
                           IF s = {} THEN base ELSE Consume(f[s \ {Max(s)}], seq[Max(s)])]
           h == CHOOSE f : Is(f)
<1>4. FoldLeft(Consume, base, seq) = h[D]
  BY DEF FoldLeft, MapThenFoldSet
<1>5. D = 1 .. n
  BY <1>1
<1>6. \A f : Is(f) <=> FoldedOver("consume", base, seq, n, f)
  BY <1>5 DEF FoldedOver, Applied
<1> HIDE DEF Is
<1>7. FoldedOver("consume", base, seq, n, h)
  BY <1>6, FoldExists
<1> HIDE DEF h, D
<1>8. PICK it : Steps("consume", base, seq, n, it) /\ it[n] = h[1 .. n]
  BY <1>7, FoldSteps
<1>9. it[0] = base /\ \A k \in 1 .. n : it[k] = Consume(it[k - 1], k)
  BY <1>1, <1>8 DEF Steps, Applied
<1>10. ConsumedUpTo(base, u, n, total, 0)
  <2>1. base.uops = << >> /\ base.cycles = WriteProcRes(class)
    BY <1>1
  <2>2. ASSUME NEW r \in 1 .. n
        PROVE  base.cycles[r] = u[r] + total[{s \in 1 .. n : r \in SuperResources(s)}]
    <3>1. r \in Resources /\ TotalOf(class.uops, n, total)
      BY <1>1, <1>3
    <3>2. WriteProcRes(class)[r] =
            class.uops[r] + total[{s \in Resources : r \in SuperResources(s)}]
      BY <3>1, DenormalizedCycles
    <3> QED BY <1>1, <2>1, <3>2
  <2>3. << >> \in Seq(Nat) /\ Len(<< >>) = 0
    OBVIOUS
  <2> QED BY <2>1, <2>2, <2>3 DEF ConsumedUpTo
<1> DEFINE S == {k \in Nat : k <= n => ConsumedUpTo(it[k], u, n, total, k)}
<1>11. 0 \in S
  BY <1>9, <1>10
<1>12. ASSUME NEW k \in Nat, k \in S PROVE k + 1 \in S
  <2> SUFFICES ASSUME k + 1 <= n PROVE ConsumedUpTo(it[k + 1], u, n, total, k + 1)
    OBVIOUS
  <2>1. k \in 0 .. n - 1 /\ k + 1 \in 1 .. n /\ (k + 1) - 1 = k /\ k <= n
    OBVIOUS
  <2>2. ConsumedUpTo(it[k], u, n, total, k)
    BY <1>12, <2>1
  <2>3. it[k + 1] = Consume(it[k], k + 1)
    BY <1>9, <2>1
  <2>4. PICK acc : acc = it[k]
    OBVIOUS
  <2>5. ConsumedUpTo(Consume(acc, k + 1), u, n, total, k + 1)
    BY <1>2, <1>3, <2>1, <2>2, <2>4, ConsumeOne
  <2> QED BY <2>3, <2>4, <2>5
<1>13. n \in S
  <2> HIDE DEF S
  <2> QED BY <1>11, <1>12, Reaches
<1>14. PICK consumed : consumed = FoldLeft(Consume, base, seq)
  OBVIOUS
<1>15. /\ consumed.uops \in Seq(Nat)
       /\ \A r \in 1 .. n : Cardinality(UopsOn(r, consumed.uops)) = u[r]
  <2>1. ConsumedUpTo(consumed, u, n, total, n)
    BY <1>4, <1>5, <1>8, <1>13, <1>14
  <2> QED BY <2>1 DEF ConsumedUpTo
<1>16. ComputeInstructionUops(class) =
         IF consumed.uops = << >> /\ class.num_micro_ops = 1 THEN <<0>> ELSE consumed.uops
  BY <1>1, <1>14 DEF ComputeInstructionUops
<1>17. CASE consumed.uops = << >> /\ class.num_micro_ops = 1
  <2>1. ASSUME NEW r \in 1 .. n PROVE UopsOn(r, <<0>>) = UopsOn(r, << >>)
    <3>1. UopsOn(r, <<0>>) = {}
      BY DEF UopsOn
    <3>2. UopsOn(r, << >>) = {}
      BY DEF UopsOn
    <3> QED BY <3>1, <3>2
  <2> QED BY <1>1, <1>15, <1>16, <1>17, <2>1
<1>18. CASE ~ (consumed.uops = << >> /\ class.num_micro_ops = 1)
  BY <1>1, <1>15, <1>16, <1>18
<1> QED BY <1>17, <1>18

LEMMA LatencyOfClass ==
  ASSUME NEW class, class.latencies \in Seq(Nat)
  PROVE  MaxDefLatency(class) \in Nat \ {0}
<1>1. PICK s \in Seq(Nat) : s = class.latencies
  OBVIOUS
<1>2. PICK m \in Nat : m = Len(s)
  OBVIOUS
<1>3. \A k \in 1 .. m : s[k] \in Nat
  BY <1>2
<1>4. PICK M \in Nat : \A k \in 1 .. m : s[k] <= M
  BY <1>3, Bounded
<1>5. PICK R : R = {1} \cup Range(s)
  OBVIOUS
<1>6. Range(s) = {s[k] : k \in 1 .. m}
  BY <1>2 DEF Range
<1>7. PICK B \in Nat : B = M + 1
  OBVIOUS
<1>8. R \in SUBSET (0 .. B) /\ 1 \in R
  <2>1. ASSUME NEW e \in R PROVE e \in 0 .. B
    <3>1. CASE e = 1
      BY <1>7, <3>1
    <3>2. CASE e # 1
      <4>1. PICK k \in 1 .. m : e = s[k]
        BY <1>5, <1>6, <3>2
      <4>2. PICK x \in Nat : x = e
        BY <1>3, <4>1
      <4>3. x <= M
        BY <1>4, <4>1, <4>2
      <4> QED BY <1>7, <4>2, <4>3
    <3> QED BY <3>1, <3>2
  <2> QED BY <1>5, <2>1
<1>9. PICK top \in R : \A e \in R : e <= top
  BY <1>8, LargestExists
<1>10. top \in Nat /\ 1 <= top /\ R \in SUBSET Nat
  BY <1>8, <1>9
<1>11. Max(R) = top
  BY <1>9, <1>10, MaxIs
<1>12. MaxDefLatency(class) = Max(R)
  BY <1>1, <1>5 DEF MaxDefLatency
<1> QED BY <1>10, <1>11, <1>12

\* A share of what is left, rounded up: no more than there is, something if
\* there is something, and all of it for the last uop.
LEMMA Share ==
  ASSUME NEW a \in Nat, NEW left \in Nat \ {0}
  PROVE  /\ (a + left - 1) \div left \in 0 .. a
         /\ a > 0 => (a + left - 1) \div left > 0
         /\ left = 1 => (a + left - 1) \div left = a
<1>1. PICK b \in Nat : b = a + left - 1
  OBVIOUS
<1>2. PICK q, r : q = b \div left /\ r = (b % left)
  OBVIOUS
<1>3. q \in Nat /\ r \in 0 .. left - 1 /\ b = left * q + r
  BY <1>2, DivIs
<1>4. PICK x, y, z : x = left * q /\ y = left * a /\ z = left * 0
  OBVIOUS
<1>5. /\ x \in Int /\ y \in Int /\ z = 0
      /\ a < q => y + left <= x
      /\ q < 1 => q = 0 /\ x = 0
      /\ left = 1 => x = q
  BY <1>3, <1>4, Times
<1>6. y >= a
  <2>1. CASE a = 0
    BY <1>4, <2>1
  <2>2. CASE a # 0
    <3>1. PICK d \in Nat : left = d + 1
      <4>1. left - 1 \in Nat /\ left = (left - 1) + 1
        OBVIOUS
      <4> QED BY <4>1
    <3>2. y = d * a + a /\ d * a \in Nat
      BY <1>4, <3>1
    <3> QED BY <3>2
  <2> QED BY <2>1, <2>2
<1>7. b = x + r
  BY <1>3, <1>4
<1>8. q <= a
  BY <1>1, <1>3, <1>5, <1>6, <1>7
<1>9. a > 0 => q > 0
  BY <1>1, <1>3, <1>5, <1>7
<1>10. left = 1 => q = a
  BY <1>1, <1>3, <1>5, <1>7
<1> QED BY <1>1, <1>2, <1>3, <1>8, <1>9, <1>10

\* After the first k of m uops with a latency of L in all: they stand on their
\* resources, take a cycle or more, and end where the next one starts; the
\* last one has left nothing.
UopsSoFar(uops, resources, k, end) ==
  /\ uops \in Seq([procResIdx : Nat, startCycle : Nat, endCycle : Nat]) /\ Len(uops) = k
  /\ \A i \in 1 .. k : /\ uops[i].procResIdx = resources[i]
                       /\ uops[i].endCycle > uops[i].startCycle
  /\ k > 0 => uops[k].endCycle = end

SpreadUpTo(acc, resources, m, L, k) ==
  /\ UopsSoFar(acc.uops, resources, k, acc.prevEnd)
  /\ acc.latency \in Nat /\ acc.remaining = m - k /\ acc.prevEnd = L - acc.latency
  /\ acc.prevEnd \in Nat /\ (k > 0 => acc.prevEnd > 0)
  /\ k > 0 /\ k = m => acc.latency = 0

LEMMA OneMoreUop ==
  ASSUME NEW uops, NEW resources, NEW k \in Nat, NEW start \in Nat, NEW end \in Nat,
         NEW before, UopsSoFar(uops, resources, k, before),
         resources[k + 1] \in Nat, start < end, NEW uop,
         uop = [procResIdx |-> resources[k + 1], endCycle |-> end, startCycle |-> start]
  PROVE  UopsSoFar(Append(uops, uop), resources, k + 1, end)
<1>1. PICK U : U = [procResIdx : Nat, startCycle : Nat, endCycle : Nat]
  OBVIOUS
<1>2. uop \in U /\ uop.procResIdx = resources[k + 1] /\ uop.endCycle = end /\ uop.startCycle = start
  BY <1>1
<1>3. uops \in Seq(U) /\ Len(uops) = k
  BY <1>1 DEF UopsSoFar
<1>4. PICK t : t = Append(uops, uop)
  OBVIOUS
<1>5. /\ t \in Seq(U) /\ Len(t) = k + 1 /\ t[k + 1] = uop
      /\ \A i \in 1 .. k : t[i] = uops[i]
  BY <1>2, <1>3, <1>4, AppendProperties
<1>6. ASSUME NEW i \in 1 .. k + 1
      PROVE  t[i].procResIdx = resources[i] /\ t[i].endCycle > t[i].startCycle
  <2>1. CASE i = k + 1
    BY <1>2, <1>5, <2>1
  <2>2. CASE i # k + 1
    <3>1. i \in 1 .. k
      BY <2>2
    <3>2. t[i] = uops[i]
      BY <1>5, <3>1
    <3>3. uops[i].procResIdx = resources[i] /\ uops[i].endCycle > uops[i].startCycle
      BY <3>1 DEF UopsSoFar
    <3> QED BY <3>2, <3>3
  <2> QED BY <2>1, <2>2
<1>7. t[k + 1].endCycle = end
  BY <1>2, <1>5
<1>8. UopsSoFar(t, resources, k + 1, end)
  BY <1>1, <1>5, <1>6, <1>7 DEF UopsSoFar
<1> QED BY <1>4, <1>8

LEMMA SpreadOne ==
  ASSUME NEW m \in Nat, NEW L \in Nat \ {0}, NEW resources,
         NEW k \in 0 .. m - 1, resources[k + 1] \in Nat,
         NEW acc, SpreadUpTo(acc, resources, m, L, k)
  PROVE  SpreadUpTo(Spread(acc, resources[k + 1]), resources, m, L, k + 1)
<1>1. PICK a, e \in Nat : a = acc.latency /\ e = acc.prevEnd
  BY DEF SpreadUpTo
<1>2. PICK left \in Nat \ {0} : left = acc.remaining /\ left = m - k
  <2>1. m - k \in Nat \ {0}
    OBVIOUS
  <2> QED BY <2>1 DEF SpreadUpTo
<1>3. e = L - a /\ (k > 0 => e > 0) /\ UopsSoFar(acc.uops, resources, k, e)
  BY <1>1 DEF SpreadUpTo
<1>4. PICK q \in Nat : /\ q = (a + left - 1) \div left /\ q <= a
                       /\ (a > 0 => q > 0) /\ (left = 1 => q = a)
  <2>1. PICK q : q = (a + left - 1) \div left
    OBVIOUS
  <2>2. q \in 0 .. a /\ (a > 0 => q > 0) /\ (left = 1 => q = a)
    BY <2>1, Share
  <2> QED BY <2>1, <2>2
<1>5. PICK end \in Nat : end = e + q
  OBVIOUS
<1>6. end > 0
  <2>1. CASE k = 0
    <3>1. a > 0 \/ e > 0
      BY <1>3
    <3> QED BY <1>4, <1>5, <3>1
  <2>2. CASE k # 0
    BY <1>3, <1>5, <2>2
  <2> QED BY <2>1, <2>2
<1>7. PICK start \in Nat : start = (IF q = 0 THEN end - 1 ELSE e) /\ start < end
  <2>1. CASE q = 0
    <3>1. end - 1 \in Nat /\ end - 1 < end
      BY <1>6
    <3> QED BY <2>1, <3>1
  <2>2. CASE q # 0
    BY <1>5, <2>2
  <2> QED BY <2>1, <2>2
<1>8. PICK next, uop :
        /\ next = Spread(acc, resources[k + 1])
        /\ uop = [procResIdx |-> resources[k + 1], endCycle |-> end, startCycle |-> start]
  OBVIOUS
<1>9. next = [uops |-> Append(acc.uops, uop), latency |-> a - q, remaining |-> left - 1,
              prevEnd |-> end]
  BY <1>1, <1>2, <1>4, <1>5, <1>7, <1>8 DEF Spread
<1>10. UopsSoFar(Append(acc.uops, uop), resources, k + 1, end)
  <2>1. k \in Nat
    OBVIOUS
  <2> QED BY <1>3, <1>7, <1>8, <2>1, OneMoreUop
<1>11. /\ a - q \in Nat /\ left - 1 = m - (k + 1) /\ end = L - (a - q)
       /\ (k + 1 = m => a - q = 0)
  BY <1>2, <1>3, <1>4, <1>5
<1>12. SpreadUpTo(next, resources, m, L, k + 1)
  BY <1>6, <1>9, <1>10, <1>11 DEF SpreadUpTo
<1> QED BY <1>8, <1>12

LEMMA LatenciesOfUops ==
  ASSUME NEW class, NEW resources \in Seq(Nat), NEW m \in Nat, m = Len(resources),
         MaxDefLatency(class) \in Nat \ {0}
  PROVE  \E uops, end : /\ uops = ComputeUopLatencies(class, resources)
                        /\ UopsSoFar(uops, resources, m, end)
                        /\ m > 0 => end = MaxDefLatency(class)
<1>1. PICK L \in Nat \ {0} : L = MaxDefLatency(class)
  OBVIOUS
<1>2. PICK base : base = [uops |-> << >>, latency |-> L, remaining |-> m, prevEnd |-> 0]
  OBVIOUS
<1> DEFINE D == DOMAIN resources
           Is(f) == f = [s \in SUBSET D |->
                           IF s = {} THEN base ELSE Spread(f[s \ {Max(s)}], resources[Max(s)])]
           h == CHOOSE f : Is(f)
<1>3. FoldLeft(Spread, base, resources) = h[D]
  BY DEF FoldLeft, MapThenFoldSet
<1>4. D = 1 .. m
  OBVIOUS
<1>5. \A f : Is(f) <=> FoldedOver("spread", base, resources, m, f)
  BY <1>4 DEF FoldedOver, Applied
<1> HIDE DEF Is
<1>6. FoldedOver("spread", base, resources, m, h)
  BY <1>5, FoldExists
<1> HIDE DEF h, D
<1>7. PICK it : Steps("spread", base, resources, m, it) /\ it[m] = h[1 .. m]
  BY <1>6, FoldSteps
<1>8. it[0] = base /\ \A k \in 1 .. m : it[k] = Spread(it[k - 1], resources[k])
  BY <1>7 DEF Steps, Applied
<1>9. SpreadUpTo(base, resources, m, L, 0)
  <2>1. base.uops = << >> /\ base.latency = L /\ base.remaining = m /\ base.prevEnd = 0
    BY <1>2
  <2>2. UopsSoFar(<< >>, resources, 0, 0)
    BY DEF UopsSoFar
  <2>3. L \in Nat /\ m = m - 0 /\ 0 = L - L
    OBVIOUS
  <2> QED BY <2>1, <2>2, <2>3 DEF SpreadUpTo
<1> DEFINE S == {k \in Nat : k <= m => SpreadUpTo(it[k], resources, m, L, k)}
<1>10. 0 \in S
  BY <1>8, <1>9
<1>11. ASSUME NEW k \in Nat, k \in S PROVE k + 1 \in S
  <2> SUFFICES ASSUME k + 1 <= m PROVE SpreadUpTo(it[k + 1], resources, m, L, k + 1)
    OBVIOUS
  <2>1. k \in 0 .. m - 1 /\ k + 1 \in 1 .. m /\ (k + 1) - 1 = k /\ k <= m
    OBVIOUS
  <2>2. SpreadUpTo(it[k], resources, m, L, k)
    BY <1>11, <2>1
  <2>3. it[k + 1] = Spread(it[k], resources[k + 1])
    BY <1>8, <2>1
  <2>4. PICK acc : acc = it[k]
    OBVIOUS
  <2>5. resources[k + 1] \in Nat
    BY <2>1
  <2>6. SpreadUpTo(Spread(acc, resources[k + 1]), resources, m, L, k + 1)
    BY <2>1, <2>2, <2>4, <2>5, SpreadOne
  <2> QED BY <2>3, <2>4, <2>6
<1>12. m \in S
  <2> HIDE DEF S
  <2> QED BY <1>10, <1>11, Reaches
<1>13. PICK acc : acc = FoldLeft(Spread, base, resources)
  OBVIOUS
<1>14. SpreadUpTo(acc, resources, m, L, m)
  BY <1>3, <1>4, <1>7, <1>12, <1>13
<1>15. ComputeUopLatencies(class, resources) = acc.uops
  BY <1>1, <1>2, <1>13 DEF ComputeUopLatencies
<1>16. m > 0 => acc.prevEnd = L
  BY <1>14 DEF SpreadUpTo
<1>17. UopsSoFar(acc.uops, resources, m, acc.prevEnd)
  BY <1>14 DEF SpreadUpTo
<1> QED BY <1>1, <1>15, <1>16, <1>17

\* What UopsAreThoseOfTheModel says, of any sched class of the model.
UopsOfItsClass(class, uops) ==
  /\ \A r \in Resources : Cardinality({i \in DOMAIN uops : uops[i].procResIdx = r}) = class.uops[r]
  /\ \A i \in DOMAIN uops : uops[i].startCycle >= 0 /\ uops[i].endCycle > uops[i].startCycle
  /\ uops # << >> => uops[Len(uops)].endCycle = MaxDefLatency(class)

LEMMA DecompositionOfClass ==
  ASSUME NEW n \in Nat, Resources = 1 .. n, NEW class,
         \A r \in 1 .. n : class.uops[r] \in Nat, class.latencies \in Seq(Nat)
  PROVE  UopsOfItsClass(class, ComputeUopLatencies(class, ComputeInstructionUops(class)))
<1>1. PICK resources \in Seq(Nat) : resources = ComputeInstructionUops(class)
  BY UopsOfClass
<1>2. \A r \in 1 .. n : Cardinality(UopsOn(r, resources)) = class.uops[r]
  BY <1>1, UopsOfClass
<1>3. PICK m \in Nat : m = Len(resources)
  OBVIOUS
<1>4. PICK uops, end : /\ uops = ComputeUopLatencies(class, resources)
                       /\ UopsSoFar(uops, resources, m, end)
                       /\ m > 0 => end = MaxDefLatency(class)
  BY <1>3, LatencyOfClass, LatenciesOfUops
<1>5. PICK U : U = [procResIdx : Nat, startCycle : Nat, endCycle : Nat]
  OBVIOUS
<1>6. /\ uops \in Seq(U) /\ Len(uops) = m
      /\ \A i \in 1 .. m : /\ uops[i].procResIdx = resources[i]
                           /\ uops[i].endCycle > uops[i].startCycle
      /\ m > 0 => uops[m].endCycle = end
  BY <1>4, <1>5 DEF UopsSoFar
<1>7. DOMAIN uops = 1 .. m /\ \A i \in 1 .. m : uops[i] \in U
  BY <1>6
<1>8. ASSUME NEW r \in Resources
      PROVE  Cardinality({i \in DOMAIN uops : uops[i].procResIdx = r}) = class.uops[r]
  <2>1. {i \in DOMAIN uops : uops[i].procResIdx = r} = UopsOn(r, resources)
    BY <1>3, <1>6, <1>7 DEF UopsOn
  <2> QED BY <1>2, <2>1
<1>9. ASSUME NEW i \in DOMAIN uops
      PROVE  uops[i].startCycle >= 0 /\ uops[i].endCycle > uops[i].startCycle
  <2>1. i \in 1 .. m /\ uops[i] \in U
    BY <1>7
  <2>2. uops[i].startCycle \in Nat
    BY <1>5, <2>1
  <2> QED BY <1>6, <2>1, <2>2
<1>10. ASSUME uops # << >> PROVE uops[Len(uops)].endCycle = MaxDefLatency(class)
  <2>1. m > 0
    BY <1>6, <1>10
  <2> QED BY <1>4, <1>6, <2>1
<1>11. UopsOfItsClass(class, uops)
  BY <1>8, <1>9, <1>10 DEF UopsOfItsClass
<1> QED BY <1>1, <1>4, <1>11

\* What the model says of an instruction of the simulator.
LEMMA ClassOfInst ==
  ASSUME NEW inst \in Insts
  PROVE  UopsOfItsClass(GetSchedClassForInstruction(inst), Decompose(inst))
<1>1. PICK n \in Nat : n = Len(ProcResUnits) /\ Resources = 1 .. n
  BY ModelAssumption DEF Resources
<1>2. PICK class : class = GetSchedClassForInstruction(inst)
  OBVIOUS
<1>3. class \in [uops : [Resources -> Nat], num_micro_ops : Nat, latencies : Seq(Nat),
                 variants : {<< >>}]
  BY <1>2, ModelAssumption
<1>4. class.uops \in [Resources -> Nat] /\ class.latencies \in Seq(Nat)
  BY <1>3
<1>5. \A r \in 1 .. n : class.uops[r] \in Nat
  BY <1>1, <1>4
<1>6. UopsOfItsClass(class, ComputeUopLatencies(class, ComputeInstructionUops(class)))
  BY <1>1, <1>4, <1>5, DecompositionOfClass
<1> QED BY <1>2, <1>6 DEF Decompose

\* The simulator decomposes an instruction as the author of the scheduling
\* model meant it (GlobalContext::ComputeInstructionUops, ComputeUopLatencies).
THEOREM UopsFollowTheModel == ContextSpec => []UopsAreThoseOfTheModel
<1>1. ASSUME CacheInv, NEW e \in DecompositionCache_
      PROVE  UopsOfItsClass(GetSchedClassForInstruction(e.inst), e.uops)
  <2>1. PICK inst \in Insts : inst = e.inst
    BY <1>1 DEF CacheInv, EntriesAreFresh
  <2>2. e.uops = Decompose(inst)
    BY <1>1, <2>1 DEF CacheInv, EntriesAreFresh
  <2> QED BY <2>1, <2>2, ClassOfInst
<1>2. CacheInv => UopsAreThoseOfTheModel
  BY <1>1 DEF UopsAreThoseOfTheModel, UopsOfItsClass
<1> QED BY <1>2, CacheInvHolds, PTL

=============================================================================
