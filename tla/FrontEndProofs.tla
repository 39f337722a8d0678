---------------------------- MODULE FrontEndProofs ----------------------------
(***************************************************************************)
(* Proofs about the simulated pipeline for every block, every width and    *)
(* every capacity: the way from the fetcher to the reorder buffer.         *)
(***************************************************************************)
EXTENDS Haswell, TLAPS, SequenceTheorems, FiniteSetTheorems, WellFoundedInduction

-----------------------------------------------------------------------------
(* Sequences and buffers.                                                  *)

BuffersOf(S) == [pending : Seq(S), fifo : Seq(S), stalled : BOOLEAN]

\* The ids of uops, and the field of whatever comes back to the reorder buffer.
Ids(s) == [k \in DOMAIN s |-> s[k].id]

LEMMA HeadAndTail ==
  ASSUME NEW S, NEW s \in Seq(S), s # << >>
  PROVE  /\ Head(s) \in S /\ Tail(s) \in Seq(S)
         /\ s = <<Head(s)>> \o Tail(s)
         /\ Head(s) = s[1]
         /\ Len(s) \in Nat \ {0}
<1>1. /\ Head(s) \in S /\ Tail(s) \in Seq(S) /\ Len(Tail(s)) = Len(s) - 1
      /\ \A i \in 1 .. Len(Tail(s)) : Tail(s)[i] = s[i + 1]
  BY HeadTailProperties
<1>2. Len(s) \in Nat \ {0} /\ Head(s) = s[1]
  BY EmptySeq
<1>3. PICK h, t : h = Head(s) /\ t = Tail(s)
  OBVIOUS
<1>4. <<h>> \in Seq(S) /\ t \in Seq(S) /\ Len(<<h>>) = 1
  BY <1>1, <1>3
<1>5. /\ <<h>> \o t \in Seq(S) /\ Len(<<h>> \o t) = 1 + Len(t)
      /\ \A i \in 1 .. 1 + Len(t) : (<<h>> \o t)[i] = IF i <= 1 THEN <<h>>[i] ELSE t[i - 1]
  BY <1>4, ConcatProperties
<1>6. \A i \in 1 .. Len(s) : (<<h>> \o t)[i] = s[i]
  <2> SUFFICES ASSUME NEW i \in 1 .. Len(s) PROVE (<<h>> \o t)[i] = s[i]
    OBVIOUS
  <2>1. CASE i = 1
    <3>1. 1 \in 1 .. 1 + Len(t) /\ 1 <= 1
      BY <1>1, <1>2, <1>3
    <3>2. (<<h>> \o t)[1] = <<h>>[1]
      BY <3>1, <1>5
    <3> QED BY <2>1, <3>2, <1>2, <1>3
  <2>2. CASE i > 1
    <3>1. i - 1 \in 1 .. Len(t) /\ i \in 1 .. 1 + Len(t)
      BY <2>2, <1>1, <1>2, <1>3
    <3>2. (<<h>> \o t)[i] = t[i - 1]
      BY <2>2, <3>1, <1>5
    <3>3. t[i - 1] = s[(i - 1) + 1]
      BY <3>1, <1>1, <1>3
    <3> QED BY <3>1, <3>2, <3>3
  <2>3. i = 1 \/ i > 1
    BY <1>2
  <2> QED BY <2>1, <2>2, <2>3
<1>7. <<h>> \o t = s
  BY <1>1, <1>2, <1>3, <1>5, <1>6, SeqEqual
<1> QED BY <1>1, <1>2, <1>3, <1>7

LEMMA Concat ==
  ASSUME NEW S, NEW s, NEW t, s \in Seq(S), t \in Seq(S)
  PROVE  /\ s \o t \in Seq(S)
         /\ Len(s) \in Nat /\ Len(t) \in Nat
         /\ Len(s \o t) = Len(s) + Len(t)
         /\ \A i \in 1 .. Len(s) : (s \o t)[i] = s[i]
         /\ \A i \in 1 .. Len(t) : (s \o t)[Len(s) + i] = t[i]
<1>1. /\ s \o t \in Seq(S)
      /\ Len(s \o t) = Len(s) + Len(t)
      /\ \A i \in 1 .. Len(s) + Len(t) : (s \o t)[i] =
           IF i <= Len(s) THEN s[i] ELSE t[i - Len(s)]
  BY ConcatProperties
<1>2. Len(s) \in Nat /\ Len(t) \in Nat
  BY LenProperties
<1>3. ASSUME NEW i \in 1 .. Len(s) PROVE (s \o t)[i] = s[i]
  BY <1>1, <1>2
<1>4. ASSUME NEW i \in 1 .. Len(t) PROVE (s \o t)[Len(s) + i] = t[i]
  <2>1. Len(s) + i \in 1 .. Len(s) + Len(t) /\ (Len(s) + i) - Len(s) = i /\ ~ (Len(s) + i <= Len(s))
    BY <1>2
  <2> QED BY <2>1, <1>1
<1> QED BY <1>1, <1>2, <1>3, <1>4

LEMMA Joined ==
  ASSUME NEW S, NEW s, NEW t, NEW r, s \in Seq(S), t \in Seq(S), r \in Seq(S),
         Len(r) = Len(s) + Len(t),
         \A i \in 1 .. Len(s) : r[i] = s[i],
         \A i \in 1 .. Len(t) : r[Len(s) + i] = t[i]
  PROVE  r = s \o t
<1>1. /\ s \o t \in Seq(S)
      /\ Len(s) \in Nat /\ Len(t) \in Nat
      /\ Len(s \o t) = Len(s) + Len(t)
      /\ \A i \in 1 .. Len(s) : (s \o t)[i] = s[i]
      /\ \A i \in 1 .. Len(t) : (s \o t)[Len(s) + i] = t[i]
  BY Concat
<1>2. ASSUME NEW i \in 1 .. Len(r) PROVE r[i] = (s \o t)[i]
  <2>1. CASE i \in 1 .. Len(s)
    BY <2>1, <1>1
  <2>2. CASE i - Len(s) \in 1 .. Len(t)
    <3>1. PICK j \in 1 .. Len(t) : j = i - Len(s)
      BY <2>2
    <3>2. i = Len(s) + j
      BY <3>1, <1>1
    <3> QED BY <3>2, <1>1
  <2>3. i \in 1 .. Len(s) \/ i - Len(s) \in 1 .. Len(t)
    BY <1>1
  <2> QED BY <2>1, <2>2, <2>3
<1> QED BY <1>1, <1>2, SeqEqual

LEMMA FieldsOf ==
  ASSUME NEW b, NEW p, NEW f, NEW st,
         b = [pending |-> p, fifo |-> f, stalled |-> st]
  PROVE  /\ b.pending = p /\ b.fifo = f /\ b.stalled = st
         /\ \A q : [b EXCEPT !.pending = q] = [pending |-> q, fifo |-> f, stalled |-> st]
         /\ \A q : [b EXCEPT !.fifo = q] = [pending |-> p, fifo |-> q, stalled |-> st]
         /\ \A q : [b EXCEPT !.stalled = q] = [pending |-> p, fifo |-> f, stalled |-> q]
OBVIOUS

LEMMA BufferParts ==
  ASSUME NEW S, NEW b \in BuffersOf(S)
  PROVE  /\ b.fifo \in Seq(S) /\ b.pending \in Seq(S) /\ b.stalled \in BOOLEAN
         /\ b = [pending |-> b.pending, fifo |-> b.fifo, stalled |-> b.stalled]
         /\ Contents(b) \in Seq(S)
<1>1. /\ b.fifo \in Seq(S) /\ b.pending \in Seq(S) /\ b.stalled \in BOOLEAN
      /\ b = [pending |-> b.pending, fifo |-> b.fifo, stalled |-> b.stalled]
  BY DEF BuffersOf
<1> QED BY <1>1, ConcatProperties DEF Contents

LEMMA MadeOf ==
  ASSUME NEW S, NEW b, NEW p, NEW f, NEW st,
         p \in Seq(S), f \in Seq(S), st \in BOOLEAN,
         b = [pending |-> p, fifo |-> f, stalled |-> st]
  PROVE  /\ b \in BuffersOf(S)
         /\ Contents(b) = f \o p
<1>1. b.pending = p /\ b.fifo = f
  BY FieldsOf
<1> QED BY <1>1 DEF BuffersOf, Contents

\* A push adds to the end, a pop takes the first element, and a propagation
\* changes nothing of what a buffer holds.
LEMMA PushedContents ==
  ASSUME NEW S, NEW b \in BuffersOf(S), NEW elems \in Seq(S)
  PROVE  /\ Pushed(b, elems) \in BuffersOf(S)
         /\ Contents(Pushed(b, elems)) = Contents(b) \o elems
         /\ Pushed(b, elems).fifo = b.fifo
         /\ Pushed(b, elems).pending = b.pending \o elems
         /\ Pushed(b, elems).stalled = b.stalled
<1>1. PICK p, f, st : p = b.pending /\ f = b.fifo /\ st = b.stalled
  OBVIOUS
<1>2. p \in Seq(S) /\ f \in Seq(S) /\ st \in BOOLEAN
  BY <1>1, BufferParts
<1>3. b = [pending |-> p, fifo |-> f, stalled |-> st]
  BY <1>1, BufferParts
<1>4. PICK q : q = p \o elems
  OBVIOUS
<1>5. q \in Seq(S)
  BY <1>2, <1>4, ConcatProperties
<1>6. Pushed(b, elems) = [b EXCEPT !.pending = q]
  BY <1>1, <1>4, Zenon DEF Pushed
<1>7. Pushed(b, elems) = [pending |-> q, fifo |-> f, stalled |-> st]
  BY <1>3, <1>6, FieldsOf
<1>8. Pushed(b, elems) \in BuffersOf(S) /\ Contents(Pushed(b, elems)) = f \o q
  BY <1>2, <1>5, <1>7, MadeOf
<1>9. (f \o p) \o elems = f \o q
  BY <1>2, <1>4, ConcatAssociative, SMTT(30)
<1>10. Contents(b) = f \o p
  BY <1>1 DEF Contents
<1>11. /\ Pushed(b, elems).fifo = f /\ Pushed(b, elems).pending = q
       /\ Pushed(b, elems).stalled = st
  BY <1>7, FieldsOf
<1> QED BY <1>1, <1>4, <1>8, <1>9, <1>10, <1>11

LEMMA PoppedContents ==
  ASSUME NEW S, NEW b \in BuffersOf(S), HasElement(b)
  PROVE  /\ Popped(b) \in BuffersOf(S)
         /\ Head(b.fifo) \in S
         /\ Contents(Popped(b)) \in Seq(S)
         /\ Contents(b) = <<Head(b.fifo)>> \o Contents(Popped(b))
         /\ b.fifo = <<Head(b.fifo)>> \o Popped(b).fifo
         /\ Popped(b).pending = b.pending
<1>1. PICK p, f, st : p = b.pending /\ f = b.fifo /\ st = b.stalled
  OBVIOUS
<1>2. p \in Seq(S) /\ f \in Seq(S) /\ st \in BOOLEAN
  BY <1>1, BufferParts
<1>3. b = [pending |-> p, fifo |-> f, stalled |-> st]
  BY <1>1, BufferParts
<1>4. f # << >>
  BY <1>1 DEF HasElement
<1>5. PICK h, t : h = Head(f) /\ t = Tail(f)
  OBVIOUS
<1>6. h \in S /\ t \in Seq(S) /\ f = <<h>> \o t
  BY <1>2, <1>4, <1>5, HeadAndTail
<1>7. Popped(b) = [b EXCEPT !.fifo = t]
  BY <1>1, <1>4, <1>5, Zenon DEF Popped
<1>8. Popped(b) = [pending |-> p, fifo |-> t, stalled |-> st]
  BY <1>3, <1>7, FieldsOf
<1>9. Popped(b) \in BuffersOf(S) /\ Contents(Popped(b)) = t \o p
  BY <1>2, <1>6, <1>8, MadeOf
<1>10. <<h>> \in Seq(S)
  BY <1>6
<1>11. (<<h>> \o t) \o p = <<h>> \o (t \o p) /\ t \o p \in Seq(S)
  BY <1>2, <1>6, <1>10, ConcatAssociative, ConcatProperties, SMTT(30)
<1>12. Contents(b) = (<<h>> \o t) \o p
  BY <1>1, <1>6 DEF Contents
<1>13. Popped(b).fifo = t /\ Popped(b).pending = p
  BY <1>8, FieldsOf
<1> QED BY <1>1, <1>5, <1>6, <1>9, <1>11, <1>12, <1>13

LEMMA PropagatedContents ==
  ASSUME NEW S, NEW b \in BuffersOf(S)
  PROVE  /\ FifoPropagated(b) \in BuffersOf(S)
         /\ Contents(FifoPropagated(b)) = Contents(b)
         /\ LinkPropagated(b) \in BuffersOf(S)
         /\ Contents(LinkPropagated(b)) = Contents(b)
         /\ b.fifo = << >> => /\ LinkPropagated(b).fifo = b.pending
                              /\ LinkPropagated(b).pending = << >>
<1>1. PICK p, f, st : p = b.pending /\ f = b.fifo /\ st = b.stalled
  OBVIOUS
<1>2. p \in Seq(S) /\ f \in Seq(S) /\ st \in BOOLEAN
  BY <1>1, BufferParts
<1>3. b = [pending |-> p, fifo |-> f, stalled |-> st]
  BY <1>1, BufferParts
<1>4. PICK q, e, no : q = f \o p /\ e = << >> /\ no = FALSE
  OBVIOUS
<1>5. q \in Seq(S) /\ e \in Seq(S) /\ q \o e = q /\ Contents(b) = q /\ no \in BOOLEAN
  <2>1. q \in Seq(S)
    BY <1>2, <1>4, ConcatProperties, Zenon
  <2>2. e \in Seq(S) /\ no \in BOOLEAN
    <3>1. << >> \in Seq(S)
      OBVIOUS
    <3> QED BY <3>1, <1>4
  <2>3. q \o e = q
    BY <2>1, <1>4, ConcatEmptySeq
  <2>4. Contents(b) = q
    BY <1>1, <1>4 DEF Contents
  <2> QED BY <2>1, <2>2, <2>3, <2>4
<1>6. FifoPropagated(b) = [pending |-> e, fifo |-> q, stalled |-> no]
  BY <1>4, <1>5 DEF FifoPropagated
<1>7. FifoPropagated(b) \in BuffersOf(S) /\ Contents(FifoPropagated(b)) = q
  <2>1. PICK v : v = FifoPropagated(b)
    OBVIOUS
  <2>2. v = [pending |-> e, fifo |-> q, stalled |-> no]
    BY <2>1, <1>6
  <2>3. q \in Seq(S) /\ e \in Seq(S) /\ no \in BOOLEAN
    BY <1>5
  <2>4. v \in BuffersOf(S)
    BY <2>2, <2>3 DEF BuffersOf
  <2>5. v.fifo = q /\ v.pending = e
    BY <2>2
  <2>6. Contents(v) = q \o e
    BY <2>5 DEF Contents
  <2> QED BY <2>1, <2>4, <2>6, <1>5
<1>8. CASE HasElement(b)
  <2>1. LinkPropagated(b) = [pending |-> p, fifo |-> f, stalled |-> TRUE]
    BY <1>3, <1>8, FieldsOf DEF LinkPropagated
  <2>2. LinkPropagated(b) \in BuffersOf(S) /\ Contents(LinkPropagated(b)) = q
    BY <2>1, <1>2, <1>4, MadeOf
  <2> QED BY <2>2, <1>5, <1>7, <1>8 DEF HasElement
<1>9. CASE ~ HasElement(b)
  <2>1. LinkPropagated(b) = FifoPropagated(b)
    BY <1>9 DEF LinkPropagated
  <2>2. q = p
    BY <1>1, <1>2, <1>4, <1>9, ConcatEmptySeq DEF HasElement
  <2>3. FifoPropagated(b).fifo = q /\ FifoPropagated(b).pending = e
    BY <1>6, FieldsOf
  <2> QED BY <2>1, <2>2, <2>3, <1>1, <1>4, <1>5, <1>7
<1> QED BY <1>8, <1>9

LEMMA EmptyBuffers ==
  ASSUME NEW S
  PROVE  EmptyBuffer \in BuffersOf(S) /\ Contents(EmptyBuffer) = << >>
<1>1. << >> \in Seq(S)
  BY EmptySeq
<1>2. << >> \o << >> = << >>
  BY <1>1, ConcatEmptySeq
<1> QED BY <1>1, <1>2 DEF EmptyBuffer, BuffersOf, Contents

-----------------------------------------------------------------------------
(* The trace of a block.                                                   *)

InstrOf(b, n) == b.instrs[(n % Len(b.instrs)) + 1]
EndsInstr(b, id) == id.index + 1 = Len(InstrOf(b, id.instr).uops)

Follows(b, id, next) ==
  IF EndsInstr(b, id) THEN next = [instr |-> id.instr + 1, index |-> 0]
  ELSE next = [instr |-> id.instr, index |-> id.index + 1]

\* The uop exists, and ...
IsUopOf(b, id) == id.index < Len(InstrOf(b, id.instr).uops)

\* ... u is the beginning of the trace.
IsTrace(b, u) ==
  /\ u # << >> => u[1] = [instr |-> 0, index |-> 0]
  /\ \A k \in 1 .. Len(u) - 1 : Follows(b, u[k], u[k + 1])
  /\ \A k \in 1 .. Len(u) : IsUopOf(b, u[k])

NextInstr(u) == IF u = << >> THEN 0 ELSE u[Len(u)].instr + 1

CountsFrom(s, n) == \A k \in 1 .. Len(s) : s[k] = n + k - 1

\* Behind the uops u come the instructions s, and the next one is number n.
InOrder(b, u, s, n) ==
  /\ IsTrace(b, u)
  /\ u # << >> => EndsInstr(b, u[Len(u)])
  /\ CountsFrom(s, NextInstr(u))
  /\ n = NextInstr(u) + Len(s)

AreUopsOf(b, n, d) ==
  /\ Len(d) = Len(InstrOf(b, n).uops)
  /\ \A k \in 1 .. Len(d) : d[k] = [instr |-> n, index |-> k - 1]

LEMMA InstrsOfBlock ==
  ASSUME NEW b \in Blocks, NEW n \in Nat
  PROVE  /\ Len(b.instrs) \in Nat \ {0}
         /\ n % Len(b.instrs) \in 0 .. Len(b.instrs) - 1
         /\ InstrOf(b, n).bytes \in Nat
         /\ InstrOf(b, n).uses \in SUBSET Units
         /\ InstrOf(b, n).defs \in Seq(SUBSET Units)
         /\ InstrOf(b, n).uops \in Seq([ports : SUBSET Ports, latency : Nat])
         /\ Len(InstrOf(b, n).uops) \in Nat \ {0}
<1>1. PICK s, R : s = b.instrs /\ R = Range(b.instrs)
  OBVIOUS
<1>2. s \in Seq(R) /\ s # << >>
  BY <1>1, BlocksAssumption
<1>3. Len(s) \in Nat \ {0}
  BY <1>2, EmptySeq
<1>4. n % Len(s) \in 0 .. Len(s) - 1
  BY <1>3
<1>5. (n % Len(s)) + 1 \in 1 .. Len(s)
  BY <1>3, <1>4
<1>6. s[(n % Len(s)) + 1] \in R
  BY <1>2, <1>5, ElementOfSeq
<1>7. InstrOf(b, n) \in Range(b.instrs)
  BY <1>1, <1>6 DEF InstrOf
<1>8. PICK instr : instr = InstrOf(b, n)
  OBVIOUS
<1>9. /\ instr.bytes \in Nat
      /\ instr.uses \in SUBSET Units
      /\ instr.defs \in Seq(SUBSET Units)
      /\ instr.uops \in Seq([ports : SUBSET Ports, latency : Nat])
      /\ instr.uops # << >>
  BY <1>7, <1>8, BlocksAssumption
<1>10. Len(instr.uops) \in Nat \ {0}
  BY <1>9, EmptySeq
<1> QED BY <1>1, <1>3, <1>4, <1>8, <1>9, <1>10

LEMMA TraceIds ==
  ASSUME NEW s \in Seq(RenamedUops)
  PROVE  /\ Ids(s) \in Seq(UopIds) /\ Len(Ids(s)) = Len(s)
         /\ \A k \in 1 .. Len(s) : Ids(s)[k] = s[k].id
<1>1. DOMAIN s = 1 .. Len(s) /\ Len(s) \in Nat
  BY LenProperties
<1>2. \A k \in 1 .. Len(s) : s[k] \in RenamedUops
  BY ElementOfSeq
<1>3. \A k \in 1 .. Len(s) : s[k].id \in UopIds
  BY <1>2 DEF RenamedUops
<1> QED BY <1>1, <1>3 DEF Ids

LEMMA IdsOfConcat ==
  ASSUME NEW s \in Seq(RenamedUops), NEW t \in Seq(RenamedUops)
  PROVE  Ids(s \o t) = Ids(s) \o Ids(t)
<1>1. /\ s \o t \in Seq(RenamedUops)
      /\ Len(s) \in Nat /\ Len(t) \in Nat
      /\ Len(s \o t) = Len(s) + Len(t)
      /\ \A i \in 1 .. Len(s) : (s \o t)[i] = s[i]
      /\ \A i \in 1 .. Len(t) : (s \o t)[Len(s) + i] = t[i]
  BY Concat
<1>2. PICK a, c, d : a = Ids(s) /\ c = Ids(t) /\ d = Ids(s \o t)
  OBVIOUS
<1>3. /\ a \in Seq(UopIds) /\ Len(a) = Len(s) /\ \A k \in 1 .. Len(s) : a[k] = s[k].id
      /\ c \in Seq(UopIds) /\ Len(c) = Len(t) /\ \A k \in 1 .. Len(t) : c[k] = t[k].id
  BY <1>2, TraceIds
<1>4. /\ d \in Seq(UopIds) /\ Len(d) = Len(s) + Len(t)
      /\ \A k \in 1 .. Len(s) + Len(t) : d[k] = (s \o t)[k].id
  BY <1>1, <1>2, TraceIds
<1>5. \A i \in 1 .. Len(s) : d[i] = a[i]
  <2> SUFFICES ASSUME NEW i \in 1 .. Len(s) PROVE d[i] = a[i]
    OBVIOUS
  <2>1. (s \o t)[i] = s[i] /\ i \in 1 .. Len(s) + Len(t)
    BY <1>1
  <2> QED BY <2>1, <1>3, <1>4
<1>6. \A i \in 1 .. Len(t) : d[Len(s) + i] = c[i]
  <2> SUFFICES ASSUME NEW i \in 1 .. Len(t) PROVE d[Len(s) + i] = c[i]
    OBVIOUS
  <2>1. (s \o t)[Len(s) + i] = t[i] /\ Len(s) + i \in 1 .. Len(s) + Len(t)
    BY <1>1
  <2> QED BY <2>1, <1>3, <1>4
<1>7. /\ Len(d) = Len(a) + Len(c)
      /\ \A i \in 1 .. Len(a) : d[i] = a[i]
      /\ \A i \in 1 .. Len(c) : d[Len(a) + i] = c[i]
  BY <1>3, <1>4, <1>5, <1>6
<1>8. d = a \o c
  BY <1>3, <1>4, <1>7, Joined
<1> QED BY <1>2, <1>8

LEMMA IdsOfFew ==
  ASSUME NEW u \in RenamedUops
  PROVE  Ids(<<u>>) = <<u.id>> /\ Ids(<< >>) = << >>
BY DEF Ids

\* One more instruction is fetched ...
LEMMA FetchKeepsOrder ==
  ASSUME NEW b, NEW u \in Seq(UopIds), NEW s \in Seq(Nat), NEW n \in Nat,
         InOrder(b, u, s, n)
  PROVE  InOrder(b, u, s \o <<n>>, n + 1)
<1>1. PICK t : t = <<n>>
  OBVIOUS
<1>2. Len(t) = 1 /\ t[1] = n /\ \E N : N = Nat /\ s \in Seq(N) /\ t \in Seq(N)
  BY <1>1
<1>3. /\ Len(s) \in Nat /\ Len(s \o t) = Len(s) + 1
      /\ \A i \in 1 .. Len(s) : (s \o t)[i] = s[i]
      /\ (s \o t)[Len(s) + 1] = t[1]
  <2>1. PICK N : N = Nat /\ s \in Seq(N) /\ t \in Seq(N)
    BY <1>2
  <2>2. /\ Len(s) \in Nat /\ Len(s \o t) = Len(s) + Len(t)
        /\ \A i \in 1 .. Len(s) : (s \o t)[i] = s[i]
        /\ \A i \in 1 .. Len(t) : (s \o t)[Len(s) + i] = t[i]
    BY <2>1, Concat
  <2>3. 1 \in 1 .. Len(t)
    BY <1>2
  <2> QED BY <2>2, <2>3, <1>2
<1>4. PICK d : d = NextInstr(u)
  OBVIOUS
<1>5. n = d + Len(s) /\ CountsFrom(s, d)
  BY <1>4 DEF InOrder
<1>6. d \in Int
  <2>1. u # << >> => u[Len(u)] \in UopIds
    BY EmptySeq, ElementOfSeq
  <2> QED BY <2>1, <1>4 DEF NextInstr, UopIds
<1>7. CountsFrom(s \o t, d)
  <2> SUFFICES ASSUME NEW k \in 1 .. Len(s) + 1 PROVE (s \o t)[k] = d + k - 1
    BY <1>3 DEF CountsFrom
  <2>1. CASE k \in 1 .. Len(s)
    BY <2>1, <1>3, <1>5 DEF CountsFrom
  <2>2. CASE k = Len(s) + 1
    BY <2>2, <1>2, <1>3, <1>5, <1>6
  <2> QED BY <2>1, <2>2, <1>3
<1>8. n + 1 = d + Len(s \o t)
  BY <1>3, <1>5, <1>6
<1> QED BY <1>1, <1>4, <1>7, <1>8 DEF InOrder

\* ... and the first of the instructions becomes its uops.
LEMMA DecodeKeepsOrder ==
  ASSUME NEW b \in Blocks, NEW u \in Seq(UopIds), NEW r \in Seq(Nat),
         NEW n \in Nat, NEW p \in Nat, NEW d \in Seq(UopIds),
         InOrder(b, u, <<n>> \o r, p), AreUopsOf(b, n, d)
  PROVE  InOrder(b, u \o d, r, p)
<1>1. /\ u \o d \in Seq(UopIds)
      /\ Len(u) \in Nat /\ Len(d) \in Nat
      /\ Len(u \o d) = Len(u) + Len(d)
      /\ \A i \in 1 .. Len(u) : (u \o d)[i] = u[i]
      /\ \A i \in 1 .. Len(d) : (u \o d)[Len(u) + i] = d[i]
  BY Concat
<1>2. PICK m : m = Len(InstrOf(b, n).uops)
  OBVIOUS
<1>3. m \in Nat \ {0} /\ Len(d) = m
  BY <1>2, InstrsOfBlock DEF AreUopsOf
<1>4. PICK w : w = u \o d
  OBVIOUS
<1>5. /\ w \in Seq(UopIds) /\ Len(u) \in Nat /\ Len(w) = Len(u) + m
      /\ \A i \in 1 .. Len(u) : w[i] = u[i]
      /\ \A i \in 1 .. m : w[Len(u) + i] = [instr |-> n, index |-> i - 1]
  BY <1>1, <1>3, <1>4 DEF AreUopsOf
<1>6. n = NextInstr(u) /\ CountsFrom(r, n + 1) /\ p = (n + 1) + Len(r)
  <2>0. <<n>> \in Seq(Nat)
    OBVIOUS
  <2>1. PICK N, t : N = Nat /\ t = <<n>> /\ t \in Seq(N) /\ r \in Seq(N)
    BY <2>0, Zenon
  <2>2. /\ Len(t) \in Nat /\ Len(r) \in Nat
        /\ Len(t \o r) = Len(t) + Len(r)
        /\ \A i \in 1 .. Len(t) : (t \o r)[i] = t[i]
        /\ \A i \in 1 .. Len(r) : (t \o r)[Len(t) + i] = r[i]
    BY <2>1, Concat
  <2>3. PICK v, e : v = t \o r /\ e = NextInstr(u)
    OBVIOUS
  <2>4. /\ Len(r) \in Nat /\ Len(v) = 1 + Len(r)
        /\ v[1] = n /\ \A i \in 1 .. Len(r) : v[1 + i] = r[i]
    BY <2>1, <2>2, <2>3
  <2>5. CountsFrom(v, e) /\ p = e + Len(v)
    BY <2>1, <2>3 DEF InOrder
  <2>6. e \in Int
    <3>1. u # << >> => u[Len(u)] \in UopIds
      BY EmptySeq, ElementOfSeq
    <3> QED BY <3>1, <2>3 DEF NextInstr, UopIds
  <2>7. n = e
    <3>1. 1 \in 1 .. Len(v)
      BY <2>4
    <3> QED BY <3>1, <2>4, <2>5, <2>6 DEF CountsFrom
  <2>8. CountsFrom(r, n + 1)
    <3> SUFFICES ASSUME NEW k \in 1 .. Len(r) PROVE r[k] = (n + 1) + k - 1
      BY DEF CountsFrom
    <3>1. 1 + k \in 1 .. Len(v)
      BY <2>4
    <3>2. v[1 + k] = e + (1 + k) - 1
      BY <3>1, <2>5 DEF CountsFrom
    <3> QED BY <3>2, <2>4, <2>7
  <2> QED BY <2>3, <2>4, <2>5, <2>7, <2>8
<1>7. NextInstr(w) = n + 1 /\ EndsInstr(b, w[Len(w)]) /\ w # << >>
  <2>1. w[Len(w)] = [instr |-> n, index |-> m - 1]
    <3>1. m \in 1 .. m
      BY <1>3
    <3> QED BY <3>1, <1>3, <1>5
  <2>2. Len(w) # 0
    BY <1>3, <1>5
  <2>3. w # << >>
    BY <2>2, EmptySeq
  <2> QED BY <2>1, <2>3, <1>2, <1>3 DEF NextInstr, EndsInstr
<1>8. IsTrace(b, w)
  <2>1. IsTrace(b, u) /\ (u # << >> => EndsInstr(b, u[Len(u)]))
    BY DEF InOrder
  <2>2. u = << >> <=> Len(u) = 0
    BY EmptySeq
  <2>3. w[1] = [instr |-> 0, index |-> 0]
    <3>1. CASE u = << >>
      <4>1. w[0 + 1] = [instr |-> n, index |-> 1 - 1] /\ n = 0
        BY <3>1, <2>2, <1>3, <1>5, <1>6 DEF NextInstr
      <4> QED BY <4>1
    <3>2. CASE u # << >>
      <4>1. 1 \in 1 .. Len(u)
        BY <3>2, <2>2, <1>5
      <4> QED BY <4>1, <3>2, <2>1, <1>5 DEF IsTrace
    <3> QED BY <3>1, <3>2
  <2>4. ASSUME NEW k \in 1 .. Len(w) - 1 PROVE Follows(b, w[k], w[k + 1])
    <3>1. CASE k \in 1 .. Len(u) - 1
      <4>1. w[k] = u[k] /\ w[k + 1] = u[k + 1]
        BY <3>1, <1>5
      <4> QED BY <4>1, <3>1, <2>1 DEF IsTrace
    <3>2. CASE k = Len(u)
      <4>1. u # << >> /\ w[k] = u[k]
        BY <3>2, <2>2, <1>5
      <4>2. w[k + 1] = [instr |-> n, index |-> 0]
        <5>1. 1 \in 1 .. m
          BY <1>3
        <5>2. w[Len(u) + 1] = [instr |-> n, index |-> 1 - 1]
          BY <5>1, <1>5
        <5> QED BY <5>2, <3>2
      <4>3. n = u[k].instr + 1
        BY <4>1, <3>2, <1>6 DEF NextInstr
      <4> QED BY <4>1, <4>2, <4>3, <3>2, <2>1 DEF Follows
    <3>3. CASE k > Len(u)
      <4>1. PICK j \in 1 .. m - 1 : k = Len(u) + j
        <5>1. k - Len(u) \in 1 .. m - 1 /\ k = Len(u) + (k - Len(u))
          BY <3>3, <1>3, <1>5
        <5> QED BY <5>1
      <4>2. j \in 1 .. m /\ j + 1 \in 1 .. m /\ k + 1 = Len(u) + (j + 1)
        BY <4>1, <1>3, <1>5
      <4>3. /\ w[k] = [instr |-> n, index |-> j - 1]
            /\ w[k + 1] = [instr |-> n, index |-> (j + 1) - 1]
        BY <4>1, <4>2, <1>5
      <4>4. ~ EndsInstr(b, w[k])
        BY <4>1, <4>3, <1>2, <1>3 DEF EndsInstr
      <4>5. (j + 1) - 1 = (j - 1) + 1
        BY <4>1
      <4> QED BY <4>3, <4>4, <4>5 DEF Follows
    <3> QED BY <3>1, <3>2, <3>3, <1>3, <1>5
  <2>5. ASSUME NEW k \in 1 .. Len(w) PROVE IsUopOf(b, w[k])
    <3>1. CASE k \in 1 .. Len(u)
      BY <3>1, <2>1, <1>5 DEF IsTrace
    <3>2. CASE k > Len(u)
      <4>1. k - Len(u) \in 1 .. m /\ k = Len(u) + (k - Len(u))
        BY <3>2, <1>3, <1>5
      <4>2. w[k] = [instr |-> n, index |-> (k - Len(u)) - 1]
        BY <4>1, <1>5
      <4> QED BY <4>1, <4>2, <1>2, <1>3 DEF IsUopOf
    <3> QED BY <3>1, <3>2, <1>5
  <2> QED BY <2>3, <2>4, <2>5 DEF IsTrace
<1> QED BY <1>4, <1>6, <1>7, <1>8 DEF InOrder

-----------------------------------------------------------------------------
(* The names that the renamer gives.                                       *)

\* Uops use what earlier uops define, names are given once, and the tracker
\* knows no name that was not given.
NamesGiven(w, nm, c) ==
  /\ \A k \in 1 .. Len(w) : \A r \in w[k].uses :
       w[k].id.index = 0 /\ \E j \in 1 .. k - 1 : r \in w[j].defs
  /\ \A k \in 1 .. Len(w) : \A r \in w[k].defs : r \in 1 .. c
  /\ \A j, k \in 1 .. Len(w) : j # k => w[j].defs \cap w[k].defs = {}
  /\ \A x \in Units : nm[x] # 0 => \E k \in 1 .. Len(w) : nm[x] \in w[k].defs

NextNames(v, nm, c, nm2, c2) ==
  /\ \A r \in v.uses : v.id.index = 0 /\ r # 0 /\ \E x \in Units : r = nm[x]
  /\ \A r \in v.defs : r \in c + 1 .. c2
  /\ \A x \in Units : nm2[x] = nm[x] \/ nm2[x] \in v.defs

LEMMA RenamingKeepsNames ==
  ASSUME NEW w \in Seq(RenamedUops), NEW v \in RenamedUops,
         NEW c \in Nat, NEW c2 \in Nat, c <= c2, NEW nm, NEW nm2,
         NamesGiven(w, nm, c), NextNames(v, nm, c, nm2, c2)
  PROVE  NamesGiven(w \o <<v>>, nm2, c2)
<1>1. PICK y, n : y = w \o <<v>> /\ n = Len(w)
  OBVIOUS
<1>2. /\ n \in Nat /\ Len(y) = n + 1
      /\ \A i \in 1 .. n : y[i] = w[i]
      /\ y[n + 1] = v
  <2>1. PICK t : t = <<v>>
    OBVIOUS
  <2>2. t \in Seq(RenamedUops) /\ Len(t) = 1 /\ t[1] = v
    BY <2>1
  <2>3. /\ Len(w) \in Nat /\ Len(w \o t) = Len(w) + Len(t)
        /\ \A i \in 1 .. Len(w) : (w \o t)[i] = w[i]
        /\ \A i \in 1 .. Len(t) : (w \o t)[Len(w) + i] = t[i]
    BY <2>2, Concat
  <2>4. 1 \in 1 .. Len(t)
    BY <2>2
  <2> QED BY <2>1, <2>2, <2>3, <2>4, <1>1
<1>3. ASSUME NEW k \in 1 .. n + 1, NEW r \in y[k].uses
      PROVE  y[k].id.index = 0 /\ \E j \in 1 .. k - 1 : r \in y[j].defs
  <2>1. CASE k \in 1 .. n
    <3>1. w[k].id.index = 0 /\ \E j \in 1 .. k - 1 : r \in w[j].defs
      BY <2>1, <1>1, <1>2 DEF NamesGiven
    <3>2. PICK j \in 1 .. k - 1 : r \in w[j].defs
      BY <3>1
    <3>3. j \in 1 .. n /\ y[j] = w[j] /\ y[k] = w[k]
      BY <2>1, <1>2
    <3> QED BY <3>1, <3>2, <3>3
  <2>2. CASE k = n + 1
    <3>1. y[k] = v /\ v.id.index = 0 /\ r # 0
      BY <2>2, <1>2 DEF NextNames
    <3>2. PICK x \in Units : r = nm[x]
      BY <3>1 DEF NextNames
    <3>3. PICK j \in 1 .. n : r \in w[j].defs
      BY <3>1, <3>2, <1>1 DEF NamesGiven
    <3>4. j \in 1 .. k - 1 /\ y[j] = w[j]
      BY <2>2, <1>2
    <3> QED BY <3>1, <3>3, <3>4
  <2> QED BY <2>1, <2>2, <1>2
<1>4. ASSUME NEW k \in 1 .. n + 1, NEW r \in y[k].defs
      PROVE  r \in 1 .. c2 /\ (k = n + 1 <=> r \in c + 1 .. c2)
  <2>1. CASE k \in 1 .. n
    <3>1. y[k] = w[k]
      BY <2>1, <1>2
    <3>2. r \in 1 .. c
      BY <2>1, <3>1, <1>1 DEF NamesGiven
    <3>3. k # n + 1
      BY <2>1, <1>2
    <3> QED BY <3>2, <3>3
  <2>2. CASE k = n + 1
    <3>1. r \in v.defs
      BY <2>2, <1>2
    <3>2. r \in c + 1 .. c2
      BY <3>1 DEF NextNames
    <3> QED BY <2>2, <3>2
  <2> QED BY <2>1, <2>2, <1>2
<1>5. ASSUME NEW j \in 1 .. n + 1, NEW k \in 1 .. n + 1, j # k
      PROVE  y[j].defs \cap y[k].defs = {}
  <2>1. CASE j \in 1 .. n /\ k \in 1 .. n
    <3>1. y[j] = w[j] /\ y[k] = w[k]
      BY <2>1, <1>2
    <3> QED BY <2>1, <3>1, <1>1, <1>5 DEF NamesGiven
  <2>2. CASE j = n + 1 \/ k = n + 1
    BY <2>2, <1>4, <1>5
  <2> QED BY <2>1, <2>2, <1>2
<1>6. ASSUME NEW x \in Units, nm2[x] # 0
      PROVE  \E k \in 1 .. n + 1 : nm2[x] \in y[k].defs
  <2>1. CASE nm2[x] = nm[x]
    <3>1. PICK k \in 1 .. n : nm[x] \in w[k].defs
      BY <2>1, <1>1, <1>6 DEF NamesGiven
    <3>2. k \in 1 .. n + 1 /\ y[k] = w[k]
      BY <1>2
    <3> QED BY <2>1, <3>1, <3>2
  <2>2. CASE nm2[x] \in v.defs
    <3>1. n + 1 \in 1 .. n + 1
      BY <1>2
    <3> QED BY <2>2, <3>1, <1>2
  <2> QED BY <2>1, <2>2 DEF NextNames
<1> QED BY <1>1, <1>2, <1>3, <1>4, <1>5, <1>6 DEF NamesGiven

-----------------------------------------------------------------------------
(* The front end.                                                          *)

PendingUops == IF pendingUop = NoUop THEN << >> ELSE <<pendingUop>>

\* The uops that have a name, oldest first, and all uops that were decoded.
NamedUops == renamed \o Contents(renamedLink) \o PendingUops
DecodedIds == Ids(NamedUops) \o Contents(decodeQueue)
FetchPosition == fetchIndex.iteration * NumInstrs + fetchIndex.bb

FrontTypeOK ==
  /\ block \in Blocks
  /\ fetchIndex \in [iteration : Nat, bb : 0 .. NumInstrs]
  /\ fetchedLink \in BuffersOf(Nat)
  /\ instrQueue \in BuffersOf(Nat)
  /\ decodeQueue \in BuffersOf(UopIds)
  /\ renamedLink \in BuffersOf(RenamedUops)
  /\ pendingUop \in RenamedUops \cup {NoUop}
  /\ renamed \in Seq(RenamedUops)
  /\ numAllocated \in 0 .. NumPhysicalRegisters
  /\ names \in [Units -> 0 .. NumPhysicalRegisters]

FrontInv ==
  /\ FrontTypeOK
  /\ InOrder(block, DecodedIds, InstrsInFlight, FetchPosition)
  /\ NamesGiven(NamedUops, names, numAllocated)

LEMMA FrontTypes ==
  ASSUME FrontTypeOK
  PROVE  /\ Contents(fetchedLink) \in Seq(Nat)
         /\ Contents(instrQueue) \in Seq(Nat)
         /\ InstrsInFlight \in Seq(Nat)
         /\ Contents(decodeQueue) \in Seq(UopIds)
         /\ Contents(renamedLink) \in Seq(RenamedUops)
         /\ renamed \o Contents(renamedLink) \in Seq(RenamedUops)
         /\ PendingUops \in Seq(RenamedUops)
         /\ NamedUops \in Seq(RenamedUops)
         /\ Ids(NamedUops) \in Seq(UopIds)
         /\ DecodedIds \in Seq(UopIds)
         /\ FetchPosition \in Nat
         /\ NumInstrs \in Nat \ {0}
<1>1. /\ Contents(fetchedLink) \in Seq(Nat) /\ Contents(instrQueue) \in Seq(Nat)
      /\ Contents(decodeQueue) \in Seq(UopIds)
      /\ Contents(renamedLink) \in Seq(RenamedUops)
  BY BufferParts DEF FrontTypeOK
<1>2. InstrsInFlight \in Seq(Nat)
  BY <1>1, ConcatProperties DEF InstrsInFlight
<1>3. PendingUops \in Seq(RenamedUops)
  <2>1. CASE pendingUop = NoUop
    BY <2>1, EmptySeq DEF PendingUops
  <2>2. CASE pendingUop # NoUop
    BY <2>2 DEF PendingUops, FrontTypeOK
  <2> QED BY <2>1, <2>2
<1>4. renamed \in Seq(RenamedUops)
  BY DEF FrontTypeOK
<1>5. renamed \o Contents(renamedLink) \in Seq(RenamedUops)
  BY <1>1, <1>4, ConcatProperties
<1>6. NamedUops \in Seq(RenamedUops)
  BY <1>3, <1>5, ConcatProperties DEF NamedUops
<1>7. Ids(NamedUops) \in Seq(UopIds)
  BY <1>6, TraceIds
<1>8. DecodedIds \in Seq(UopIds)
  BY <1>1, <1>7, ConcatProperties DEF DecodedIds
<1>9. NumInstrs \in Nat \ {0}
  <2>1. block \in Blocks /\ 0 \in Nat
    BY DEF FrontTypeOK
  <2> QED BY <2>1, InstrsOfBlock DEF NumInstrs
<1>10. FetchPosition \in Nat
  <2>1. fetchIndex.iteration \in Nat /\ fetchIndex.bb \in Nat
    BY <1>9 DEF FrontTypeOK
  <2> QED BY <2>1, <1>9 DEF FetchPosition
<1> QED BY <1>1, <1>2, <1>3, <1>5, <1>6, <1>7, <1>8, <1>9, <1>10

\* What FrontInv speaks of, and what a step of the back end leaves alone.
frontEnd == <<block, fetchIndex, fetchedLink, instrQueue, decodeQueue,
              renamedLink, pendingUop, renamed, numAllocated, names>>

LEMMA BackEndKeepsFront ==
  ASSUME FrontInv, UNCHANGED frontEnd
  PROVE  FrontInv'
<1>1. UNCHANGED <<InstrsInFlight, PendingUops, FetchPosition>>
  BY DEF frontEnd, InstrsInFlight, PendingUops, FetchPosition, NumInstrs
<1>2. UNCHANGED NamedUops
  BY <1>1 DEF frontEnd, NamedUops
<1>3. UNCHANGED DecodedIds
  BY <1>2 DEF frontEnd, DecodedIds
<1> QED BY <1>1, <1>2, <1>3 DEF FrontInv, FrontTypeOK, frontEnd, NumInstrs

LEMMA FetchNextIterationKeepsFront ==
  ASSUME FrontInv, FetchNextIteration
  PROVE  FrontInv'
<1>1. PICK i, j, n : i = fetchIndex.iteration /\ j = fetchIndex.bb /\ n = NumInstrs
  OBVIOUS
<1>2. i \in Nat /\ n \in Nat \ {0} /\ j = n
  BY <1>1, FrontTypes DEF FrontInv, FrontTypeOK, FetchNextIteration, AtBlockEnd
<1>3. fetchIndex' = [iteration |-> i + 1, bb |-> 0]
  BY <1>1 DEF FetchNextIteration
<1>4. NumInstrs' = n
  BY <1>1 DEF FetchNextIteration, simVars, NumInstrs
<1>5. (i + 1) * n + 0 = i * n + n
  BY <1>2
<1>6. FetchPosition' = FetchPosition
  BY <1>1, <1>2, <1>3, <1>4, <1>5 DEF FetchPosition
<1>7. UNCHANGED <<InstrsInFlight, PendingUops, NamedUops, DecodedIds>>
  BY DEF FetchNextIteration, renamerVars, backVars, InstrsInFlight, PendingUops,
         NamedUops, DecodedIds
<1>8. FrontTypeOK'
  BY <1>2, <1>3, <1>4
     DEF FrontInv, FrontTypeOK, FetchNextIteration, renamerVars, backVars, simVars
<1> QED BY <1>6, <1>7, <1>8 DEF FrontInv, FetchNextIteration, renamerVars, simVars

LEMMA FetchInstructionKeepsFront ==
  ASSUME FrontInv, FetchInstruction
  PROVE  FrontInv'
<1>1. PICK i, j, n, x : /\ i = fetchIndex.iteration /\ j = fetchIndex.bb
                        /\ n = NumInstrs /\ x = FetchPosition
  OBVIOUS
<1>2. /\ i \in Nat /\ n \in Nat \ {0} /\ j \in 0 .. n /\ j # n /\ x \in Nat
      /\ fetchIndex = [iteration |-> i, bb |-> j] /\ x = i * n + j
  <2>1. fetchIndex \in [iteration : Nat, bb : 0 .. n]
    BY <1>1 DEF FrontInv, FrontTypeOK
  <2>2. n \in Nat \ {0} /\ x \in Nat /\ j # n
    BY <1>1, FrontTypes DEF FrontInv, FetchInstruction, CanFetch, AtBlockEnd
  <2> QED BY <2>1, <2>2, <1>1 DEF FetchPosition
<1>3. fetchIndex' = [iteration |-> i, bb |-> j + 1]
  BY <1>2 DEF FetchInstruction
<1>4. NumInstrs' = n
  BY <1>1 DEF FetchInstruction, simVars, NumInstrs
<1>5. FetchPosition' = x + 1
  <2>1. i * n \in Int
    BY <1>2
  <2>2. i * n + (j + 1) = (i * n + j) + 1
    BY <2>1, <1>2
  <2>3. FetchPosition' = i * n + (j + 1)
    BY <1>3, <1>4 DEF FetchPosition
  <2> QED BY <2>2, <2>3, <1>2
<1>6. fetchedLink' = Pushed(fetchedLink, <<x>>)
  BY <1>1 DEF FetchInstruction, FetchPosition
<1>7. <<x>> \in Seq(Nat)
  BY <1>2
<1>8. /\ fetchedLink' \in BuffersOf(Nat)
      /\ Contents(fetchedLink') = Contents(fetchedLink) \o <<x>>
  BY <1>6, <1>7, PushedContents DEF FrontInv, FrontTypeOK
<1>9. InstrsInFlight' = InstrsInFlight \o <<x>>
  <2>1. Contents(instrQueue) \in Seq(Nat) /\ Contents(fetchedLink) \in Seq(Nat)
    BY FrontTypes DEF FrontInv
  <2>2. (Contents(instrQueue) \o Contents(fetchedLink)) \o <<x>>
          = Contents(instrQueue) \o (Contents(fetchedLink) \o <<x>>)
    BY <2>1, <1>7, ConcatAssociative, SMTT(30)
  <2>3. instrQueue' = instrQueue
    BY DEF FetchInstruction
  <2> QED BY <2>2, <2>3, <1>8 DEF InstrsInFlight
<1>10. UNCHANGED <<PendingUops, NamedUops, DecodedIds>>
  BY DEF FetchInstruction, renamerVars, backVars, PendingUops, NamedUops, DecodedIds
<1>11. FrontTypeOK'
  <2>1. fetchIndex' \in [iteration : Nat, bb : 0 .. n]
    BY <1>2, <1>3
  <2> QED BY <2>1, <1>4, <1>8 DEF FrontInv, FrontTypeOK, FetchInstruction,
               renamerVars, backVars, simVars
<1>12. InOrder(block, DecodedIds, InstrsInFlight \o <<x>>, x + 1)
  BY <1>1, <1>2, FrontTypes, FetchKeepsOrder DEF FrontInv
<1> QED BY <1>5, <1>9, <1>10, <1>11, <1>12
     DEF FrontInv, FetchInstruction, renamerVars, simVars

LEMMA ParseInstructionKeepsFront ==
  ASSUME FrontInv, ParseInstruction
  PROVE  FrontInv'
<1>1. PICK h : h = Head(fetchedLink.fifo)
  OBVIOUS
<1>2. /\ fetchedLink' \in BuffersOf(Nat) /\ h \in Nat
      /\ Contents(fetchedLink') \in Seq(Nat)
      /\ Contents(fetchedLink) = <<h>> \o Contents(fetchedLink')
  <2>1. fetchedLink' = Popped(fetchedLink) /\ HasElement(fetchedLink)
    BY DEF ParseInstruction, CanParse
  <2> QED BY <2>1, <1>1, PoppedContents DEF FrontInv, FrontTypeOK
<1>3. <<h>> \in Seq(Nat)
  BY <1>2
<1>4. /\ instrQueue' \in BuffersOf(Nat)
      /\ Contents(instrQueue') = Contents(instrQueue) \o <<h>>
  <2>1. instrQueue' = Pushed(instrQueue, <<h>>)
    BY <1>1 DEF ParseInstruction
  <2> QED BY <2>1, <1>3, PushedContents DEF FrontInv, FrontTypeOK
<1>5. InstrsInFlight' = InstrsInFlight
  <2>1. Contents(instrQueue) \in Seq(Nat)
    BY FrontTypes DEF FrontInv
  <2>2. (Contents(instrQueue) \o <<h>>) \o Contents(fetchedLink')
          = Contents(instrQueue) \o (<<h>> \o Contents(fetchedLink'))
    BY <2>1, <1>2, <1>3, ConcatAssociative, SMTT(30)
  <2> QED BY <2>2, <1>2, <1>4 DEF InstrsInFlight
<1>6. UNCHANGED <<PendingUops, NamedUops, DecodedIds, FetchPosition>>
  BY DEF ParseInstruction, renamerVars, backVars, simVars, PendingUops,
         NamedUops, DecodedIds, FetchPosition, NumInstrs
<1>7. FrontTypeOK'
  BY <1>2, <1>4 DEF FrontInv, FrontTypeOK, ParseInstruction, renamerVars,
               backVars, simVars, NumInstrs
<1> QED BY <1>5, <1>6, <1>7 DEF FrontInv, ParseInstruction, renamerVars, simVars

LEMMA SameInstr == \A n : InstrAt(n) = InstrOf(block, n)
BY DEF InstrAt, InstrOf, NumInstrs

LEMMA DecodeInstructionKeepsFront ==
  ASSUME FrontInv, DecodeInstruction
  PROVE  FrontInv'
<1>1. PICK n, d, q : /\ n = Head(instrQueue.fifo) /\ d = DecodedUops
                     /\ q = Contents(instrQueue')
  OBVIOUS
<1>2. /\ instrQueue' \in BuffersOf(Nat) /\ n \in Nat /\ q \in Seq(Nat)
      /\ Contents(instrQueue) = <<n>> \o q
  <2>1. instrQueue' = Popped(instrQueue) /\ HasElement(instrQueue)
    BY DEF DecodeInstruction, CanDecode
  <2> QED BY <2>1, <1>1, PoppedContents DEF FrontInv, FrontTypeOK
<1>3. d \in Seq(UopIds) /\ AreUopsOf(block, n, d)
  <2>1. PICK m : m = Len(InstrOf(block, n).uops)
    OBVIOUS
  <2>2. m \in Nat
    BY <2>1, <1>2, InstrsOfBlock DEF FrontInv, FrontTypeOK
  <2>3. d = [k \in 1 .. m |-> [instr |-> n, index |-> k - 1]]
    BY <1>1, <2>1, SameInstr DEF DecodedUops
  <2>4. \A k \in 1 .. m : [instr |-> n, index |-> k - 1] \in UopIds
    BY <1>2, <2>2 DEF UopIds
  <2>5. d \in Seq(UopIds) /\ Len(d) = m
    BY <2>2, <2>3, <2>4
  <2> QED BY <2>1, <2>3, <2>5 DEF AreUopsOf
<1>4. /\ decodeQueue' \in BuffersOf(UopIds)
      /\ Contents(decodeQueue') = Contents(decodeQueue) \o d
  <2>1. decodeQueue' = Pushed(decodeQueue, d)
    BY <1>1 DEF DecodeInstruction
  <2> QED BY <2>1, <1>3, PushedContents DEF FrontInv, FrontTypeOK
<1>5. InstrsInFlight = <<n>> \o InstrsInFlight' /\ InstrsInFlight' \in Seq(Nat)
  <2>1. Contents(fetchedLink) \in Seq(Nat) /\ <<n>> \in Seq(Nat)
    BY <1>2, FrontTypes DEF FrontInv
  <2>2. (<<n>> \o q) \o Contents(fetchedLink) = <<n>> \o (q \o Contents(fetchedLink))
    BY <2>1, <1>2, ConcatAssociative, SMTT(30)
  <2>3. q \o Contents(fetchedLink) \in Seq(Nat)
    BY <2>1, <1>2, ConcatProperties
  <2>4. fetchedLink' = fetchedLink
    BY DEF DecodeInstruction
  <2> QED BY <2>2, <2>3, <2>4, <1>1, <1>2 DEF InstrsInFlight
<1>6. UNCHANGED <<PendingUops, NamedUops, FetchPosition>>
  BY DEF DecodeInstruction, renamerVars, backVars, simVars, PendingUops,
         NamedUops, FetchPosition, NumInstrs
<1>7. DecodedIds' = DecodedIds \o d
  <2>1. Ids(NamedUops) \in Seq(UopIds) /\ Contents(decodeQueue) \in Seq(UopIds)
    BY FrontTypes DEF FrontInv
  <2>2. (Ids(NamedUops) \o Contents(decodeQueue)) \o d
          = Ids(NamedUops) \o (Contents(decodeQueue) \o d)
    BY <2>1, <1>3, ConcatAssociative, SMTT(30)
  <2> QED BY <2>2, <1>4, <1>6 DEF DecodedIds
<1>8. FrontTypeOK'
  BY <1>2, <1>4 DEF FrontInv, FrontTypeOK, DecodeInstruction, renamerVars,
               backVars, simVars, NumInstrs
<1>9. InOrder(block, DecodedIds \o d, InstrsInFlight', FetchPosition)
  <2>1. PICK u, r, p : u = DecodedIds /\ r = InstrsInFlight' /\ p = FetchPosition
    OBVIOUS
  <2>2. /\ block \in Blocks /\ u \in Seq(UopIds) /\ r \in Seq(Nat) /\ p \in Nat
        /\ InOrder(block, u, <<n>> \o r, p)
    BY <2>1, <1>5, FrontTypes DEF FrontInv, FrontTypeOK
  <2>3. InOrder(block, u \o d, r, p)
    BY <2>2, <1>2, <1>3, DecodeKeepsOrder
  <2> QED BY <2>1, <2>3
<1> QED BY <1>6, <1>7, <1>8, <1>9
     DEF FrontInv, DecodeInstruction, renamerVars, simVars

LEMMA FlushPendingKeepsFront ==
  ASSUME FrontInv, FlushPending
  PROVE  FrontInv'
<1>1. PICK v : v = pendingUop
  OBVIOUS
<1>2. /\ v \in RenamedUops /\ PendingUops = <<v>> /\ PendingUops' = << >>
      /\ <<v>> \in Seq(RenamedUops)
  BY <1>1 DEF FrontInv, FrontTypeOK, FlushPending, PendingUops
<1>3. /\ renamedLink' \in BuffersOf(RenamedUops)
      /\ Contents(renamedLink') = Contents(renamedLink) \o <<v>>
  <2>1. renamedLink' = Pushed(renamedLink, <<v>>)
    BY <1>1 DEF FlushPending
  <2> QED BY <2>1, <1>2, PushedContents DEF FrontInv, FrontTypeOK
<1>4. NamedUops' = NamedUops
  <2>1. renamed \in Seq(RenamedUops) /\ Contents(renamedLink) \in Seq(RenamedUops)
    BY FrontTypes DEF FrontInv, FrontTypeOK
  <2>2. (renamed \o Contents(renamedLink)) \o <<v>>
          = renamed \o (Contents(renamedLink) \o <<v>>)
    BY <2>1, <1>2, ConcatAssociative, SMTT(30)
  <2>3. (renamed \o Contents(renamedLink)) \o <<v>> \in Seq(RenamedUops)
    BY <2>1, <1>2, ConcatProperties
  <2>4. ((renamed \o Contents(renamedLink)) \o <<v>>) \o << >>
          = (renamed \o Contents(renamedLink)) \o <<v>>
    BY <2>3, ConcatEmptySeq
  <2>5. renamed' = renamed
    BY DEF FlushPending, backVars
  <2> QED BY <2>2, <2>4, <2>5, <1>2, <1>3 DEF NamedUops
<1>5. UNCHANGED <<DecodedIds, InstrsInFlight, FetchPosition>>
  BY <1>4 DEF FlushPending, frontVars, simVars, DecodedIds, InstrsInFlight,
         FetchPosition, NumInstrs
<1>6. FrontTypeOK'
  BY <1>3 DEF FrontInv, FrontTypeOK, FlushPending, frontVars, backVars, simVars,
         NumInstrs
<1> QED BY <1>4, <1>5, <1>6 DEF FrontInv, FlushPending, simVars

LEMMA ReadingKeepsFront ==
  ASSUME FrontInv, ReadNewUop
  PROVE  FrontInv'
<1>1. PICK v : v = Head(renamedLink.fifo)
  OBVIOUS
<1>2. /\ renamedLink' \in BuffersOf(RenamedUops) /\ v \in RenamedUops
      /\ Contents(renamedLink') \in Seq(RenamedUops)
      /\ Contents(renamedLink) = <<v>> \o Contents(renamedLink')
  <2>1. renamedLink' = Popped(renamedLink) /\ HasElement(renamedLink)
    BY DEF ReadNewUop
  <2> QED BY <2>1, <1>1, PoppedContents DEF FrontInv, FrontTypeOK
<1>3. renamed' = renamed \o <<v>> /\ renamed' \in Seq(RenamedUops)
      /\ renamed \in Seq(RenamedUops) /\ <<v>> \in Seq(RenamedUops)
  <2>1. renamed \in Seq(RenamedUops) /\ renamed' = Append(renamed, v)
    BY <1>1 DEF FrontInv, FrontTypeOK, ReadNewUop
  <2> QED BY <2>1, <1>2, AppendIsConcat, AppendProperties
<1>4. UNCHANGED PendingUops
  BY DEF ReadNewUop, outsideROB, renamerVars, PendingUops
<1>5. NamedUops' = NamedUops
  <2>1. (renamed \o <<v>>) \o Contents(renamedLink')
          = renamed \o (<<v>> \o Contents(renamedLink'))
    BY <1>2, <1>3, ConcatAssociative, SMTT(30)
  <2> QED BY <2>1, <1>2, <1>3, <1>4 DEF NamedUops
<1>6. UNCHANGED <<DecodedIds, InstrsInFlight, FetchPosition>>
  BY <1>5 DEF ReadNewUop, outsideROB, frontVars, simVars, DecodedIds,
         InstrsInFlight, FetchPosition, NumInstrs
<1>7. FrontTypeOK'
  BY <1>2, <1>3 DEF FrontInv, FrontTypeOK, ReadNewUop, outsideROB, renamerVars,
         frontVars, simVars, NumInstrs
<1> QED BY <1>5, <1>6, <1>7 DEF FrontInv, ReadNewUop, outsideROB, renamerVars, simVars

LEMMA EndCycleKeepsFront ==
  ASSUME FrontInv, EndCycle
  PROVE  FrontInv'
<1>1. /\ fetchedLink' = LinkPropagated(fetchedLink)
      /\ instrQueue' = FifoPropagated(instrQueue)
      /\ decodeQueue' = FifoPropagated(decodeQueue)
      /\ renamedLink' = LinkPropagated(renamedLink)
      /\ UNCHANGED <<renamed, block, fetchIndex, names, numAllocated, pendingUop>>
  BY DEF EndCycle, renamerVars
<1>2. /\ fetchedLink' \in BuffersOf(Nat) /\ instrQueue' \in BuffersOf(Nat)
      /\ decodeQueue' \in BuffersOf(UopIds)
      /\ renamedLink' \in BuffersOf(RenamedUops)
      /\ Contents(fetchedLink') = Contents(fetchedLink)
      /\ Contents(instrQueue') = Contents(instrQueue)
      /\ Contents(decodeQueue') = Contents(decodeQueue)
      /\ Contents(renamedLink') = Contents(renamedLink)
  BY <1>1, PropagatedContents DEF FrontInv, FrontTypeOK
<1>3. UNCHANGED <<PendingUops, NamedUops>>
  BY <1>1, <1>2 DEF PendingUops, NamedUops
<1>4. UNCHANGED <<DecodedIds, InstrsInFlight, FetchPosition>>
  BY <1>1, <1>2, <1>3 DEF DecodedIds, InstrsInFlight, FetchPosition, NumInstrs
<1>5. FrontTypeOK'
  BY <1>1, <1>2 DEF FrontInv, FrontTypeOK, NumInstrs
<1> QED BY <1>1, <1>3, <1>4, <1>5 DEF FrontInv

-----------------------------------------------------------------------------
(* RegisterRenamer::Tick: one uop gets its names.                          *)

\* The pairs of naturals of which the first is less.
LessThan == {ss \in Nat \X Nat : ss[1] < ss[2]}

LEMMA LessThanIsWellFounded == IsWellFoundedOn(LessThan, Nat)
BY NatLessThanWellFounded, Zenon DEF OpToRel, LessThan

LEMMA SmallestExists ==
  ASSUME NEW S \in SUBSET Nat, S # {}
  PROVE  \E m \in S : \A e \in S : m <= e
<1>1. PICK m \in S : \A e \in S : ~ (<<e, m>> \in LessThan)
  <2>1. PICK e0 \in S : TRUE
    OBVIOUS
  <2> QED BY <2>1, LessThanIsWellFounded, WFMin
<1>2. ASSUME NEW e \in S PROVE m <= e
  <2>1. e \in Nat /\ m \in Nat /\ ~ (<<e, m>> \in LessThan)
    BY <1>1
  <2>2. ~ (e < m)
    BY <2>1 DEF LessThan
  <2> QED BY <2>1, <2>2
<1> QED BY <1>2

LEMMA LargestExists ==
  ASSUME NEW n \in Nat, NEW S \in SUBSET (1 .. n), S # {}
  PROVE  \E m \in S : \A e \in S : e <= m
<1>1. PICK T : T = {n - e : e \in S}
  OBVIOUS
<1>2. T \in SUBSET Nat /\ T # {}
  <2>1. PICK e0 \in S : TRUE
    OBVIOUS
  <2>2. n - e0 \in T
    BY <1>1
  <2>3. \A e \in S : n - e \in Nat
    OBVIOUS
  <2> QED BY <2>2, <2>3, <1>1
<1>3. PICK t \in T : \A u \in T : t <= u
  BY <1>2, SmallestExists
<1>4. PICK m \in S : t = n - m
  BY <1>1
<1>5. ASSUME NEW e \in S PROVE e <= m
  <2>1. n - e \in T
    BY <1>1
  <2>2. n - m <= n - e
    BY <2>1, <1>3, <1>4
  <2> QED BY <2>2
<1> QED BY <1>5

\* The uop that comes next from the decode queue.
LEMMA HeadUopIs ==
  ASSUME FrontInv, HasElement(decodeQueue)
  PROVE  /\ HeadUop \in UopIds
         /\ IsUopOf(block, HeadUop)
         /\ Popped(decodeQueue) \in BuffersOf(UopIds)
         /\ Contents(Popped(decodeQueue)) \in Seq(UopIds)
         /\ Contents(decodeQueue) = <<HeadUop>> \o Contents(Popped(decodeQueue))
<1>1. /\ HeadUop \in UopIds
      /\ Popped(decodeQueue) \in BuffersOf(UopIds)
      /\ Contents(Popped(decodeQueue)) \in Seq(UopIds)
      /\ Contents(decodeQueue) = <<HeadUop>> \o Contents(Popped(decodeQueue))
  BY PoppedContents DEF FrontInv, FrontTypeOK, HeadUop
<1>2. PICK s, h, t, c : /\ s = Ids(NamedUops) /\ h = <<HeadUop>>
                        /\ t = Contents(Popped(decodeQueue))
                        /\ c = Contents(decodeQueue)
  OBVIOUS
<1>3. /\ s \in Seq(UopIds) /\ h \in Seq(UopIds) /\ t \in Seq(UopIds)
      /\ c \in Seq(UopIds)
  BY <1>1, <1>2, FrontTypes DEF FrontInv
<1>4. Len(t) \in Nat /\ Len(c) = 1 + Len(t) /\ c[1] = HeadUop
  <2>1. /\ Len(t) \in Nat /\ Len(h \o t) = Len(h) + Len(t)
        /\ \A i \in 1 .. Len(h) : (h \o t)[i] = h[i]
    BY <1>3, Concat
  <2>2. c = h \o t /\ Len(h) = 1 /\ h[1] = HeadUop
    BY <1>1, <1>2
  <2>3. 1 \in 1 .. Len(h)
    BY <2>2
  <2> QED BY <2>1, <2>2, <2>3
<1>5. /\ Len(s) \in Nat /\ Len(s \o c) = Len(s) + Len(c)
      /\ \A i \in 1 .. Len(c) : (s \o c)[Len(s) + i] = c[i]
  BY <1>3, Concat
<1>6. DecodedIds = s \o c
  BY <1>2 DEF DecodedIds
<1>7. Len(s) + 1 \in 1 .. Len(DecodedIds) /\ DecodedIds[Len(s) + 1] = HeadUop
  BY <1>4, <1>5, <1>6
<1>8. IsTrace(block, DecodedIds)
  BY DEF FrontInv, InOrder
<1>9. IsUopOf(block, HeadUop)
  BY <1>7, <1>8 DEF IsTrace
<1> QED BY <1>1, <1>9

\* The effect of PopulateUop on the tracker.
LEMMA NamesEffect ==
  ASSUME NEW instr, NEW id, NEW n \in Nat, n = NumRenames(instr, id),
         numAllocated \in Nat, names \in [Units -> Nat],
         CorePopulateUop(instr, id)
  PROVE  /\ numAllocated' = numAllocated + n
         /\ \A x \in Units : \/ names'[x] = names[x]
                             \/ names'[x] \in numAllocated + 1 .. numAllocated + n
         /\ names' = [x \in Units |-> names'[x]]
<1>1. /\ numAllocated' = numAllocated + n
      /\ names' = [x \in Units |->
           IF {f \in 1 .. n : x \in instr.defs[f]} = {} THEN names[x]
           ELSE numAllocated + (CHOOSE d \in {f \in 1 .. n : x \in instr.defs[f]} :
                                  \A e \in {f \in 1 .. n : x \in instr.defs[f]} : e <= d)]
  BY DEF CorePopulateUop, NewName
<1>2. ASSUME NEW x \in Units
      PROVE  \/ names'[x] = names[x]
             \/ names'[x] \in numAllocated + 1 .. numAllocated + n
  <2>1. PICK setters \in SUBSET (1 .. n) : setters = {f \in 1 .. n : x \in instr.defs[f]}
    OBVIOUS
  <2>2. names'[x] = IF setters = {} THEN names[x]
                    ELSE numAllocated + (CHOOSE d \in setters : \A e \in setters : e <= d)
    BY <1>1, <2>1
  <2>3. CASE setters = {}
    BY <2>2, <2>3
  <2>4. CASE setters # {}
    <3>1. \E m \in setters : \A e \in setters : e <= m
      BY <2>4, LargestExists
    <3>2. PICK m : m = CHOOSE d \in setters : \A e \in setters : e <= d
      OBVIOUS
    <3>3. m \in 1 .. n
      BY <3>1, <3>2
    <3> QED BY <2>2, <2>4, <3>2, <3>3
  <2> QED BY <2>3, <2>4
<1>3. names' = [x \in Units |-> names'[x]]
  BY <1>1
<1> QED BY <1>1, <1>2, <1>3

\* The renamed uop is one, and its names are those that come next.
LEMMA RenamedHeadIs ==
  ASSUME FrontInv, HasElement(decodeQueue),
         CorePopulateUop(InstrAt(HeadUop.instr), HeadUop)
  PROVE  /\ RenamedHead \in RenamedUops
         /\ RenamedHead.id = HeadUop
         /\ numAllocated' \in Nat /\ numAllocated \in Nat
         /\ numAllocated <= numAllocated'
         /\ numAllocated' \in 0 .. NumPhysicalRegisters
         /\ names' \in [Units -> 0 .. NumPhysicalRegisters]
         /\ NextNames(RenamedHead, names, numAllocated, names', numAllocated')
<1>1. PICK id, instr, n, c : /\ id = HeadUop /\ instr = InstrOf(block, id.instr)
                             /\ n = NumRenames(instr, id) /\ c = numAllocated
  OBVIOUS
<1>2. /\ id \in UopIds /\ id.instr \in Nat /\ id.index \in Nat
      /\ id.index < Len(instr.uops)
      /\ block \in Blocks
      /\ c \in 0 .. NumPhysicalRegisters
      /\ names \in [Units -> 0 .. NumPhysicalRegisters]
      /\ NumPhysicalRegisters \in Nat
  BY <1>1, HeadUopIs, RenamerAssumption DEF IsUopOf, UopIds, FrontInv, FrontTypeOK
<1>3. /\ instr.uses \in SUBSET Units
      /\ instr.defs \in Seq(SUBSET Units)
      /\ instr.uops \in Seq([ports : SUBSET Ports, latency : Nat])
      /\ Len(instr.uops) \in Nat \ {0}
  BY <1>1, <1>2, InstrsOfBlock
<1>4. n \in Nat /\ c + n <= NumPhysicalRegisters
  <2>1. Len(instr.defs) \in Nat
    BY <1>3, LenProperties
  <2>2. CanPopulate(instr, id)
    BY <1>1, SameInstr DEF CorePopulateUop
  <2> QED BY <2>1, <2>2, <1>1, <1>2
       DEF NumRenames, CanPopulate, HasAtLeastFreePhysicalRegisterIds
<1>5. /\ numAllocated' = c + n
      /\ \A x \in Units : names'[x] = names[x] \/ names'[x] \in c + 1 .. c + n
      /\ names' = [x \in Units |-> names'[x]]
  <2>1. names \in [Units -> Nat]
    BY <1>2
  <2>2. CorePopulateUop(instr, id)
    BY <1>1, SameInstr
  <2> QED BY <2>1, <2>2, <1>1, <1>2, <1>4, NamesEffect
<1>6. names' \in [Units -> 0 .. NumPhysicalRegisters]
  BY <1>2, <1>4, <1>5
<1>7. PICK us, ds, ps : /\ us = (IF id.index = 0 THEN NameDeps(instr.uses) ELSE {})
                        /\ ds = {NewName(d) : d \in 1 .. n}
                        /\ ps = instr.uops[id.index + 1].ports
  OBVIOUS
<1>8. RenamedHead = [id |-> id, uses |-> us, defs |-> ds, ports |-> ps]
  BY <1>1, <1>7, SameInstr DEF RenamedHead, PopulatedUop
<1>9. us \in SUBSET Regs
      /\ \A r \in us : id.index = 0 /\ r # 0 /\ \E x \in Units : r = names[x]
  <2>1. \A x \in Units : names[x] \in 0 .. NumPhysicalRegisters
    BY <1>2
  <2>2. NameDeps(instr.uses) \in SUBSET Regs
        /\ \A r \in NameDeps(instr.uses) : r # 0 /\ \E x \in Units : r = names[x]
    <3> SUFFICES ASSUME NEW r \in NameDeps(instr.uses)
                 PROVE  r \in Regs /\ r # 0 /\ \E x \in Units : r = names[x]
      OBVIOUS
    <3>1. PICK x \in instr.uses : r = names[x] /\ r # 0
      BY DEF NameDeps
    <3>2. x \in Units /\ r \in 0 .. NumPhysicalRegisters
      BY <3>1, <2>1, <1>3
    <3>3. r \in Regs
      BY <3>1, <3>2, <1>2, WiringAssumption
    <3> QED BY <3>1, <3>2, <3>3
  <2> QED BY <2>2, <1>7
<1>10. ds \in SUBSET Regs /\ \A r \in ds : r \in c + 1 .. c + n
  <2> SUFFICES ASSUME NEW r \in ds PROVE r \in c + 1 .. c + n /\ r \in Regs
    OBVIOUS
  <2>1. PICK d \in 1 .. n : r = c + d
    BY <1>1, <1>7 DEF NewName
  <2>2. r \in c + 1 .. c + n /\ r \in 1 .. NumPhysicalRegisters
    BY <2>1, <1>2, <1>4
  <2> QED BY <2>2, WiringAssumption
<1>11. ps \in SUBSET Ports
  <2>1. id.index + 1 \in 1 .. Len(instr.uops)
    BY <1>2, <1>3
  <2>2. instr.uops[id.index + 1] \in [ports : SUBSET Ports, latency : Nat]
    BY <2>1, <1>3, ElementOfSeq
  <2> QED BY <2>2, <1>7
<1>12. RenamedHead \in RenamedUops /\ RenamedHead.id = id
  BY <1>2, <1>8, <1>9, <1>10, <1>11 DEF RenamedUops
<1>13. NextNames(RenamedHead, names, numAllocated, names', numAllocated')
  <2>1. \A x \in Units : names'[x] = names[x] \/ names'[x] \in ds
    <3> SUFFICES ASSUME NEW x \in Units, names'[x] \in c + 1 .. c + n
                 PROVE  names'[x] \in ds
      BY <1>5
    <3>1. PICK y \in c + 1 .. c + n : y = names'[x]
      OBVIOUS
    <3>2. c \in Nat
      BY <1>2
    <3>3. y - c \in 1 .. n /\ y = c + (y - c)
      BY <3>2, <1>4
    <3> QED BY <3>1, <3>3, <1>1, <1>7 DEF NewName
  <2> QED BY <2>1, <1>1, <1>5, <1>8, <1>9, <1>10 DEF NextNames
<1> QED BY <1>1, <1>2, <1>4, <1>5, <1>6, <1>12, <1>13

LEMMA RenamingKeepsFront ==
  ASSUME NoUop \notin RenamedUops, FrontInv, RenameUop
  PROVE  FrontInv'
<1>1. PICK v, t, c : /\ v = RenamedHead /\ c = Contents(renamedLink)
                     /\ t = Contents(Popped(decodeQueue))
  OBVIOUS
<1>2. /\ HasElement(decodeQueue) /\ decodeQueue' = Popped(decodeQueue)
      /\ CorePopulateUop(InstrAt(HeadUop.instr), HeadUop)
      /\ pendingUop = NoUop /\ PendingUops = << >>
      /\ UNCHANGED <<renamed, fetchIndex, fetchedLink, instrQueue, block>>
  BY DEF RenameUop, backVars, simVars, PendingUops
<1>3. /\ v \in RenamedUops /\ v # NoUop /\ v.id = HeadUop
      /\ numAllocated \in Nat /\ numAllocated' \in Nat
      /\ numAllocated <= numAllocated'
      /\ numAllocated' \in 0 .. NumPhysicalRegisters
      /\ names' \in [Units -> 0 .. NumPhysicalRegisters]
      /\ NextNames(v, names, numAllocated, names', numAllocated')
  BY <1>1, <1>2, RenamedHeadIs
<1>4. /\ decodeQueue' \in BuffersOf(UopIds) /\ t \in Seq(UopIds)
      /\ Contents(decodeQueue') = t
      /\ HeadUop \in UopIds
      /\ Contents(decodeQueue) = <<HeadUop>> \o t
  BY <1>1, <1>2, HeadUopIs
<1>5. /\ renamed \in Seq(RenamedUops) /\ c \in Seq(RenamedUops)
      /\ renamed \o c \in Seq(RenamedUops)
      /\ NamedUops \in Seq(RenamedUops)
      /\ Ids(NamedUops) \in Seq(UopIds)
      /\ renamedLink \in BuffersOf(RenamedUops)
  BY <1>1, FrontTypes DEF FrontInv, FrontTypeOK
<1>6. <<v>> \in Seq(RenamedUops) /\ <<HeadUop>> \in Seq(UopIds)
  BY <1>3, <1>4
<1>7. NamedUops = renamed \o c
  BY <1>1, <1>2, <1>5, ConcatEmptySeq DEF NamedUops
<1>8. /\ NamedUops' = (renamed \o c) \o <<v>>
      /\ renamedLink' \in BuffersOf(RenamedUops)
      /\ pendingUop' \in RenamedUops \cup {NoUop}
  <2>1. CASE ~ renamedLink.stalled
    <3>1. renamedLink' = Pushed(renamedLink, <<v>>) /\ pendingUop' = NoUop
      BY <2>1, <1>1, <1>2 DEF RenameUop
    <3>2. /\ renamedLink' \in BuffersOf(RenamedUops)
          /\ Contents(renamedLink') = c \o <<v>>
      BY <3>1, <1>1, <1>5, <1>6, PushedContents
    <3>3. renamed \o (c \o <<v>>) = (renamed \o c) \o <<v>>
      BY <1>5, <1>6, ConcatAssociative, SMTT(30)
    <3>4. (renamed \o c) \o <<v>> \in Seq(RenamedUops)
      BY <1>5, <1>6, ConcatProperties
    <3>5. ((renamed \o c) \o <<v>>) \o << >> = (renamed \o c) \o <<v>>
      BY <3>4, ConcatEmptySeq
    <3>6. PendingUops' = << >>
      BY <3>1 DEF PendingUops
    <3> QED BY <3>1, <3>2, <3>3, <3>5, <3>6, <1>2 DEF NamedUops
  <2>2. CASE renamedLink.stalled
    <3>1. renamedLink' = renamedLink /\ pendingUop' = v
      BY <2>2, <1>1, <1>2 DEF RenameUop
    <3>2. PendingUops' = <<v>>
      BY <3>1, <1>3 DEF PendingUops
    <3> QED BY <3>1, <3>2, <1>1, <1>2, <1>3, <1>5 DEF NamedUops
  <2> QED BY <2>1, <2>2
<1>9. NamedUops' = NamedUops \o <<v>>
  BY <1>7, <1>8
<1>10. DecodedIds' = DecodedIds
  <2>1. Ids(NamedUops \o <<v>>) = Ids(NamedUops) \o <<HeadUop>>
    BY <1>3, <1>5, <1>6, IdsOfConcat, IdsOfFew
  <2>2. (Ids(NamedUops) \o <<HeadUop>>) \o t = Ids(NamedUops) \o (<<HeadUop>> \o t)
    BY <1>4, <1>5, <1>6, ConcatAssociative, SMTT(30)
  <2> QED BY <2>1, <2>2, <1>4, <1>9 DEF DecodedIds
<1>11. UNCHANGED <<InstrsInFlight, FetchPosition>>
  BY <1>2 DEF InstrsInFlight, FetchPosition, NumInstrs
<1>12. NamesGiven(NamedUops \o <<v>>, names', numAllocated')
  BY <1>3, <1>5, RenamingKeepsNames DEF FrontInv
<1>13. FrontTypeOK'
  BY <1>2, <1>3, <1>4, <1>8 DEF FrontInv, FrontTypeOK, NumInstrs
<1> QED BY <1>2, <1>9, <1>10, <1>11, <1>12, <1>13 DEF FrontInv

-----------------------------------------------------------------------------
(* No uop is lost, duplicated or reordered on its way.                     *)

LEMMA InitFront == Init => FrontInv
<1> SUFFICES ASSUME Init PROVE FrontInv
  OBVIOUS
<1>1. /\ block \in Blocks /\ renamed = << >> /\ pendingUop = NoUop
      /\ fetchIndex = [iteration |-> 0, bb |-> 0]
      /\ fetchedLink = EmptyBuffer /\ instrQueue = EmptyBuffer
      /\ decodeQueue = EmptyBuffer /\ renamedLink = EmptyBuffer
      /\ numAllocated = 0 /\ names = [x \in Units |-> 0]
  BY DEF Init, RenamerInit
<1>2. NumInstrs \in Nat \ {0}
  <2>1. 0 \in Nat
    OBVIOUS
  <2> QED BY <2>1, <1>1, InstrsOfBlock DEF NumInstrs
<1>3. FrontTypeOK
  <2>1. << >> \in Seq(RenamedUops)
    BY EmptySeq
  <2> QED BY <2>1, <1>1, <1>2, EmptyBuffers, RenamerAssumption DEF FrontTypeOK
<1>4. << >> \o << >> = << >>
  <2>1. << >> \in Seq(Nat)
    BY EmptySeq
  <2> QED BY <2>1, ConcatEmptySeq
<1>5. NamedUops = << >>
  BY <1>1, <1>4, EmptyBuffers DEF NamedUops, PendingUops
<1>6. DecodedIds = << >> /\ InstrsInFlight = << >>
  <2>1. Ids(<< >>) = << >>
    BY DEF Ids
  <2> QED BY <2>1, <1>1, <1>4, <1>5, EmptyBuffers DEF DecodedIds, InstrsInFlight
<1>7. FetchPosition = 0
  BY <1>1, <1>2 DEF FetchPosition
<1>8. Len(<< >>) = 0
  BY EmptySeq
<1>9. InOrder(block, << >>, << >>, 0)
  BY <1>8 DEF InOrder, IsTrace, NextInstr, CountsFrom
<1>10. NamesGiven(<< >>, names, numAllocated)
  BY <1>1, <1>8 DEF NamesGiven
<1> QED BY <1>3, <1>5, <1>6, <1>7, <1>9, <1>10 DEF FrontInv

LEMMA NextFront ==
  ASSUME NoUop \notin RenamedUops, FrontInv, [Next]_vars
  PROVE  FrontInv'
<1>1. CASE FetchNextIteration
  BY <1>1, FetchNextIterationKeepsFront
<1>2. CASE FetchInstruction
  BY <1>2, FetchInstructionKeepsFront
<1>3. CASE ParseInstruction
  BY <1>3, ParseInstructionKeepsFront
<1>4. CASE DecodeInstruction
  BY <1>4, DecodeInstructionKeepsFront
<1>5. CASE FlushPending
  BY <1>5, FlushPendingKeepsFront
<1>6. CASE RenameUop
  BY <1>6, RenamingKeepsFront
<1>7. CASE ReadNewUop
  BY <1>7, ReadingKeepsFront
<1>8. CASE EndCycle
  BY <1>8, EndCycleKeepsFront
<1>9. CASE FetchEnd \/ ParseEnd \/ DecodeEnd \/ RenameEnd \/ RetireEnd \/ Done
           \/ UNCHANGED vars
  <2>1. UNCHANGED frontEnd
    BY <1>9 DEF FetchEnd, ParseEnd, DecodeEnd, RenameEnd, RetireEnd, Done, vars,
                frontEnd, renamerVars, frontVars, backVars, simVars
  <2> QED BY <2>1, BackEndKeepsFront
<1>10. CASE DeleteRetired \/ OutputsAvailable \/ WrittenBack \/ VisitPortless
            \/ VisitIssue \/ VisitSkip \/ SendForRetirement \/ NextLoop
  <2>1. UNCHANGED frontEnd
    BY <1>10 DEF DeleteRetired, OutputsAvailable, WrittenBack, VisitPortless,
                 VisitIssue, VisitSkip, SendForRetirement, NextLoop, frontEnd,
                 outsideROB, renamerVars, frontVars, simVars
  <2> QED BY <2>1, BackEndKeepsFront
<1>11. CASE UnitRead \/ UnitWriteBack \/ UnitEnd \/ RetireUop
  <2>1. UNCHANGED frontEnd
    BY <1>11 DEF UnitRead, UnitWriteBack, UnitEnd, RetireUop, frontEnd,
                 renamerVars, frontVars, simVars
  <2> QED BY <2>1, BackEndKeepsFront
<1> QED BY <1>1, <1>2, <1>3, <1>4, <1>5, <1>6, <1>7, <1>8, <1>9, <1>10, <1>11
     DEF Next

LEMMA SameUopsInFlight ==
  ASSUME FrontTypeOK
  PROVE  UopsInFlight = DecodedIds
<1>1. PICK c, p : c = Contents(renamedLink) /\ p = PendingUops
  OBVIOUS
<1>2. /\ renamed \in Seq(RenamedUops) /\ c \in Seq(RenamedUops)
      /\ p \in Seq(RenamedUops) /\ renamed \o c \in Seq(RenamedUops)
  BY <1>1, FrontTypes DEF FrontTypeOK
<1>3. Ids((renamed \o c) \o p) = (Ids(renamed) \o Ids(c)) \o Ids(p)
  BY <1>2, IdsOfConcat
<1>4. Ids(p) = IF pendingUop = NoUop THEN << >> ELSE <<pendingUop.id>>
  BY <1>1 DEF PendingUops, Ids
<1>5. /\ Ids(renamed) = [k \in DOMAIN renamed |-> renamed[k].id]
      /\ Ids(c) = [k \in DOMAIN Contents(renamedLink) |-> Contents(renamedLink)[k].id]
  BY <1>1 DEF Ids
<1> QED BY <1>1, <1>3, <1>4, <1>5 DEF UopsInFlight, DecodedIds, NamedUops

\* The part of GaplessTrace that is about the way to the reorder buffer.
GaplessFrontEnd ==
  LET u == UopsInFlight
      decoded == IF u = << >> THEN 0 ELSE Last(u).instr + 1
  IN  /\ u # << >> => Head(u) = [instr |-> 0, index |-> 0]
      /\ \A k \in 1 .. Len(u) - 1 : FollowsInTrace(u[k], u[k + 1])
      /\ u # << >> => IsLastUop(InstrAt(Last(u).instr), Last(u))
      /\ \A k \in DOMAIN InstrsInFlight : InstrsInFlight[k] = decoded + k - 1
      /\ fetchIndex.iteration * NumInstrs + fetchIndex.bb =
           decoded + Len(InstrsInFlight)

LEMMA FrontIsGapless == FrontInv => GaplessFrontEnd
<1> SUFFICES ASSUME FrontInv PROVE GaplessFrontEnd
  OBVIOUS
<1>1. PICK u, s : u = UopsInFlight /\ s = InstrsInFlight
  OBVIOUS
<1>2. u \in Seq(UopIds) /\ s \in Seq(Nat) /\ InOrder(block, u, s, FetchPosition)
  BY <1>1, FrontTypes, SameUopsInFlight DEF FrontInv
<1>3. /\ DOMAIN s = 1 .. Len(s) /\ Len(u) \in Nat
      /\ u # << >> => Len(u) \in Nat \ {0} /\ Head(u) = u[1] /\ Last(u) = u[Len(u)]
  BY <1>2, LenProperties, EmptySeq, HeadAndTail DEF Last
<1>4. u # << >> => Head(u) = [instr |-> 0, index |-> 0]
  BY <1>2, <1>3 DEF InOrder, IsTrace
<1>5. ASSUME NEW k \in 1 .. Len(u) - 1 PROVE FollowsInTrace(u[k], u[k + 1])
  <2>1. PICK id, next : id = u[k] /\ next = u[k + 1]
    OBVIOUS
  <2>2. k \in 1 .. Len(u)
    BY <1>3
  <2>3. id \in UopIds
    BY <2>1, <2>2, <1>2, ElementOfSeq
  <2>4. Follows(block, id, next)
    BY <2>1, <1>2 DEF InOrder, IsTrace
  <2>5. [id EXCEPT !.index = @ + 1] = [instr |-> id.instr, index |-> id.index + 1]
    BY <2>3 DEF UopIds
  <2>6. IsLastUop(InstrAt(id.instr), id) <=> EndsInstr(block, id)
    BY SameInstr DEF IsLastUop, EndsInstr
  <2>7. FollowsInTrace(id, next)
    BY <2>4, <2>5, <2>6 DEF Follows, FollowsInTrace
  <2> QED BY <2>1, <2>7
<1>6. u # << >> => IsLastUop(InstrAt(Last(u).instr), Last(u))
  <2>1. \A id : IsLastUop(InstrAt(id.instr), id) <=> EndsInstr(block, id)
    BY SameInstr DEF IsLastUop, EndsInstr
  <2> QED BY <2>1, <1>2, <1>3 DEF InOrder
<1>7. NextInstr(u) = IF u = << >> THEN 0 ELSE Last(u).instr + 1
  BY <1>3 DEF NextInstr
<1>8. /\ \A k \in DOMAIN s : s[k] = NextInstr(u) + k - 1
      /\ FetchPosition = NextInstr(u) + Len(s)
  BY <1>2, <1>3 DEF InOrder, CountsFrom
<1> QED BY <1>1, <1>4, <1>5, <1>6, <1>7, <1>8 DEF GaplessFrontEnd, FetchPosition

\* What an iteration fetches, the parser splits off, the decoder decomposes and
\* the renamer renames reaches the reorder buffer once and in program order,
\* however the buffers stall, whatever their capacities and widths are, and
\* also across the uop that the renamer keeps when its link refuses it.
THEOREM FrontEndIsGapless ==
  ASSUME NoUop \notin RenamedUops
  PROVE  Spec => []GaplessFrontEnd
<1>1. FrontInv /\ [Next]_vars => FrontInv'
  BY NextFront
<1> QED BY <1>1, InitFront, FrontIsGapless, PTL DEF Spec

=============================================================================
