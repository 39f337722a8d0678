---------------------------- MODULE HaswellProofs ----------------------------
(***************************************************************************)
(* Proofs about the simulated pipeline for every block, every width and    *)
(* every capacity: the reorder buffer among the components around it.      *)
(***************************************************************************)
EXTENDS FrontEndProofs

Retiring == SlotsOf(Contents(retiredLink)) \o SlotsOf(Contents(retireLink))
AwaitingDeps == SlotSet(execDeps.pending \cup execDeps.ready)
AwaitingWriteback == SlotSet(Executing \cup Range(Contents(writebackLink)))

\* The reorder buffer in its place.  That the uops of one instruction arrive
\* while the one before is in the buffer depends on the widths, and is not
\* part of what holds of every pipeline.
Open == INSTANCE ReorderBufferProofs
  WITH MaxUops <- 0, DistinctDefs <- TRUE, PromptUops <- FALSE,
       retiring <- Retiring, awaitingDeps <- AwaitingDeps,
       awaitingWriteback <- AwaitingWriteback

\* What the ports and the tracker hold, and what retires.
Executions == [slot : Slots, latency : Nat]
Retirements == [slot : Slots, uop : UopIds]

BackTypeOK ==
  /\ portLinks \in [Ports -> BuffersOf(Executions)]
  /\ units \in [Ports -> SUBSET Executions]
  /\ unit \in Ports
  /\ execDeps \in [pending : SUBSET Executions, ready : SUBSET Executions]
  /\ writebackLink \in BuffersOf(Executions)
  /\ retireLink \in BuffersOf(Retirements)
  /\ retiredLink \in BuffersOf(Retirements)
  /\ pc # "rob" => phase = "delete"

-----------------------------------------------------------------------------
(* Where an issued entry is.                                               *)

Places == {"pending", "fifo", "unit"}

At(place, p) ==
  CASE place = "pending" -> Range(portLinks[p].pending)
    [] place = "fifo" -> Range(portLinks[p].fifo)
    [] place = "unit" -> units[p]

\* An entry is at one place only, and in the write back link only once.
EachOnce ==
  /\ \A p, q \in Ports : \A x, y \in Places : \A a \in At(x, p), b \in At(y, q) :
       a.slot = b.slot => a = b /\ x = y /\ p = q
  /\ \A j, k \in 1 .. Len(Contents(writebackLink)) :
       Contents(writebackLink)[j].slot = Contents(writebackLink)[k].slot => j = k
  /\ \A j \in 1 .. Len(Contents(writebackLink)) :
       \A p \in Ports : \A x \in Places : \A a \in At(x, p) :
         Contents(writebackLink)[j].slot # a.slot

\* The tracker has an entry once.
TrackedOnce ==
  /\ \A d, e \in execDeps.pending \cup execDeps.ready : d.slot = e.slot => d = e
  /\ execDeps.pending \cap execDeps.ready = {}

\* The unit of port p has had its turn in this cycle.
HasTicked(p) ==
  \/ pc \in {"retirer", "propagate"}
  \/ pc = "unitsRead" /\ p < unit
  \/ pc = "unitsWrite" /\ p <= unit

\* The loop that takes the ready outputs is over in this cycle.
AfterDeps ==
  \/ pc = "rob" /\ phase \in {"writeback", "execute", "retire"}
  \/ pc \in {"unitsRead", "unitsWrite", "retirer", "propagate"}

\* The tracker is never behind the units: what is written back, or has no
\* latency left in a unit that has ticked, is no longer tracked.
TrackerIsAhead ==
  /\ AfterDeps => execDeps.ready = {}
  /\ \A p \in Ports : HasTicked(p) => portLinks[p].fifo = << >>
  /\ \A d \in execDeps.pending : \A p \in Ports :
       /\ \A a \in At("pending", p) : a.slot = d.slot => d.latency <= a.latency
       /\ \A a \in At("fifo", p) :
            a.slot = d.slot => 1 <= d.latency /\ d.latency < a.latency
       /\ \A a \in At("unit", p) :
            a.slot = d.slot =>
              /\ 1 <= d.latency
              /\ IF HasTicked(p) THEN d.latency <= a.latency ELSE d.latency < a.latency
  /\ \A j \in 1 .. Len(Contents(writebackLink)) :
       \A d \in execDeps.pending \cup execDeps.ready :
         Contents(writebackLink)[j].slot # d.slot

\* How many uops went through the retirement station, and what comes next.
NumRetired == Open!NumReleased + Len(Contents(retiredLink))

RetiresNext ==
  \A k \in 1 .. Len(Contents(retireLink)) :
    Contents(retireLink)[k].uop = renamed[NumRetired + k].id

BackInv ==
  /\ BackTypeOK
  /\ Open!IInv
  /\ EachOnce
  /\ TrackedOnce
  /\ TrackerIsAhead
  /\ RetiresNext

\* What a step of the pipeline is for the reorder buffer.
OpenStep ==
  [Open!LoopStep \/ \E u \in Open!Arrivals : Open!ReadNewUop(u)]_(Open!vars)

-----------------------------------------------------------------------------
(* Typed views of the state.                                               *)

LEMMA RangeOfContents ==
  ASSUME NEW S, NEW b \in BuffersOf(S)
  PROVE  /\ Range(Contents(b)) = Range(b.fifo) \cup Range(b.pending)
         /\ Range(b.fifo) \in SUBSET S /\ Range(b.pending) \in SUBSET S
<1>1. b.fifo \in Seq(S) /\ b.pending \in Seq(S)
  BY BufferParts
<1> QED BY <1>1, RangeConcatenation, RangeOfSeq DEF Contents

LEMMA PlaceTypes ==
  ASSUME BackTypeOK, NEW p \in Ports
  PROVE  /\ portLinks[p] \in BuffersOf(Executions)
         /\ \A x \in Places : At(x, p) \in SUBSET Executions
         /\ Range(Contents(portLinks[p])) \cup units[p]
              = UNION {At(x, p) : x \in Places}
<1>1. portLinks[p] \in BuffersOf(Executions) /\ units[p] \in SUBSET Executions
  BY DEF BackTypeOK
<1>2. /\ Range(Contents(portLinks[p]))
           = Range(portLinks[p].fifo) \cup Range(portLinks[p].pending)
      /\ Range(portLinks[p].fifo) \in SUBSET Executions
      /\ Range(portLinks[p].pending) \in SUBSET Executions
  BY <1>1, RangeOfContents
<1>3. /\ At("pending", p) = Range(portLinks[p].pending)
      /\ At("fifo", p) = Range(portLinks[p].fifo)
      /\ At("unit", p) = units[p]
  BY DEF At
<1>4. UNION {At(x, p) : x \in Places} = At("pending", p) \cup At("fifo", p) \cup At("unit", p)
  BY DEF Places
<1> QED BY <1>1, <1>2, <1>3, <1>4 DEF Places

LEMMA WritebackTypes ==
  ASSUME BackTypeOK
  PROVE  /\ Contents(writebackLink) \in Seq(Executions)
         /\ Len(Contents(writebackLink)) \in Nat
         /\ \A j \in 1 .. Len(Contents(writebackLink)) :
              Contents(writebackLink)[j] \in Executions
<1>1. Contents(writebackLink) \in Seq(Executions)
  BY BufferParts DEF BackTypeOK
<1> QED BY <1>1, LenProperties, ElementOfSeq

\* The contract's view of the tracker and of the units.
IsTracked(i) == \E d \in execDeps.pending \cup execDeps.ready : d.slot = i
IsIn(i) == \E p \in Ports : \E x \in Places : \E a \in At(x, p) : a.slot = i
IsWritten(i) == \E j \in 1 .. Len(Contents(writebackLink)) :
                  Contents(writebackLink)[j].slot = i

LEMMA Awaiting ==
  ASSUME BackTypeOK
  PROVE  /\ AwaitingDeps \in SUBSET Slots
         /\ AwaitingWriteback \in SUBSET Slots
         /\ \A i : i \in AwaitingDeps <=> IsTracked(i)
         /\ \A i : i \in AwaitingWriteback <=> IsIn(i) \/ IsWritten(i)
<1>1. PICK w : w = Contents(writebackLink)
  OBVIOUS
<1>2. w \in Seq(Executions) /\ Len(w) \in Nat /\ \A j \in 1 .. Len(w) : w[j] \in Executions
  BY <1>1, WritebackTypes
<1>3. Range(w) = {w[j] : j \in 1 .. Len(w)}
  BY <1>2, RangeEquality
<1>4. \A i : i \in AwaitingDeps <=> IsTracked(i)
  BY DEF AwaitingDeps, SlotSet, IsTracked
<1>5. execDeps.pending \cup execDeps.ready \in SUBSET Executions
  BY DEF BackTypeOK
<1>6. AwaitingDeps \in SUBSET Slots
  BY <1>5 DEF AwaitingDeps, SlotSet, Executions
<1>7. ASSUME NEW a PROVE a \in Executing <=> \E p \in Ports : \E x \in Places : a \in At(x, p)
  <2>1. a \in Executing <=> \E p \in Ports : a \in Range(Contents(portLinks[p])) \cup units[p]
    BY DEF Executing
  <2>2. \A p \in Ports : a \in Range(Contents(portLinks[p])) \cup units[p]
                           <=> \E x \in Places : a \in At(x, p)
    BY PlaceTypes
  <2> QED BY <2>1, <2>2
<1>8. \A i : i \in AwaitingWriteback <=> \E a \in Executing \cup Range(w) : a.slot = i
  BY <1>1 DEF AwaitingWriteback, SlotSet
<1>9. \A i : (\E a \in Executing : a.slot = i) <=> IsIn(i)
  BY <1>7 DEF IsIn
<1>10. \A i : (\E a \in Range(w) : a.slot = i) <=> IsWritten(i)
  BY <1>1, <1>3 DEF IsWritten
<1>11. \A i : i \in AwaitingWriteback <=> IsIn(i) \/ IsWritten(i)
  BY <1>8, <1>9, <1>10
<1>12. AwaitingWriteback \in SUBSET Slots
  <2>1. \A i : IsWritten(i) => i \in Slots
    BY <1>1, <1>2 DEF IsWritten, Executions
  <2>2. \A i : IsIn(i) => i \in Slots
    BY PlaceTypes DEF IsIn, Executions
  <2> QED BY <1>11, <2>1, <2>2
<1> QED BY <1>4, <1>6, <1>11, <1>12

AwaitingIs ==
  /\ \A i : i \in AwaitingDeps <=> IsTracked(i)
  /\ \A i : i \in AwaitingWriteback <=> IsIn(i) \/ IsWritten(i)

LEMMA AwaitingNow == BackTypeOK => AwaitingIs
BY Awaiting DEF AwaitingIs

LEMMA AwaitingStep == BackTypeOK' => AwaitingIs'
BY AwaitingNow, PTL

\* A step that the reorder buffer does not see.
openVars == <<robVars, phase, scan, renamed, Retiring, AwaitingDeps, AwaitingWriteback>>

LEMMA UnseenKeepsIInv ==
  ASSUME Open!IInv, UNCHANGED openVars
  PROVE  Open!IInv' /\ OpenStep
<1>1. UNCHANGED Open!vars
  BY DEF openVars, Open!vars, Open!robVars, Open!envVars, robVars
<1> QED BY <1>1, Open!NextIInv, NumROBEntriesAssumption DEF Open!Next, OpenStep

\* A step that is one of the reorder buffer's own.
LEMMA OpenStepKeepsIInv ==
  ASSUME Open!IInv, Open!LoopStep
  PROVE  Open!IInv' /\ OpenStep
<1>1. [Open!Next]_(Open!vars) /\ OpenStep
  BY DEF Open!Next, OpenStep
<1> QED BY <1>1, Open!NextIInv, NumROBEntriesAssumption

LEMMA SamePlaces ==
  ASSUME EachOnce, UNCHANGED <<portLinks, units, writebackLink>>
  PROVE  EachOnce'
<1>1. \A x, p : At(x, p)' = At(x, p)
  BY DEF At
<1> QED BY <1>1 DEF EachOnce

LEMMA SameTracker ==
  ASSUME TrackerIsAhead, UNCHANGED <<portLinks, units, writebackLink, execDeps>>,
         \A p \in Ports : HasTicked(p)' = HasTicked(p),
         AfterDeps' => execDeps.ready = {}
  PROVE  TrackerIsAhead'
<1>1. \A x, p : At(x, p)' = At(x, p)
  BY DEF At
<1> QED BY <1>1 DEF TrackerIsAhead

LEMMA SameRetirement ==
  ASSUME RetiresNext,
         UNCHANGED <<retireLink, retiredLink, renamed, numEmpty>>
  PROVE  RetiresNext'
BY DEF RetiresNext, NumRetired, Open!NumReleased, Open!NumLive

LEMMA SameAwaiting ==
  /\ UNCHANGED execDeps => UNCHANGED AwaitingDeps
  /\ UNCHANGED <<portLinks, units, writebackLink>> => UNCHANGED AwaitingWriteback
  /\ UNCHANGED <<retireLink, retiredLink>> => UNCHANGED Retiring
BY DEF AwaitingDeps, AwaitingWriteback, Retiring, Executing

-----------------------------------------------------------------------------
(* Steps of the front end, and the ends of ticks.                          *)

backEnd == <<robVars, retireLink, retiredLink, writebackLink, execDeps, units,
             unit, portLinks, phase, scan, renamed>>

LEMMA FrontEndKeepsBack ==
  ASSUME BackInv, UNCHANGED backEnd,
         \A p \in Ports : HasTicked(p)' = HasTicked(p),
         AfterDeps' => AfterDeps, (pc # "rob" => phase = "delete")'
  PROVE  BackInv' /\ OpenStep
<1>1. UNCHANGED openVars
  BY SameAwaiting DEF backEnd, openVars
<1>2. Open!IInv' /\ OpenStep
  BY <1>1, UnseenKeepsIInv DEF BackInv
<1>3. EachOnce' /\ RetiresNext' /\ TrackedOnce'
  BY SamePlaces, SameRetirement DEF BackInv, backEnd, robVars, TrackedOnce
<1>4. TrackerIsAhead'
  <2>1. AfterDeps' => execDeps.ready = {}
    BY DEF BackInv, TrackerIsAhead
  <2> QED BY <2>1, SameTracker DEF BackInv, backEnd
<1>5. BackTypeOK'
  BY DEF BackInv, BackTypeOK, backEnd
<1> QED BY <1>2, <1>3, <1>4, <1>5 DEF BackInv

LEMMA FrontStepsKeepBack ==
  ASSUME BackInv,
         \/ FetchNextIteration \/ FetchInstruction \/ FetchEnd
         \/ ParseInstruction \/ ParseEnd \/ DecodeInstruction \/ DecodeEnd
         \/ FlushPending \/ RenameUop \/ RenameEnd
  PROVE  BackInv' /\ OpenStep
<1>1. UNCHANGED backEnd
  BY DEF FetchNextIteration, FetchInstruction, FetchEnd, ParseInstruction,
         ParseEnd, DecodeInstruction, DecodeEnd, FlushPending, RenameUop,
         RenameEnd, backVars, backEnd, robVars
<1>2. /\ pc \in {"fetcher", "parser", "decoder", "renamer"}
      /\ pc' \in {"fetcher", "parser", "decoder", "renamer", "rob"}
  BY DEF FetchNextIteration, FetchInstruction, FetchEnd, ParseInstruction,
         ParseEnd, DecodeInstruction, DecodeEnd, FlushPending, RenameUop,
         RenameEnd, Turn
<1>3. phase = "delete" /\ phase' = "delete"
  BY <1>1, <1>2 DEF backEnd, BackInv, BackTypeOK
<1>4. \A p \in Ports : HasTicked(p)' = HasTicked(p)
  BY <1>2 DEF HasTicked
<1>5. ~ AfterDeps'
  BY <1>2, <1>3 DEF AfterDeps
<1> QED BY <1>1, <1>3, <1>4, <1>5, FrontEndKeepsBack

LEMMA EndsKeepBack ==
  ASSUME BackInv, RetireEnd \/ Done \/ UNCHANGED vars
  PROVE  BackInv' /\ OpenStep
<1>1. UNCHANGED backEnd
  BY DEF RetireEnd, Done, vars, backVars, backEnd, robVars
<1>2. CASE RetireEnd
  <2>1. pc = "retirer" /\ pc' = "propagate"
    BY <1>2 DEF RetireEnd, Turn
  <2>2. \A p \in Ports : HasTicked(p)' = HasTicked(p)
    BY <2>1 DEF HasTicked
  <2>3. AfterDeps /\ (pc # "rob" => phase = "delete")'
    BY <2>1, <1>1 DEF AfterDeps, BackInv, BackTypeOK, backEnd
  <2> QED BY <1>1, <2>2, <2>3, FrontEndKeepsBack
<1>3. CASE Done \/ UNCHANGED vars
  <2>1. pc' = pc
    BY <1>3 DEF Done, vars
  <2>2. \A p \in Ports : HasTicked(p)' = HasTicked(p)
    BY <2>1, <1>1 DEF HasTicked, backEnd
  <2>3. (AfterDeps' => AfterDeps) /\ (pc # "rob" => phase = "delete")'
    BY <2>1, <1>1 DEF AfterDeps, BackInv, BackTypeOK, backEnd
  <2> QED BY <1>1, <2>2, <2>3, FrontEndKeepsBack
<1> QED BY <1>2, <1>3

-----------------------------------------------------------------------------
(* ReorderBuffer::Tick.                                                    *)

\* In the tick of the reorder buffer the units do not move.
LEMMA TickingROB ==
  ASSUME pc = "rob", pc' = "rob"
  PROVE  \A p \in Ports : HasTicked(p)' = HasTicked(p)
BY DEF HasTicked

LEMMA VisitSkipKeepsBack ==
  ASSUME BackInv, VisitSkip
  PROVE  BackInv' /\ OpenStep
<1>1. /\ UNCHANGED <<robVars, units, unit, retireLink, retiredLink, renamed,
                     writebackLink, execDeps, portLinks, phase>>
      /\ scan' = scan + 1 /\ scan < NumLive /\ phase = "execute"
      /\ pc = "rob" /\ pc' = "rob"
      /\ ~ (entries[Visited].state = "ReadyToExecute" /\ entries[Visited].ports = {})
  BY DEF VisitSkip, IsVisiting, InLoop, outsideROB
<1>2. Open!VisitSkip
  <2>1. UNCHANGED <<Retiring, AwaitingDeps, AwaitingWriteback>>
    BY <1>1, SameAwaiting
  <2>2. ~ (/\ entries[Open!SlotAt(scan)].state = "ReadyToExecute"
           /\ entries[Open!SlotAt(scan)].ports = {})
    BY <1>1 DEF Visited, SlotAt, OldestEntry, Open!SlotAt, Open!OldestEntry
  <2>3. scan < Open!NumLive
    BY <1>1 DEF NumLive, Open!NumLive
  <2> QED BY <2>1, <2>2, <2>3, <1>1 DEF Open!VisitSkip, Open!robVars, Open!envVars, robVars
<1>3. Open!IInv' /\ OpenStep
  BY <1>2, OpenStepKeepsIInv DEF BackInv, Open!LoopStep
<1>4. EachOnce' /\ RetiresNext' /\ TrackedOnce'
  BY <1>1, SamePlaces, SameRetirement DEF BackInv, robVars, TrackedOnce
<1>5. TrackerIsAhead'
  <2>1. AfterDeps
    BY <1>1 DEF AfterDeps
  <2>2. execDeps.ready = {}
    BY <2>1 DEF BackInv, TrackerIsAhead
  <2> QED BY <2>2, <1>1, TickingROB, SameTracker DEF BackInv
<1>6. BackTypeOK'
  BY <1>1 DEF BackInv, BackTypeOK
<1> QED BY <1>3, <1>4, <1>5, <1>6 DEF BackInv

LEMMA NextLoopKeepsBack ==
  ASSUME BackInv, NextLoop
  PROVE  BackInv' /\ OpenStep
<1>1. /\ UNCHANGED <<robVars, units, retireLink, retiredLink, renamed,
                     writebackLink, execDeps, portLinks>>
      /\ scan' = 0 /\ phase' = NextPhase[phase] /\ LoopIsOver /\ pc = "rob"
      /\ phase \in Open!Phases
  BY DEF NextLoop, BackInv, Open!IInv, Open!TypeOK
<1>2. /\ phase = "retire" => pc' = "unitsRead" /\ unit' = 0
      /\ phase # "retire" => pc' = "rob" /\ unit' = unit
  BY <1>1 DEF NextLoop, Turn
<1>3. 0 \in Ports
  BY WiringAssumption, FS_CardinalityType
<1>4. Open!NextLoop
  <2>1. UNCHANGED <<Retiring, AwaitingDeps, AwaitingWriteback>>
    BY <1>1, SameAwaiting
  <2>2. phase = "execute" => scan = Open!NumLive
    BY <1>1 DEF LoopIsOver, NumLive, Open!NumLive
  <2>3. phase' = Open!NextPhase[phase]
    BY <1>1 DEF NextPhase, Open!NextPhase
  <2> QED BY <2>1, <2>2, <2>3, <1>1 DEF Open!NextLoop, Open!robVars, Open!envVars, robVars
<1>5. Open!IInv' /\ OpenStep
  BY <1>4, OpenStepKeepsIInv DEF BackInv, Open!LoopStep
<1>6. EachOnce' /\ RetiresNext' /\ TrackedOnce'
  BY <1>1, SamePlaces, SameRetirement DEF BackInv, robVars, TrackedOnce
<1>7. TrackerIsAhead'
  <2>1. AfterDeps' => execDeps.ready = {}
    <3>1. CASE phase = "deps"
      BY <3>1, <1>1 DEF LoopIsOver
    <3>2. CASE phase \in {"writeback", "execute", "retire"}
      BY <3>2, <1>1 DEF AfterDeps, BackInv, TrackerIsAhead
    <3>3. CASE phase \in {"delete", "read"}
      BY <3>3, <1>1, <1>2 DEF AfterDeps, NextPhase
    <3> QED BY <3>1, <3>2, <3>3, <1>1 DEF Open!Phases
  <2>2. \A p \in Ports : p \in Nat
    BY WiringAssumption, FS_CardinalityType
  <2>3. CASE phase = "retire"
    <3>1. \A p \in Ports : HasTicked(p)' = HasTicked(p)
      BY <2>2, <2>3, <1>1, <1>2 DEF HasTicked
    <3> QED BY <2>1, <3>1, <1>1, SameTracker DEF BackInv
  <2>4. CASE phase # "retire"
    <3>1. \A p \in Ports : HasTicked(p)' = HasTicked(p)
      BY <2>4, <1>1, <1>2, TickingROB
    <3> QED BY <2>1, <3>1, <1>1, SameTracker DEF BackInv
  <2> QED BY <2>3, <2>4
<1>8. BackTypeOK'
  BY <1>1, <1>2, <1>3 DEF BackInv, BackTypeOK, NextPhase
<1> QED BY <1>5, <1>6, <1>7, <1>8 DEF BackInv


\* A sequence without its first element.
LEMMA WithoutFirst ==
  ASSUME NEW S, NEW s, NEW h, NEW t, h \in S, t \in Seq(S), s = <<h>> \o t
  PROVE  /\ s \in Seq(S) /\ Len(s) = Len(t) + 1 /\ Len(t) \in Nat
         /\ s # << >> /\ s[1] = h /\ Head(s) = h /\ Tail(s) = t
         /\ \A k \in 1 .. Len(t) : t[k] = s[k + 1]
<1>1. PICK u : u = <<h>>
  OBVIOUS
<1>2. u \in Seq(S) /\ Len(u) = 1 /\ u[1] = h
  BY <1>1
<1>3. /\ s \in Seq(S) /\ Len(s) = Len(u) + Len(t) /\ Len(t) \in Nat
      /\ \A i \in 1 .. Len(u) : s[i] = u[i]
      /\ \A i \in 1 .. Len(t) : s[Len(u) + i] = t[i]
  BY <1>1, <1>2, Concat
<1>4. 1 \in 1 .. Len(u)
  BY <1>2
<1>5. s[1] = h /\ Len(s) = Len(t) + 1 /\ s # << >>
  BY <1>2, <1>3, <1>4, EmptySeq
<1>6. \A k \in 1 .. Len(t) : t[k] = s[k + 1]
  BY <1>2, <1>3
<1>7. Head(s) = h /\ Tail(s) \in Seq(S) /\ Len(Tail(s)) = Len(t)
      /\ \A i \in 1 .. Len(Tail(s)) : Tail(s)[i] = s[i + 1]
  BY <1>3, <1>5, HeadTailProperties
<1>8. Tail(s) = t
  BY <1>6, <1>7, SeqEqual
<1> QED BY <1>3, <1>5, <1>6, <1>7, <1>8

LEMMA SlotsOfConcat ==
  ASSUME NEW s, NEW t, s \in Seq(Retirements), t \in Seq(Retirements)
  PROVE  /\ SlotsOf(s) \in Seq(Slots) /\ Len(SlotsOf(s)) = Len(s)
         /\ SlotsOf(s \o t) = SlotsOf(s) \o SlotsOf(t)
<1>1. /\ s \o t \in Seq(Retirements)
      /\ Len(s) \in Nat /\ Len(t) \in Nat
      /\ Len(s \o t) = Len(s) + Len(t)
      /\ \A i \in 1 .. Len(s) : (s \o t)[i] = s[i]
      /\ \A i \in 1 .. Len(t) : (s \o t)[Len(s) + i] = t[i]
  BY Concat
<1>2. ASSUME NEW r, r \in Seq(Retirements)
      PROVE  /\ SlotsOf(r) \in Seq(Slots) /\ Len(SlotsOf(r)) = Len(r)
             /\ \A k \in 1 .. Len(r) : SlotsOf(r)[k] = r[k].slot
  <2>1. DOMAIN r = 1 .. Len(r) /\ Len(r) \in Nat
    BY <1>2, LenProperties
  <2>2. \A k \in 1 .. Len(r) : r[k] \in Retirements
    BY <1>2, ElementOfSeq
  <2>3. \A k \in 1 .. Len(r) : r[k].slot \in Slots
    BY <2>2 DEF Retirements
  <2> QED BY <2>1, <2>3 DEF SlotsOf
<1>3. PICK a, c, d : a = SlotsOf(s) /\ c = SlotsOf(t) /\ d = SlotsOf(s \o t)
  OBVIOUS
<1>4. /\ a \in Seq(Slots) /\ Len(a) = Len(s) /\ \A k \in 1 .. Len(s) : a[k] = s[k].slot
      /\ c \in Seq(Slots) /\ Len(c) = Len(t) /\ \A k \in 1 .. Len(t) : c[k] = t[k].slot
  BY <1>2, <1>3
<1>5. /\ d \in Seq(Slots) /\ Len(d) = Len(s) + Len(t)
      /\ \A k \in 1 .. Len(s) + Len(t) : d[k] = (s \o t)[k].slot
  BY <1>1, <1>2, <1>3
<1>6. \A i \in 1 .. Len(s) : d[i] = a[i]
  <2> SUFFICES ASSUME NEW i \in 1 .. Len(s) PROVE d[i] = a[i]
    OBVIOUS
  <2>1. (s \o t)[i] = s[i] /\ i \in 1 .. Len(s) + Len(t)
    BY <1>1
  <2> QED BY <2>1, <1>4, <1>5
<1>7. \A i \in 1 .. Len(t) : d[Len(s) + i] = c[i]
  <2> SUFFICES ASSUME NEW i \in 1 .. Len(t) PROVE d[Len(s) + i] = c[i]
    OBVIOUS
  <2>1. (s \o t)[Len(s) + i] = t[i] /\ Len(s) + i \in 1 .. Len(s) + Len(t)
    BY <1>1
  <2> QED BY <2>1, <1>4, <1>5
<1>8. d = a \o c
  <2>1. a \in Seq(Slots) /\ c \in Seq(Slots) /\ d \in Seq(Slots)
    BY <1>4, <1>5
  <2>2. /\ Len(d) = Len(a) + Len(c)
        /\ \A i \in 1 .. Len(a) : d[i] = a[i]
        /\ \A i \in 1 .. Len(c) : d[Len(a) + i] = c[i]
    BY <1>4, <1>5, <1>6, <1>7
  <2> QED BY <2>1, <2>2, Joined
<1> QED BY <1>3, <1>4, <1>8

LEMMA SlotsOfOne ==
  ASSUME NEW e \in Retirements
  PROVE  SlotsOf(<<e>>) = <<e.slot>> /\ <<e>> \in Seq(Retirements)
BY DEF SlotsOf

\* A step of the reorder buffer in which no unit and no tracked latency
\* changes, and no ready output and no written back uop is new.
LEMMA DeleteRetiredKeepsBack ==
  ASSUME BackInv, DeleteRetired
  PROVE  BackInv' /\ OpenStep /\ NumRetired' = NumRetired
<1>1. /\ UNCHANGED <<units, unit, retireLink, renamed, writebackLink, execDeps,
                     portLinks, phase, scan, pc>>
      /\ pc = "rob" /\ phase = "delete" /\ HasElement(retiredLink)
      /\ CoreDeleteRetired(Head(retiredLink.fifo).slot)
      /\ retiredLink' = Popped(retiredLink)
  BY DEF DeleteRetired, InLoop, outsideROB
<1>2. PICK h, c, d, r : /\ h = Head(retiredLink.fifo) /\ c = Contents(retiredLink)
                        /\ d = Contents(retiredLink') /\ r = Contents(retireLink)
  OBVIOUS
<1>3. /\ retiredLink' \in BuffersOf(Retirements)
      /\ h \in Retirements /\ d \in Seq(Retirements) /\ c = <<h>> \o d
      /\ r \in Seq(Retirements)
  BY <1>1, <1>2, PoppedContents, BufferParts DEF BackInv, BackTypeOK
<1>4. Retiring # << >> /\ Head(Retiring) = h.slot /\ Retiring' = Tail(Retiring)
  <2>1. PICK sh, sd, sr : sh = <<h.slot>> /\ sd = SlotsOf(d) /\ sr = SlotsOf(r)
    OBVIOUS
  <2>2. SlotsOf(c) = sh \o sd /\ sh \in Seq(Slots) /\ sd \in Seq(Slots) /\ sr \in Seq(Slots)
    <3>1. SlotsOf(<<h>>) = <<h.slot>> /\ <<h>> \in Seq(Retirements) /\ h.slot \in Slots
      BY <1>3, SlotsOfOne DEF Retirements
    <3>2. SlotsOf(c) = SlotsOf(<<h>>) \o SlotsOf(d) /\ SlotsOf(d) \in Seq(Slots)
      BY <1>3, <3>1, SlotsOfConcat
    <3>3. SlotsOf(r) \in Seq(Slots)
      BY <1>3, SlotsOfConcat
    <3>4. \A i \in Slots : <<i>> \in Seq(Slots)
      OBVIOUS
    <3>5. sh = SlotsOf(<<h>>) /\ sh \in Seq(Slots)
      BY <3>1, <3>4, <2>1, Zenon
    <3> QED BY <3>2, <3>3, <3>5, <2>1, Zenon
  <2>3. Retiring = (sh \o sd) \o sr /\ Retiring' = sd \o sr
    BY <1>1, <1>2, <2>1, <2>2 DEF Retiring
  <2>4. (sh \o sd) \o sr = sh \o (sd \o sr) /\ sd \o sr \in Seq(Slots)
    BY <2>2, ConcatAssociative, ConcatProperties, SMTT(30)
  <2>5. PICK i, t : i = h.slot /\ t = sd \o sr
    OBVIOUS
  <2>6. i \in Slots /\ t \in Seq(Slots) /\ Retiring = <<i>> \o t
    BY <1>3, <2>1, <2>3, <2>4, <2>5 DEF Retirements
  <2> QED BY <2>3, <2>5, <2>6, WithoutFirst
<1>5. Open!DeleteRetired
  <2>1. UNCHANGED <<AwaitingDeps, AwaitingWriteback>>
    BY <1>1, SameAwaiting
  <2>2. Open!CoreDeleteRetired(Head(Retiring))
    BY <1>1, <1>2, <1>4 DEF CoreDeleteRetired, Open!CoreDeleteRetired, OldestEntry,
       Open!OldestEntry, Cleared, Open!Cleared, NoEntry, Open!NoEntry
  <2> QED BY <1>1, <1>4, <2>1, <2>2 DEF Open!DeleteRetired
<1>6. Open!IInv' /\ OpenStep
  BY <1>5, OpenStepKeepsIInv DEF BackInv, Open!LoopStep
<1>7. EachOnce' /\ TrackedOnce'
  BY <1>1, SamePlaces DEF BackInv, TrackedOnce
<1>8. TrackerIsAhead'
  <2>1. ~ AfterDeps'
    BY <1>1 DEF AfterDeps
  <2> QED BY <2>1, <1>1, TickingROB, SameTracker DEF BackInv
<1>9. RetiresNext' /\ NumRetired' = NumRetired
  <2>1. numEmpty' = numEmpty + 1 /\ numEmpty \in Nat /\ Len(renamed) \in Nat
    BY <1>1, LenProperties DEF CoreDeleteRetired, BackInv, Open!IInv, Open!TypeOK,
       Open!CoreTypeOK
  <2>2. Open!NumReleased' = Open!NumReleased + 1 /\ Open!NumReleased \in Int
    BY <1>1, <2>1, NumROBEntriesAssumption DEF Open!NumReleased, Open!NumLive
  <2>3. Len(c) = Len(d) + 1 /\ Len(d) \in Nat
    BY <1>3, WithoutFirst
  <2>4. Open!NumReleased' + Len(d) = Open!NumReleased + Len(c)
    BY <2>2, <2>3
  <2> QED BY <2>4, <1>1, <1>2 DEF RetiresNext, NumRetired, BackInv
<1>10. BackTypeOK'
  BY <1>1, <1>3 DEF BackInv, BackTypeOK
<1> QED BY <1>6, <1>7, <1>8, <1>9, <1>10 DEF BackInv

LEMMA OutputsAvailableKeepsBack ==
  ASSUME BackInv, OutputsAvailable
  PROVE  BackInv' /\ OpenStep
<1>1. PICK e \in execDeps.ready :
        /\ CoreOutputsAvailable(e.slot)
        /\ execDeps' = [execDeps EXCEPT !.ready = @ \ {e}]
  BY DEF OutputsAvailable
<1>2. /\ UNCHANGED <<units, unit, retireLink, retiredLink, renamed, writebackLink,
                     portLinks, phase, scan, pc>>
      /\ pc = "rob" /\ phase = "deps"
  BY DEF OutputsAvailable, InLoop, outsideROB
<1>3. execDeps \in [pending : SUBSET Executions, ready : SUBSET Executions]
  BY DEF BackInv, BackTypeOK
<1>4. /\ execDeps'.pending = execDeps.pending
      /\ execDeps'.ready = execDeps.ready \ {e}
      /\ execDeps' \in [pending : SUBSET Executions, ready : SUBSET Executions]
  BY <1>1, <1>3
<1>5. e.slot \in Slots
  BY <1>1, <1>3 DEF Executions
<1>6. TrackedOnce'
  BY <1>4 DEF BackInv, TrackedOnce
<1>7. AwaitingDeps' = AwaitingDeps \ {e.slot} /\ e.slot \in AwaitingDeps
  <2>1. \A d \in execDeps.pending \cup execDeps.ready : d.slot = e.slot => d = e
    BY <1>1 DEF BackInv, TrackedOnce
  <2>2. e \notin execDeps.pending
    BY <1>1 DEF BackInv, TrackedOnce
  <2>3. (execDeps.pending \cup execDeps.ready)'
          = (execDeps.pending \cup execDeps.ready) \ {e}
    BY <1>4, <2>2
  <2> QED BY <2>1, <2>3, <1>1 DEF AwaitingDeps, SlotSet
<1>8. Open!OutputsAvailable(e.slot)
  <2>1. UNCHANGED <<AwaitingWriteback, Retiring>>
    BY <1>2, SameAwaiting
  <2>2. Open!CoreOutputsAvailable(e.slot)
    BY <1>1 DEF CoreOutputsAvailable, Open!CoreOutputsAvailable, SatisfyDependents,
       Open!SatisfyDependents, Slots, Open!Slots
  <2> QED BY <1>2, <1>7, <2>1, <2>2 DEF Open!OutputsAvailable
<1>9. Open!IInv' /\ OpenStep
  <2>1. Open!LoopStep
    BY <1>5, <1>8 DEF Open!LoopStep, Slots, Open!Slots
  <2> QED BY <2>1, OpenStepKeepsIInv DEF BackInv
<1>10. EachOnce' /\ RetiresNext'
  BY <1>1, <1>2, SamePlaces, SameRetirement DEF BackInv, CoreOutputsAvailable
<1>11. TrackerIsAhead'
  <2>1. ~ AfterDeps' /\ \A p \in Ports : HasTicked(p)' = HasTicked(p)
    BY <1>2, TickingROB DEF AfterDeps
  <2>2. \A x, p : At(x, p)' = At(x, p)
    BY <1>2 DEF At
  <2> QED BY <2>1, <2>2, <1>2, <1>4 DEF BackInv, TrackerIsAhead
<1>12. BackTypeOK'
  BY <1>2, <1>4 DEF BackInv, BackTypeOK
<1> QED BY <1>6, <1>9, <1>10, <1>11, <1>12 DEF BackInv

LEMMA WrittenBackKeepsBack ==
  ASSUME BackInv, WrittenBack
  PROVE  BackInv' /\ OpenStep
<1>1. /\ UNCHANGED <<units, unit, retireLink, retiredLink, renamed, execDeps,
                     portLinks, phase, scan, pc>>
      /\ pc = "rob" /\ phase = "writeback" /\ HasElement(writebackLink)
      /\ CoreWrittenBack(Head(writebackLink.fifo).slot)
      /\ writebackLink' = Popped(writebackLink)
  BY DEF WrittenBack, InLoop, outsideROB
<1>2. PICK h, c, d : /\ h = Head(writebackLink.fifo) /\ c = Contents(writebackLink)
                     /\ d = Contents(writebackLink')
  OBVIOUS
<1>3. /\ writebackLink' \in BuffersOf(Executions)
      /\ h \in Executions /\ d \in Seq(Executions) /\ c = <<h>> \o d
  BY <1>1, <1>2, PoppedContents DEF BackInv, BackTypeOK
<1>4. /\ Len(c) = Len(d) + 1 /\ Len(d) \in Nat /\ c[1] = h
      /\ \A k \in 1 .. Len(d) : d[k] = c[k + 1]
  BY <1>3, WithoutFirst
<1>5. h.slot \in Slots
  BY <1>3 DEF Executions
<1>6. \A x, p : At(x, p)' = At(x, p)
  BY <1>1 DEF At
<1>7. \A j \in 1 .. Len(d) : j + 1 \in 1 .. Len(c) /\ d[j] = c[j + 1] /\ j + 1 # 1
  BY <1>4
<1>8. 1 \in 1 .. Len(c)
  BY <1>4
<1>9. EachOnce'
  <2>1. \A j, k \in 1 .. Len(d) : d[j].slot = d[k].slot => j = k
    <3> SUFFICES ASSUME NEW j \in 1 .. Len(d), NEW k \in 1 .. Len(d), d[j].slot = d[k].slot
                 PROVE  j = k
      OBVIOUS
    <3>1. c[j + 1].slot = c[k + 1].slot
      BY <1>7
    <3>2. j + 1 = k + 1
      BY <3>1, <1>2, <1>7 DEF BackInv, EachOnce
    <3> QED BY <3>2
  <2>2. \A j \in 1 .. Len(d) : \A p \in Ports : \A x \in Places : \A a \in At(x, p) :
          d[j].slot # a.slot
    BY <1>2, <1>7 DEF BackInv, EachOnce
  <2> QED BY <2>1, <2>2, <1>2, <1>6 DEF BackInv, EachOnce
<1>10. TrackerIsAhead'
  <2>1. AfterDeps
    BY <1>1 DEF AfterDeps
  <2>2. AfterDeps' /\ \A p \in Ports : HasTicked(p)' = HasTicked(p)
    BY <1>1, TickingROB DEF AfterDeps
  <2>3. \A j \in 1 .. Len(d) : \A e \in execDeps.pending \cup execDeps.ready :
          d[j].slot # e.slot
    BY <1>2, <1>7 DEF BackInv, TrackerIsAhead
  <2> QED BY <2>1, <2>2, <2>3, <1>1, <1>2, <1>6 DEF BackInv, TrackerIsAhead
<1>11. BackTypeOK'
  BY <1>1, <1>3 DEF BackInv, BackTypeOK
<1>12. h.slot \in AwaitingWriteback \ AwaitingDeps
  <2>1. IsWritten(h.slot)
    BY <1>2, <1>4, <1>8 DEF IsWritten
  <2>2. ~ IsTracked(h.slot)
    BY <1>2, <1>4, <1>8 DEF BackInv, TrackerIsAhead, IsTracked
  <2> QED BY <2>1, <2>2, Awaiting DEF BackInv
<1>13. AwaitingWriteback' = AwaitingWriteback \ {h.slot}
  <2>1. \A i : IsIn(i)' <=> IsIn(i)
    BY <1>6 DEF IsIn
  <2>2. ~ IsIn(h.slot)
    <3>1. \A p \in Ports : \A x \in Places : \A a \in At(x, p) : c[1].slot # a.slot
      BY <1>2, <1>8 DEF BackInv, EachOnce
    <3> QED BY <3>1, <1>4 DEF IsIn
  <2>3. ASSUME NEW i PROVE IsWritten(i)' <=> IsWritten(i) /\ i # h.slot
    <3>1. IsWritten(i)' <=> \E j \in 1 .. Len(d) : d[j].slot = i
      BY <1>2 DEF IsWritten
    <3>2. IsWritten(i) <=> \E j \in 1 .. Len(c) : c[j].slot = i
      BY <1>2 DEF IsWritten
    <3>3. ASSUME NEW j \in 1 .. Len(d), d[j].slot = i
          PROVE  IsWritten(i) /\ i # h.slot
      <4>1. c[j + 1].slot = i /\ j + 1 \in 1 .. Len(c) /\ j + 1 # 1
        BY <3>3, <1>7
      <4>2. c[j + 1].slot # c[1].slot
        BY <4>1, <1>2, <1>8 DEF BackInv, EachOnce
      <4> QED BY <4>1, <4>2, <3>2, <1>4
    <3>4. ASSUME NEW j \in 1 .. Len(c), c[j].slot = i, i # h.slot
          PROVE  \E k \in 1 .. Len(d) : d[k].slot = i
      <4>1. j # 1
        BY <3>4, <1>4
      <4>2. j - 1 \in 1 .. Len(d) /\ (j - 1) + 1 = j
        BY <4>1, <1>4
      <4>3. d[j - 1] = c[j]
        BY <4>2, <1>4
      <4> QED BY <4>2, <4>3, <3>4
    <3> QED BY <3>1, <3>2, <3>3, <3>4
  <2>4. AwaitingWriteback \in SUBSET Slots /\ \A i : i \in AwaitingWriteback <=> IsIn(i) \/ IsWritten(i)
    BY Awaiting DEF BackInv
  <2>5. \A i : i \in AwaitingWriteback' <=> IsIn(i)' \/ IsWritten(i)'
    BY <1>11, AwaitingStep DEF AwaitingIs
  <2>6. \A i : i \in AwaitingWriteback' <=> i \in AwaitingWriteback /\ i # h.slot
    BY <2>1, <2>2, <2>3, <2>4, <2>5
  <2> QED BY <2>6
<1>14. Open!IInv' /\ OpenStep
  <2>1. UNCHANGED <<AwaitingDeps, Retiring>>
    BY <1>1, SameAwaiting
  <2>2. Open!CoreWrittenBack(h.slot)
    BY <1>1, <1>2 DEF CoreWrittenBack, Open!CoreWrittenBack
  <2>3. Open!WrittenBack(h.slot)
    BY <1>1, <1>12, <1>13, <2>1, <2>2 DEF Open!WrittenBack
  <2>4. Open!LoopStep
    BY <2>3, <1>5 DEF Open!LoopStep, Slots, Open!Slots
  <2> QED BY <2>4, OpenStepKeepsIInv DEF BackInv
<1>15. TrackedOnce' /\ RetiresNext'
  BY <1>1, SameRetirement DEF BackInv, CoreWrittenBack, TrackedOnce
<1> QED BY <1>9, <1>10, <1>11, <1>14, <1>15 DEF BackInv

LEMMA VisitPortlessKeepsBack ==
  ASSUME BackInv, VisitPortless
  PROVE  BackInv' /\ OpenStep
<1>1. /\ UNCHANGED <<units, unit, retireLink, retiredLink, renamed, writebackLink,
                     execDeps, portLinks, phase, pc>>
      /\ pc = "rob" /\ phase = "execute" /\ scan' = scan + 1 /\ scan < NumLive
      /\ CoreExecuteWithoutPort(Visited)
  BY DEF VisitPortless, IsVisiting, InLoop, outsideROB
<1>2. Open!VisitPortless
  <2>1. UNCHANGED <<Retiring, AwaitingDeps, AwaitingWriteback>>
    BY <1>1, SameAwaiting
  <2>2. Open!SlotAt(scan) = Visited /\ Open!NumLive = NumLive
    BY DEF Visited, SlotAt, OldestEntry, Open!SlotAt, Open!OldestEntry, NumLive, Open!NumLive
  <2>3. Open!CoreExecuteWithoutPort(Visited)
    BY <1>1 DEF CoreExecuteWithoutPort, Open!CoreExecuteWithoutPort, SatisfyDependents,
       Open!SatisfyDependents, Slots, Open!Slots
  <2> QED BY <1>1, <2>1, <2>2, <2>3 DEF Open!VisitPortless, Open!envVars
<1>3. Open!IInv' /\ OpenStep
  BY <1>2, OpenStepKeepsIInv DEF BackInv, Open!LoopStep
<1>4. EachOnce' /\ RetiresNext' /\ TrackedOnce'
  BY <1>1, SamePlaces, SameRetirement DEF BackInv, TrackedOnce, CoreExecuteWithoutPort
<1>5. TrackerIsAhead'
  <2>1. AfterDeps
    BY <1>1 DEF AfterDeps
  <2>2. execDeps.ready = {}
    BY <2>1 DEF BackInv, TrackerIsAhead
  <2> QED BY <2>2, <1>1, TickingROB, SameTracker DEF BackInv
<1>6. BackTypeOK'
  BY <1>1 DEF BackInv, BackTypeOK
<1> QED BY <1>3, <1>4, <1>5, <1>6 DEF BackInv

\* The uops that were read, and the next one, are the beginning of the trace.
LEMMA ReadUops ==
  ASSUME FrontInv
  PROVE  /\ renamed \in Seq(RenamedUops) /\ Len(renamed) \in Nat
         /\ \A k \in 1 .. Len(renamed) :
              /\ renamed[k] \in RenamedUops
              /\ k \in 1 .. Len(NamedUops) /\ NamedUops[k] = renamed[k]
              /\ k \in 1 .. Len(DecodedIds) /\ DecodedIds[k] = renamed[k].id
         /\ HasElement(renamedLink) =>
              LET u == Head(renamedLink.fifo)
                  k == Len(renamed) + 1
              IN  /\ u \in RenamedUops
                  /\ k \in 1 .. Len(NamedUops) /\ NamedUops[k] = u
                  /\ k \in 1 .. Len(DecodedIds) /\ DecodedIds[k] = u.id
<1>1. PICK c, p, w, q : /\ c = Contents(renamedLink) /\ p = PendingUops
                        /\ w = NamedUops /\ q = Contents(decodeQueue)
  OBVIOUS
<1>2. /\ renamed \in Seq(RenamedUops) /\ c \in Seq(RenamedUops)
      /\ p \in Seq(RenamedUops) /\ renamed \o c \in Seq(RenamedUops)
      /\ w \in Seq(RenamedUops) /\ q \in Seq(UopIds)
      /\ Ids(w) \in Seq(UopIds)
  BY <1>1, FrontTypes DEF FrontInv, FrontTypeOK
<1>3. w = (renamed \o c) \o p
  BY <1>1 DEF NamedUops
<1>4. /\ Len(renamed) \in Nat /\ Len(c) \in Nat /\ Len(renamed \o c) = Len(renamed) + Len(c)
      /\ \A k \in 1 .. Len(renamed) : (renamed \o c)[k] = renamed[k]
      /\ \A k \in 1 .. Len(c) : (renamed \o c)[Len(renamed) + k] = c[k]
  BY <1>2, Concat
<1>5. /\ Len(p) \in Nat /\ Len(w) = Len(renamed \o c) + Len(p)
      /\ \A k \in 1 .. Len(renamed \o c) : w[k] = (renamed \o c)[k]
  BY <1>2, <1>3, Concat
<1>6. /\ Len(w) \in Nat /\ Len(q) \in Nat /\ Len(DecodedIds) = Len(Ids(w)) + Len(q)
      /\ \A k \in 1 .. Len(Ids(w)) : DecodedIds[k] = Ids(w)[k]
  <2>1. DecodedIds = Ids(w) \o q
    BY <1>1 DEF DecodedIds
  <2>2. /\ Len(q) \in Nat /\ Len(Ids(w) \o q) = Len(Ids(w)) + Len(q)
        /\ \A k \in 1 .. Len(Ids(w)) : (Ids(w) \o q)[k] = Ids(w)[k]
    BY <1>2, Concat
  <2>3. Len(w) \in Nat
    BY <1>2, LenProperties
  <2> QED BY <2>1, <2>2, <2>3
<1>7. Len(Ids(w)) = Len(w) /\ \A k \in 1 .. Len(w) : Ids(w)[k] = w[k].id
  BY <1>2, TraceIds
<1>8. \A k \in 1 .. Len(w) : k \in 1 .. Len(DecodedIds) /\ DecodedIds[k] = w[k].id
  BY <1>6, <1>7
<1>9. ASSUME NEW k \in 1 .. Len(renamed)
      PROVE  /\ renamed[k] \in RenamedUops
             /\ k \in 1 .. Len(w) /\ w[k] = renamed[k]
  <2>1. k \in 1 .. Len(renamed \o c) /\ k \in 1 .. Len(w)
    BY <1>4, <1>5
  <2>2. renamed[k] \in RenamedUops
    BY <1>2, ElementOfSeq
  <2> QED BY <2>1, <2>2, <1>4, <1>5
<1>10. ASSUME HasElement(renamedLink), NEW u, u = Head(renamedLink.fifo)
       PROVE  /\ u \in RenamedUops
              /\ Len(renamed) + 1 \in 1 .. Len(w) /\ w[Len(renamed) + 1] = u
  <2>1. PICK d : d = Contents(Popped(renamedLink))
    OBVIOUS
  <2>2. u \in RenamedUops /\ d \in Seq(RenamedUops) /\ c = <<u>> \o d
    BY <1>1, <1>10, <2>1, PoppedContents DEF FrontInv, FrontTypeOK
  <2>3. Len(c) = Len(d) + 1 /\ Len(d) \in Nat /\ c[1] = u
    BY <2>2, WithoutFirst
  <2>4. 1 \in 1 .. Len(c) /\ Len(renamed) + 1 \in 1 .. Len(renamed \o c)
    BY <2>3, <1>4
  <2> QED BY <2>2, <2>3, <2>4, <1>4, <1>5
<1> QED BY <1>1, <1>2, <1>4, <1>8, <1>9, <1>10

LEMMA ReadTrace ==
  ASSUME FrontInv
  PROVE  /\ block \in Blocks
         /\ renamed \in Seq(RenamedUops) /\ Len(renamed) \in Nat
         /\ renamed # << >> => renamed[1].id = [instr |-> 0, index |-> 0]
         /\ \A k \in 1 .. Len(renamed) - 1 : Follows(block, renamed[k].id, renamed[k + 1].id)
         /\ \A k \in 1 .. Len(renamed) :
              /\ renamed[k].id \in UopIds /\ IsUopOf(block, renamed[k].id)
              /\ UopAt(renamed[k].id).latency \in Nat
<1>1. IsTrace(block, DecodedIds)
  BY DEF FrontInv, InOrder
<1>2. /\ renamed \in Seq(RenamedUops) /\ Len(renamed) \in Nat
      /\ \A k \in 1 .. Len(renamed) :
           /\ renamed[k] \in RenamedUops
           /\ k \in 1 .. Len(DecodedIds) /\ DecodedIds[k] = renamed[k].id
  BY ReadUops
<1>3. block \in Blocks
  BY DEF FrontInv, FrontTypeOK
<1>4. Len(DecodedIds) \in Nat /\ DecodedIds \in Seq(UopIds)
  BY FrontTypes, LenProperties DEF FrontInv
<1>5. renamed # << >> => renamed[1].id = [instr |-> 0, index |-> 0]
  <2> SUFFICES ASSUME renamed # << >> PROVE renamed[1].id = [instr |-> 0, index |-> 0]
    OBVIOUS
  <2>1. 1 \in 1 .. Len(renamed)
    BY <1>2, EmptySeq
  <2>2. 1 \in 1 .. Len(DecodedIds) /\ DecodedIds[1] = renamed[1].id
    BY <2>1, <1>2
  <2>3. DecodedIds # << >>
    BY <2>2, <1>4, EmptySeq
  <2> QED BY <2>2, <2>3, <1>1 DEF IsTrace
<1>6. ASSUME NEW k \in 1 .. Len(renamed) - 1
      PROVE  Follows(block, renamed[k].id, renamed[k + 1].id)
  <2>1. k \in 1 .. Len(renamed) /\ k + 1 \in 1 .. Len(renamed)
    BY <1>2
  <2>2. k \in 1 .. Len(DecodedIds) - 1
    BY <2>1, <1>2, <1>4
  <2>3. Follows(block, DecodedIds[k], DecodedIds[k + 1])
    BY <2>2, <1>1 DEF IsTrace
  <2> QED BY <2>1, <2>3, <1>2
<1>7. ASSUME NEW k \in 1 .. Len(renamed)
      PROVE  /\ renamed[k].id \in UopIds /\ IsUopOf(block, renamed[k].id)
             /\ UopAt(renamed[k].id).latency \in Nat
  <2>1. PICK id : id = renamed[k].id
    OBVIOUS
  <2>2. id \in UopIds /\ IsUopOf(block, id)
    BY <2>1, <1>1, <1>2 DEF IsTrace, RenamedUops
  <2>3. id.instr \in Nat /\ id.index \in Nat
    BY <2>2 DEF UopIds
  <2>4. PICK us : us = InstrOf(block, id.instr).uops
    OBVIOUS
  <2>5. us \in Seq([ports : SUBSET Ports, latency : Nat]) /\ Len(us) \in Nat
    BY <2>3, <2>4, <1>3, InstrsOfBlock
  <2>6. id.index + 1 \in 1 .. Len(us)
    BY <2>2, <2>3, <2>4, <2>5 DEF IsUopOf
  <2>7. us[id.index + 1] \in [ports : SUBSET Ports, latency : Nat]
    BY <2>5, <2>6, ElementOfSeq
  <2>8. UopAt(id) = us[id.index + 1]
    BY <2>4, SameInstr DEF UopAt
  <2>9. UopAt(id).latency \in Nat
    BY <2>7, <2>8
  <2> QED BY <2>1, <2>2, <2>9
<1> QED BY <1>2, <1>3, <1>5, <1>6, <1>7

\* The entry that is visited is in the buffer, and its uop was read.
LEMMA LiveEntries ==
  ASSUME FrontInv, Open!IInv, NEW n \in Nat, n < NumLive
  PROVE  /\ SlotAt(n) \in Slots
         /\ Open!NumReleased + 1 + n \in 1 .. Len(renamed)
         /\ entries[SlotAt(n)].uop = renamed[Open!NumReleased + 1 + n].id
         /\ LatencyOf(SlotAt(n)) \in Nat
<1>1. /\ numEmpty \in 0 .. NumROBEntries /\ firstEmpty \in Slots
      /\ NumLive \in 0 .. NumROBEntries /\ Open!NumLive = NumLive
      /\ Open!SlotAt(n) = SlotAt(n)
  BY NumROBEntriesAssumption DEF Open!IInv, Open!TypeOK, Open!CoreTypeOK, NumLive,
     Open!NumLive, SlotAt, Open!SlotAt, OldestEntry, Open!OldestEntry, Slots, Open!Slots
<1>2. SlotAt(n) \in Slots
  BY <1>1, NumROBEntriesAssumption DEF SlotAt, OldestEntry, Slots
<1>3. Len(renamed) \in Nat
  BY ReadTrace
<1>4. /\ NumLive <= Len(renamed)
      /\ entries[SlotAt(n)].uop = renamed[Open!NumReleased + 1 + n].id
  <2>1. n \in 0 .. Open!NumLive - 1
    BY <1>1
  <2> QED BY <2>1, <1>1 DEF Open!IInv, Open!LiveWindow
<1>5. Open!NumReleased + 1 + n \in 1 .. Len(renamed)
  BY <1>1, <1>3, <1>4 DEF Open!NumReleased
<1>6. LatencyOf(SlotAt(n)) \in Nat
  BY <1>4, <1>5, ReadTrace DEF LatencyOf
<1> QED BY <1>2, <1>4, <1>5, <1>6

\* A buffer with one more element.
HasMore(b, e, b2) ==
  /\ b2.fifo = b.fifo
  /\ \A x : x \in Range(b2.pending) <=> x \in Range(b.pending) \/ x = e
  /\ Len(Contents(b)) \in Nat
  /\ Contents(b2) = Contents(b) \o <<e>>
  /\ Len(Contents(b2)) = Len(Contents(b)) + 1
  /\ \A k \in 1 .. Len(Contents(b)) : Contents(b2)[k] = Contents(b)[k]
  /\ Contents(b2)[Len(Contents(b)) + 1] = e

LEMMA PushedOne ==
  ASSUME NEW S, NEW b, NEW e, NEW b2, b \in BuffersOf(S), e \in S,
         b2 = Pushed(b, <<e>>)
  PROVE  /\ b2 \in BuffersOf(S) /\ HasMore(b, e, b2)
         /\ Contents(b) \in Seq(S) /\ Contents(b2) \in Seq(S)
<1>1. PICK t, c, d : t = <<e>> /\ c = Contents(b) /\ d = Contents(b2)
  OBVIOUS
<1>2. t \in Seq(S) /\ Len(t) = 1 /\ t[1] = e
  BY <1>1
<1>3. /\ b2 \in BuffersOf(S) /\ d = c \o t
      /\ b2.fifo = b.fifo /\ b2.pending = b.pending \o t
  BY <1>1, <1>2, PushedContents
<1>4. b.pending \in Seq(S) /\ c \in Seq(S)
  BY <1>1, BufferParts
<1>5. Range(t) = {e}
  <2>1. Range(t) = {t[k] : k \in 1 .. Len(t)}
    BY <1>2, RangeEquality
  <2>2. \A k : k \in 1 .. Len(t) <=> k = 1
    BY <1>2
  <2> QED BY <2>1, <2>2, <1>2
<1>6. Range(b.pending \o t) = Range(b.pending) \cup Range(t)
  BY <1>2, <1>4, RangeConcatenation
<1>7. /\ Len(c) \in Nat /\ Len(d) = Len(c) + 1 /\ d \in Seq(S)
      /\ \A k \in 1 .. Len(c) : d[k] = c[k]
      /\ d[Len(c) + 1] = e
  <2>1. /\ c \o t \in Seq(S) /\ Len(c) \in Nat /\ Len(c \o t) = Len(c) + Len(t)
        /\ \A k \in 1 .. Len(c) : (c \o t)[k] = c[k]
        /\ \A k \in 1 .. Len(t) : (c \o t)[Len(c) + k] = t[k]
    <3>1. c \in Seq(S) /\ t \in Seq(S)
      BY <1>2, <1>4
    <3> QED BY <3>1, Concat
  <2>2. 1 \in 1 .. Len(t)
    BY <1>2
  <2> QED BY <2>1, <2>2, <1>2, <1>3
<1> QED BY <1>1, <1>3, <1>4, <1>5, <1>6, <1>7 DEF HasMore

LEMMA VisitIssueKeepsBack ==
  ASSUME FrontInv, BackInv, VisitIssue
  PROVE  BackInv' /\ OpenStep
<1>1. PICK i, e : i = Visited /\ e = [slot |-> i, latency |-> LatencyOf(i)]
  OBVIOUS
<1>2. PICK q \in AcceptingPorts :
        /\ CoreIssue(i, q)
        /\ portLinks' = [portLinks EXCEPT ![q] = Pushed(@, <<e>>)]
        /\ execDeps' = [execDeps EXCEPT !.pending = @ \cup {e}]
  BY <1>1 DEF VisitIssue
<1>3. /\ UNCHANGED <<units, unit, retireLink, retiredLink, renamed, writebackLink,
                     phase, pc>>
      /\ pc = "rob" /\ phase = "execute" /\ scan' = scan + 1 /\ scan < NumLive
  BY DEF VisitIssue, IsVisiting, InLoop, outsideROB
<1>4. i \in Slots /\ e \in Executions
  <2>1. scan \in Nat
    BY NumROBEntriesAssumption DEF BackInv, Open!IInv, Open!TypeOK
  <2>2. SlotAt(scan) \in Slots /\ LatencyOf(SlotAt(scan)) \in Nat
    BY <2>1, <1>3, LiveEntries DEF BackInv
  <2> QED BY <2>2, <1>1 DEF Visited, Executions
<1>5. q \in Ports
  <2>1. entries \in [Slots -> ROBEntries]
    BY DEF BackInv, Open!IInv, Open!TypeOK, Open!CoreTypeOK, Slots, Open!Slots,
       ROBEntries, Open!ROBEntries, States, Open!States, UopIds, Open!UopIds
  <2>2. entries[i] \in ROBEntries
    BY <2>1, <1>4
  <2> QED BY <2>2, <1>1, <1>2 DEF AcceptingPorts, ROBEntries
<1>6. ~ IsTracked(i) /\ ~ IsIn(i) /\ ~ IsWritten(i)
  <2>1. i \notin AwaitingDeps /\ i \notin AwaitingWriteback
    BY <1>2, <1>4 DEF CoreIssue, BackInv, Open!IInv, Open!InFlightMatchesState, Slots,
       Open!Slots
  <2> QED BY <2>1, Awaiting DEF BackInv
<1>7. /\ execDeps'.pending = execDeps.pending \cup {e}
      /\ execDeps'.ready = execDeps.ready
      /\ execDeps' \in [pending : SUBSET Executions, ready : SUBSET Executions]
  BY <1>2, <1>4 DEF BackInv, BackTypeOK
<1>8. /\ portLinks[q] \in BuffersOf(Executions)
      /\ portLinks'[q] = Pushed(portLinks[q], <<e>>)
      /\ \A p \in Ports \ {q} : portLinks'[p] = portLinks[p]
      /\ portLinks' = [p \in Ports |-> portLinks'[p]]
  <2>1. portLinks \in [Ports -> BuffersOf(Executions)]
    BY DEF BackInv, BackTypeOK
  <2> QED BY <2>1, <1>2, <1>5
<1>9. /\ portLinks'[q] \in BuffersOf(Executions)
      /\ Range(portLinks'[q].fifo) = Range(portLinks[q].fifo)
      /\ portLinks'[q].fifo = portLinks[q].fifo
      /\ \A x : x \in Range(portLinks'[q].pending) <=> x \in Range(portLinks[q].pending) \/ x = e
  <2>1. PICK b, c : b = portLinks[q] /\ c = portLinks'[q]
    OBVIOUS
  <2>2. b \in BuffersOf(Executions) /\ c = Pushed(b, <<e>>)
    BY <2>1, <1>8
  <2>3. /\ c \in BuffersOf(Executions) /\ c.fifo = b.fifo
        /\ \A x : x \in Range(c.pending) <=> x \in Range(b.pending) \/ x = e
    <3>1. e \in Executions
      BY <1>4
    <3>2. c \in BuffersOf(Executions) /\ HasMore(b, e, c)
      BY <2>2, <3>1, PushedOne
    <3> QED BY <3>2 DEF HasMore
  <2> QED BY <2>1, <2>3
<1>10. \A p \in Ports : /\ At("pending", p)' = At("pending", p) \cup (IF p = q THEN {e} ELSE {})
                        /\ At("fifo", p)' = At("fifo", p)
                        /\ At("unit", p)' = At("unit", p)
  BY <1>3, <1>8, <1>9 DEF At
<1>11. \A p \in Ports : portLinks'[p].fifo = portLinks[p].fifo
  BY <1>8, <1>9
<1>12. BackTypeOK'
  <2>1. portLinks' \in [Ports -> BuffersOf(Executions)]
    <3>1. portLinks \in [Ports -> BuffersOf(Executions)]
      BY DEF BackInv, BackTypeOK
    <3>2. \A p \in Ports : portLinks'[p] \in BuffersOf(Executions)
      BY <3>1, <1>8, <1>9
    <3> QED BY <3>2, <1>8
  <2> QED BY <2>1, <1>3, <1>7 DEF BackInv, BackTypeOK
<1>13. \A p \in Ports, x \in Places : \A a \in At(x, p)' :
         \/ a \in At(x, p) /\ a.slot # i
         \/ a = e /\ p = q /\ x = "pending" /\ a.slot = i
  BY <1>1, <1>6, <1>10 DEF IsIn, Places
<1>14. \A j \in 1 .. Len(Contents(writebackLink)) : Contents(writebackLink)[j].slot # i
  BY <1>6 DEF IsWritten
<1>15. \A d \in execDeps'.pending \cup execDeps'.ready :
         \/ d \in execDeps.pending \cup execDeps.ready /\ d.slot # i
         \/ d = e /\ d.slot = i /\ d \notin execDeps.pending \cup execDeps.ready
  BY <1>1, <1>6, <1>7 DEF IsTracked
<1>16. EachOnce'
  <2>1. \A p, r \in Ports : \A x, y \in Places : \A a \in At(x, p)', b \in At(y, r)' :
          a.slot = b.slot => a = b /\ x = y /\ p = r
    BY <1>13 DEF BackInv, EachOnce
  <2>2. \A j \in 1 .. Len(Contents(writebackLink)) :
          \A p \in Ports : \A x \in Places : \A a \in At(x, p)' :
            Contents(writebackLink)[j].slot # a.slot
    BY <1>13, <1>14 DEF BackInv, EachOnce
  <2> QED BY <2>1, <2>2, <1>3 DEF BackInv, EachOnce
<1>17. TrackedOnce'
  <2>1. \A d, f \in execDeps'.pending \cup execDeps'.ready : d.slot = f.slot => d = f
    BY <1>15 DEF BackInv, TrackedOnce
  <2>2. execDeps'.pending \cap execDeps'.ready = {}
    <3>1. execDeps.pending \cap execDeps.ready = {}
      BY DEF BackInv, TrackedOnce
    <3>2. e \notin execDeps.ready
      BY <1>1, <1>6 DEF IsTracked
    <3> QED BY <3>1, <3>2, <1>7
  <2> QED BY <2>1, <2>2 DEF TrackedOnce
<1>18. TrackerIsAhead'
  <2>1. AfterDeps
    BY <1>3 DEF AfterDeps
  <2>2. execDeps'.ready = {}
    BY <2>1, <1>7 DEF BackInv, TrackerIsAhead
  <2>3. \A p \in Ports : ~ HasTicked(p) /\ ~ HasTicked(p)'
    BY <1>3 DEF HasTicked
  <2>4. ASSUME NEW d \in execDeps'.pending, NEW p \in Ports
        PROVE  /\ \A a \in At("pending", p)' : a.slot = d.slot => d.latency <= a.latency
               /\ \A a \in At("fifo", p)' :
                    a.slot = d.slot => 1 <= d.latency /\ d.latency < a.latency
               /\ \A a \in At("unit", p)' :
                    a.slot = d.slot => 1 <= d.latency /\ d.latency < a.latency
    <3>1. CASE d \in execDeps.pending /\ d.slot # i
      <4>1. /\ \A a \in At("pending", p) : a.slot = d.slot => d.latency <= a.latency
            /\ \A a \in At("fifo", p) :
                    a.slot = d.slot => 1 <= d.latency /\ d.latency < a.latency
            /\ \A a \in At("unit", p) :
                    a.slot = d.slot => 1 <= d.latency /\ d.latency < a.latency
        BY <3>1, <2>3 DEF BackInv, TrackerIsAhead
      <4> QED BY <3>1, <4>1, <1>10, <1>13 DEF Places
    <3>2. CASE d = e /\ d.slot = i
      <4>1. e.latency \in Nat
        BY <1>4 DEF Executions
      <4> QED BY <3>2, <4>1, <1>13 DEF Places
    <3> QED BY <3>1, <3>2, <1>1, <1>6, <1>7 DEF IsTracked
  <2>5. \A j \in 1 .. Len(Contents(writebackLink)) :
          \A d \in execDeps'.pending \cup execDeps'.ready :
            Contents(writebackLink)[j].slot # d.slot
    BY <1>14, <1>15 DEF BackInv, TrackerIsAhead
  <2> QED BY <2>2, <2>3, <2>4, <2>5, <1>3, <1>11 DEF BackInv, TrackerIsAhead
<1>19. AwaitingDeps' = AwaitingDeps \cup {i} /\ AwaitingWriteback' = AwaitingWriteback \cup {i}
  <2>1. \A j : IsTracked(j)' <=> IsTracked(j) \/ j = i
    BY <1>1, <1>7 DEF IsTracked
  <2>2. \A j : IsIn(j)' <=> IsIn(j) \/ j = i
    <3>1. \A j : IsIn(j)' => IsIn(j) \/ j = i
      BY <1>13 DEF IsIn
    <3>2. \A j : IsIn(j) => IsIn(j)'
      BY <1>10 DEF IsIn, Places
    <3>3. IsIn(i)'
      BY <1>1, <1>5, <1>10 DEF IsIn, Places
    <3> QED BY <3>1, <3>2, <3>3
  <2>3. \A j : IsWritten(j)' <=> IsWritten(j)
    BY <1>3 DEF IsWritten
  <2>4. /\ \A j : j \in AwaitingDeps <=> IsTracked(j)
        /\ \A j : j \in AwaitingWriteback <=> IsIn(j) \/ IsWritten(j)
    BY Awaiting DEF BackInv
  <2>5. /\ \A j : j \in AwaitingDeps' <=> IsTracked(j)'
        /\ \A j : j \in AwaitingWriteback' <=> IsIn(j)' \/ IsWritten(j)'
    BY <1>12, AwaitingStep DEF AwaitingIs
  <2>6. \A j : j \in AwaitingDeps' <=> j \in AwaitingDeps \/ j = i
    BY <2>1, <2>4, <2>5
  <2>7. \A j : j \in AwaitingWriteback' <=> j \in AwaitingWriteback \/ j = i
    BY <2>2, <2>3, <2>4, <2>5
  <2> QED BY <2>6, <2>7
<1>20. Open!IInv' /\ OpenStep
  <2>1. Retiring' = Retiring
    BY <1>3, SameAwaiting
  <2>2. Open!SlotAt(scan) = i /\ Open!NumLive = NumLive
    BY <1>1 DEF Visited, SlotAt, OldestEntry, Open!SlotAt, Open!OldestEntry, NumLive,
       Open!NumLive
  <2>3. Open!CoreIssue(i, q)
    BY <1>2 DEF CoreIssue, Open!CoreIssue
  <2>4. Open!VisitIssue(q)
    BY <1>3, <1>19, <2>1, <2>2, <2>3 DEF Open!VisitIssue
  <2> QED BY <2>4, <1>5, OpenStepKeepsIInv DEF BackInv, Open!LoopStep
<1>21. RetiresNext'
  BY <1>2, <1>3, SameRetirement DEF BackInv, CoreIssue
<1> QED BY <1>12, <1>16, <1>17, <1>18, <1>20, <1>21 DEF BackInv

LEMMA SendForRetirementKeepsBack ==
  ASSUME BackInv, SendForRetirement
  PROVE  BackInv' /\ OpenStep
<1>1. PICK i, e : i = firstRetirable /\ e = [slot |-> i, uop |-> entries[i].uop]
  OBVIOUS
<1>2. /\ UNCHANGED <<units, unit, retiredLink, renamed, writebackLink, execDeps,
                     portLinks, phase, scan, pc>>
      /\ pc = "rob" /\ phase = "retire"
      /\ CoreSendForRetirement
      /\ retireLink' = Pushed(retireLink, <<e>>)
  BY <1>1 DEF SendForRetirement, InLoop, outsideROB
<1>3. /\ i \in Slots /\ e \in Retirements
      /\ retireLink \in BuffersOf(Retirements)
  <2>1. i \in Slots /\ entries[i].uop \in UopIds
    BY <1>1 DEF BackInv, Open!IInv, Open!TypeOK, Open!CoreTypeOK, Slots, Open!Slots,
       Open!ROBEntries, UopIds, Open!UopIds
  <2> QED BY <2>1, <1>1 DEF Retirements, BackInv, BackTypeOK
<1>4. PICK c, r, d : /\ c = Contents(retiredLink) /\ r = Contents(retireLink)
                     /\ d = Contents(retireLink')
  OBVIOUS
<1>5. /\ c \in Seq(Retirements) /\ r \in Seq(Retirements) /\ d \in Seq(Retirements)
      /\ <<e>> \in Seq(Retirements) /\ d = r \o <<e>>
      /\ retireLink' \in BuffersOf(Retirements)
  <2>1. <<e>> \in Seq(Retirements)
    BY <1>3
  <2>2. /\ c \in Seq(Retirements) /\ r \in Seq(Retirements)
        /\ retireLink' \in BuffersOf(Retirements) /\ d = r \o <<e>>
    <3>1. retiredLink \in BuffersOf(Retirements) /\ retireLink \in BuffersOf(Retirements)
      BY DEF BackInv, BackTypeOK
    <3>2. c \in Seq(Retirements) /\ r \in Seq(Retirements)
      BY <3>1, <1>4, BufferParts, Zenon
    <3>3. /\ Pushed(retireLink, <<e>>) \in BuffersOf(Retirements)
          /\ Contents(Pushed(retireLink, <<e>>)) = r \o <<e>>
      BY <3>1, <2>1, <1>4, PushedContents, Zenon
    <3>4. retireLink' \in BuffersOf(Retirements) /\ d = r \o <<e>>
      BY <3>3, <1>2, <1>4
    <3> QED BY <3>2, <3>4
  <2> QED BY <2>1, <2>2, ConcatProperties
<1>6. /\ Retiring = SlotsOf(c) \o SlotsOf(r) /\ Retiring \in Seq(Slots)
      /\ Len(Retiring) = Len(c) + Len(r) /\ Len(c) \in Nat /\ Len(r) \in Nat
      /\ Retiring' = Append(Retiring, i)
  <2>1. PICK sc, sr, si : sc = SlotsOf(c) /\ sr = SlotsOf(r) /\ si = <<i>>
    OBVIOUS
  <2>2. /\ sc \in Seq(Slots) /\ sr \in Seq(Slots) /\ Len(sc) = Len(c) /\ Len(sr) = Len(r)
        /\ SlotsOf(d) = sr \o SlotsOf(<<e>>)
    BY <2>1, <1>5, SlotsOfConcat
  <2>3. si \in Seq(Slots) /\ SlotsOf(<<e>>) = si
    <3>1. <<i>> \in Seq(Slots)
      BY <1>3
    <3>2. SlotsOf(<<e>>) = <<e.slot>> /\ e.slot = i
      BY <1>1, <1>3, SlotsOfOne
    <3> QED BY <2>1, <3>1, <3>2
  <2>4. Retiring = sc \o sr
    BY <2>1, <1>4 DEF Retiring
  <2>5. Retiring' = sc \o (sr \o si)
    BY <2>1, <2>2, <2>3, <1>2, <1>4 DEF Retiring
  <2>6. sc \o (sr \o si) = (sc \o sr) \o si /\ sc \o sr \in Seq(Slots)
        /\ Len(sc \o sr) = Len(sc) + Len(sr)
    <3>1. PICK T : T = Slots
      OBVIOUS
    <3>2. sc \in Seq(T) /\ sr \in Seq(T) /\ si \in Seq(T)
      BY <2>2, <2>3, <3>1
    <3>3. sc \o (sr \o si) = (sc \o sr) \o si
      BY <3>2, ConcatAssociative, SMTT(30)
    <3>4. sc \o sr \in Seq(T) /\ Len(sc \o sr) = Len(sc) + Len(sr)
      BY <3>2, Concat
    <3> QED BY <3>1, <3>3, <3>4
  <2>7. Append(Retiring, i) = (sc \o sr) \o si
    BY <2>1, <2>4, <2>6, <1>3, AppendIsConcat
  <2> QED BY <2>1, <2>2, <2>4, <2>5, <2>6, <2>7, <1>5, LenProperties
<1>7. Open!SendForRetirement
  <2>1. UNCHANGED <<AwaitingDeps, AwaitingWriteback>>
    BY <1>2, SameAwaiting
  <2>2. Open!CoreSendForRetirement
    BY <1>2 DEF CoreSendForRetirement, Open!CoreSendForRetirement, NextSlot, Open!NextSlot
  <2> QED BY <1>1, <1>2, <1>6, <2>1, <2>2 DEF Open!SendForRetirement
<1>8. Open!IInv' /\ OpenStep
  BY <1>7, OpenStepKeepsIInv DEF BackInv, Open!LoopStep
<1>9. EachOnce' /\ TrackedOnce'
  BY <1>2, SamePlaces DEF BackInv, TrackedOnce
<1>10. TrackerIsAhead'
  <2>1. AfterDeps
    BY <1>2 DEF AfterDeps
  <2>2. execDeps.ready = {}
    BY <2>1 DEF BackInv, TrackerIsAhead
  <2> QED BY <2>2, <1>2, TickingROB, SameTracker DEF BackInv
<1>11. entries[i].uop = renamed[Open!NumReleased + Len(c) + Len(r) + 1].id
  <2>1. /\ numEmpty \in 0 .. NumROBEntries /\ firstEmpty \in Slots
        /\ Open!NumLive \in 0 .. NumROBEntries /\ Open!NumReleased \in Int
    BY NumROBEntriesAssumption, LenProperties DEF BackInv, Open!IInv, Open!TypeOK,
       Open!CoreTypeOK, Open!NumLive, Open!NumReleased, Slots, Open!Slots
  <2>2. i = Open!SlotAt(Len(Retiring)) /\ Len(Retiring) <= Open!NumLive
    BY <1>1 DEF BackInv, Open!IInv, Open!InOrderRetirement
  <2>3. entries[i].state = "ReadyToRetire"
    BY <1>1, <1>2 DEF CoreSendForRetirement
  <2>4. Len(Retiring) # Open!NumLive
    <3> SUFFICES ASSUME Len(Retiring) = Open!NumLive PROVE FALSE
      OBVIOUS
    <3>1. CASE Open!NumLive \in 0 .. NumROBEntries - 1
      <4>1. Open!NumLive \in Open!NumLive .. NumROBEntries - 1
        BY <3>1, NumROBEntriesAssumption
      <4>2. entries[Open!SlotAt(Open!NumLive)].state = "Empty"
        BY <4>1 DEF BackInv, Open!IInv, Open!LiveWindow
      <4> QED BY <4>2, <2>2, <2>3
    <3>2. CASE Open!NumLive = NumROBEntries
      <4>1. Open!SlotAt(NumROBEntries) = Open!SlotAt(0)
        BY <2>1, NumROBEntriesAssumption DEF Open!SlotAt, Open!OldestEntry, Slots
      <4>2. 0 \in 0 .. Open!NumLive - 1 /\ 0 < Len(Retiring)
        BY <3>2, NumROBEntriesAssumption
      <4>3. entries[Open!SlotAt(0)].state = "SentForRetirement"
        BY <4>2 DEF BackInv, Open!IInv, Open!InOrderRetirement
      <4> QED BY <4>1, <4>3, <3>2, <2>2, <2>3
    <3> QED BY <3>1, <3>2, <2>1, NumROBEntriesAssumption
  <2>5. Len(Retiring) \in 0 .. Open!NumLive - 1
    BY <2>1, <2>2, <2>4, <1>6
  <2>6. entries[i].uop = renamed[Open!NumReleased + 1 + Len(Retiring)].id
    BY <2>2, <2>5 DEF BackInv, Open!IInv, Open!LiveWindow
  <2>7. Open!NumReleased + 1 + Len(Retiring) = Open!NumReleased + Len(c) + Len(r) + 1
    BY <2>1, <1>6
  <2> QED BY <2>6, <2>7
<1>12. RetiresNext'
  <2>1. PICK k0 : k0 = Open!NumReleased
    OBVIOUS
  <2>2. Open!NumReleased' = k0 /\ k0 \in Int
    <3>1. numEmpty' = numEmpty
      BY <1>2 DEF CoreSendForRetirement
    <3>2. Open!NumReleased' = Open!NumReleased
      BY <1>2, <3>1 DEF Open!NumReleased, Open!NumLive
    <3>3. Open!NumReleased \in Int
      BY NumROBEntriesAssumption, LenProperties DEF BackInv, Open!IInv, Open!TypeOK,
         Open!CoreTypeOK, Open!NumLive, Open!NumReleased
    <3> QED BY <2>1, <3>2, <3>3
  <2>3. /\ Len(d) = Len(r) + 1
        /\ \A k \in 1 .. Len(r) : d[k] = r[k]
        /\ d[Len(r) + 1] = e
    <3>1. PICK t : t = <<e>>
      OBVIOUS
    <3>2. t \in Seq(Retirements) /\ Len(t) = 1 /\ t[1] = e /\ d = r \o t
      BY <3>1, <1>5
    <3>3. /\ Len(r \o t) = Len(r) + Len(t)
          /\ \A k \in 1 .. Len(r) : (r \o t)[k] = r[k]
          /\ \A k \in 1 .. Len(t) : (r \o t)[Len(r) + k] = t[k]
      BY <3>2, <1>5, Concat
    <3>4. 1 \in 1 .. Len(t)
      BY <3>2
    <3> QED BY <3>2, <3>3, <3>4
  <2>4. \A k \in 1 .. Len(r) : r[k].uop = renamed[k0 + Len(c) + k].id
    BY <2>1, <1>4 DEF BackInv, RetiresNext, NumRetired
  <2>5. e.uop = renamed[k0 + Len(c) + (Len(r) + 1)].id
    <3>1. k0 + Len(c) + (Len(r) + 1) = k0 + Len(c) + Len(r) + 1
      BY <2>2, <1>6
    <3> QED BY <3>1, <1>1, <1>11, <2>1
  <2>6. \A k \in 1 .. Len(d) : d[k].uop = renamed[k0 + Len(c) + k].id
    <3> SUFFICES ASSUME NEW k \in 1 .. Len(r) + 1 PROVE d[k].uop = renamed[k0 + Len(c) + k].id
      BY <2>3
    <3>1. k \in 1 .. Len(r) \/ k = Len(r) + 1
      BY <1>6
    <3> QED BY <3>1, <2>3, <2>4, <2>5
  <2> QED BY <2>2, <2>6, <1>2, <1>4 DEF RetiresNext, NumRetired
<1>13. BackTypeOK'
  BY <1>2, <1>5 DEF BackInv, BackTypeOK
<1> QED BY <1>8, <1>9, <1>10, <1>12, <1>13 DEF BackInv

\* What is on its way through the retirement station is in the buffer.
LEMMA RetirementBounds ==
  ASSUME BackInv
  PROVE  /\ Contents(retiredLink) \in Seq(Retirements)
         /\ Contents(retireLink) \in Seq(Retirements)
         /\ Len(Contents(retiredLink)) \in Nat /\ Len(Contents(retireLink)) \in Nat
         /\ renamed \in Seq(RenamedUops) /\ Len(renamed) \in Nat
         /\ Open!NumReleased \in Nat
         /\ Open!NumReleased + Len(Contents(retiredLink)) + Len(Contents(retireLink))
              <= Len(renamed)
<1>1. PICK c, r : c = Contents(retiredLink) /\ r = Contents(retireLink)
  OBVIOUS
<1>2. c \in Seq(Retirements) /\ r \in Seq(Retirements)
  BY <1>1, BufferParts DEF BackInv, BackTypeOK
<1>3. PICK sc, sr : sc = SlotsOf(c) /\ sr = SlotsOf(r)
  OBVIOUS
<1>4. sc \in Seq(Slots) /\ sr \in Seq(Slots)
  BY <1>2, <1>3, SlotsOfConcat
<1>5. Len(sc) = Len(c) /\ Len(sr) = Len(r)
  BY <1>2, <1>3, SlotsOfConcat
<1>6. Len(c) \in Nat /\ Len(r) \in Nat /\ Len(sc \o sr) = Len(c) + Len(r)
  <2>1. Len(c) \in Nat /\ Len(r) \in Nat
    BY <1>2, LenProperties
  <2>2. Len(sc \o sr) = Len(sc) + Len(sr)
    BY <1>4, Concat, Zenon
  <2> QED BY <2>1, <2>2, <1>5
<1>7. Retiring = sc \o sr
  BY <1>1, <1>3 DEF Retiring
<1>8. renamed \in Seq(RenamedUops)
  BY DEF BackInv, Open!IInv, Open!TypeOK, Open!RenamedUops, RenamedUops, UopIds,
     Open!UopIds
<1>9. Len(renamed) \in Nat
  BY <1>8, LenProperties
<1>10. /\ Open!NumLive <= Len(renamed) /\ Len(Retiring) <= Open!NumLive
       /\ Open!NumLive \in Nat
  BY NumROBEntriesAssumption DEF BackInv, Open!IInv, Open!LiveWindow,
     Open!InOrderRetirement, Open!TypeOK, Open!CoreTypeOK, Open!NumLive
<1>11. Open!NumReleased = Len(renamed) - Open!NumLive
  BY DEF Open!NumReleased
<1>12. /\ Open!NumReleased \in Nat
       /\ Open!NumReleased + Len(c) + Len(r) <= Len(renamed)
  BY <1>6, <1>7, <1>9, <1>10, <1>11
<1> QED BY <1>1, <1>2, <1>6, <1>8, <1>9, <1>12

\* The uop that comes next may arrive.
LEMMA NextUopMayArrive ==
  ASSUME FrontInv, HasElement(renamedLink), NEW u, u = Head(renamedLink.fifo)
  PROVE  u \in Open!Arrivals /\ Open!MayArrive(u)
<1>1. PICK n : n = Len(renamed)
  OBVIOUS
<1>2. /\ n \in Nat /\ renamed \in Seq(RenamedUops)
      /\ \A k \in 1 .. n : /\ renamed[k] \in RenamedUops
                           /\ k \in 1 .. Len(NamedUops) /\ NamedUops[k] = renamed[k]
                           /\ k \in 1 .. Len(DecodedIds) /\ DecodedIds[k] = renamed[k].id
      /\ u \in RenamedUops
      /\ n + 1 \in 1 .. Len(NamedUops) /\ NamedUops[n + 1] = u
      /\ n + 1 \in 1 .. Len(DecodedIds) /\ DecodedIds[n + 1] = u.id
  BY <1>1, ReadUops
<1>3. IsTrace(block, DecodedIds) /\ Len(DecodedIds) \in Nat /\ DecodedIds \in Seq(UopIds)
  BY FrontTypes, LenProperties DEF FrontInv, InOrder
<1>4. NamesGiven(NamedUops, names, numAllocated)
  BY DEF FrontInv
<1>5. DOMAIN renamed = 1 .. n
  BY <1>1, <1>2, LenProperties
<1>6. u.id \in UopIds /\ u.uses \in SUBSET Regs /\ u.defs \in SUBSET Regs
      /\ u.ports \in SUBSET Ports
      /\ u = [id |-> u.id, uses |-> u.uses, defs |-> u.defs, ports |-> u.ports]
      /\ u.id = [instr |-> u.id.instr, index |-> u.id.index]
  BY <1>2 DEF RenamedUops, UopIds
<1>7. /\ n = 0 => u.id = [instr |-> 0, index |-> 0]
      /\ n # 0 => \/ u.id = [instr |-> renamed[n].id.instr + 1, index |-> 0]
                  \/ u.id = [instr |-> renamed[n].id.instr,
                             index |-> renamed[n].id.index + 1]
  <2>1. CASE n = 0
    <3>1. DecodedIds # << >>
      BY <2>1, <1>2, <1>3, EmptySeq
    <3>2. DecodedIds[1] = u.id
      BY <2>1, <1>2
    <3>3. DecodedIds[1] = [instr |-> 0, index |-> 0]
      BY <3>1, <1>3 DEF IsTrace
    <3> QED BY <2>1, <3>2, <3>3
  <2>2. CASE n # 0
    <3>1. n \in 1 .. Len(DecodedIds) - 1 /\ n \in 1 .. n
      BY <2>2, <1>2, <1>3
    <3>2. Follows(block, DecodedIds[n], DecodedIds[n + 1])
      BY <3>1, <1>3 DEF IsTrace
    <3>3. Follows(block, renamed[n].id, u.id)
      BY <3>1, <3>2, <1>2
    <3> QED BY <2>2, <3>3 DEF Follows
  <2> QED BY <2>1, <2>2
<1>8. n = 0 <=> renamed = << >>
  BY <1>1, <1>2, EmptySeq
<1>9. n # 0 => renamed[n].id \in UopIds
  <2> SUFFICES ASSUME n # 0 PROVE renamed[n].id \in UopIds
    OBVIOUS
  <2>1. n \in 1 .. n
    BY <1>2
  <2> QED BY <2>1, <1>2 DEF RenamedUops
<1>10. Open!InProgramOrder(u.id)
  <2>1. CASE n = 0
    BY <2>1, <1>7, <1>8 DEF Open!InProgramOrder
  <2>2. CASE n # 0
    <3>1. PICK last : last = renamed[n].id
      OBVIOUS
    <3>2. last \in UopIds
      BY <2>2, <3>1, <1>9
    <3>3. [last EXCEPT !.index = @ + 1] = [instr |-> last.instr, index |-> last.index + 1]
      BY <3>2 DEF UopIds
    <3> QED BY <2>2, <3>1, <3>3, <1>1, <1>7, <1>8 DEF Open!InProgramOrder
  <2> QED BY <2>1, <2>2
<1>11. u.uses \subseteq (IF u.id.index = 0 THEN Open!DefinedRegs ELSE {})
  <2>1. ASSUME NEW r \in u.uses
        PROVE  u.id.index = 0 /\ r \in Open!DefinedRegs
    <3>1. u.id.index = 0 /\ \E j \in 1 .. (n + 1) - 1 : r \in NamedUops[j].defs
      BY <1>2, <1>4, <2>1 DEF NamesGiven
    <3>2. PICK j \in 1 .. (n + 1) - 1 : r \in NamedUops[j].defs
      BY <3>1
    <3>3. j \in 1 .. n
      BY <3>2, <1>2
    <3>4. r \in renamed[j].defs
      BY <3>2, <3>3, <1>2
    <3> QED BY <3>1, <3>3, <3>4, <1>5 DEF Open!DefinedRegs
  <2> QED BY <2>1
<1>12. u.defs \cap Open!DefinedRegs = {}
  <2> SUFFICES ASSUME NEW r \in u.defs, r \in Open!DefinedRegs PROVE FALSE
    OBVIOUS
  <2>1. PICK j \in 1 .. n : r \in renamed[j].defs
    BY <1>5 DEF Open!DefinedRegs
  <2>2. j # n + 1 /\ j \in 1 .. Len(NamedUops)
    BY <1>2
  <2>3. NamedUops[j].defs \cap NamedUops[n + 1].defs = {}
    BY <2>2, <1>2, <1>4 DEF NamesGiven
  <2> QED BY <2>1, <2>3, <1>2
<1>13. Open!MayArrive(u)
  BY <1>10, <1>11, <1>12 DEF Open!MayArrive
<1>14. u \in Open!Arrivals
  <2>1. CASE n = 0
    BY <2>1, <1>6, <1>7, <1>8 DEF Open!Arrivals
  <2>2. CASE n # 0
    BY <2>2, <1>1, <1>6, <1>7, <1>8 DEF Open!Arrivals
  <2> QED BY <2>1, <2>2
<1> QED BY <1>13, <1>14

LEMMA ReadNewUopKeepsBack ==
  ASSUME FrontInv, BackInv, ReadNewUop
  PROVE  /\ BackInv' /\ OpenStep
         /\ NumRetired' = NumRetired
         /\ \A k \in 1 .. NumRetired : renamed'[k] = renamed[k]
<1>1. PICK u : u = Head(renamedLink.fifo)
  OBVIOUS
<1>2. /\ UNCHANGED <<units, unit, retireLink, retiredLink, writebackLink, execDeps,
                     portLinks, phase, scan, pc>>
      /\ pc = "rob" /\ phase = "read" /\ HasElement(renamedLink)
      /\ CoreReadNewUop(u) /\ renamed' = Append(renamed, u)
  BY <1>1 DEF ReadNewUop, InLoop, outsideROB
<1>3. u \in Open!Arrivals /\ Open!MayArrive(u)
  BY <1>1, <1>2, NextUopMayArrive
<1>4. Open!ReadNewUop(u)
  <2>1. UNCHANGED <<Retiring, AwaitingDeps, AwaitingWriteback>>
    BY <1>2, SameAwaiting
  <2>2. Open!CoreReadNewUop(u)
    BY <1>2 DEF CoreReadNewUop, Open!CoreReadNewUop, InputDependencies,
       Open!InputDependencies, UseDependencies, Open!UseDependencies, PrevDependency,
       Open!PrevDependency, PrevSlot, Open!PrevSlot, NextSlot, Open!NextSlot, Slots,
       Open!Slots, NoEntry, Open!NoEntry, DoneStates, Open!DoneStates
  <2> QED BY <1>2, <1>3, <2>1, <2>2 DEF Open!ReadNewUop
<1>5. Open!IInv' /\ OpenStep
  BY <1>3, <1>4, Open!ReadNewUopKeeps, NumROBEntriesAssumption DEF BackInv, OpenStep
<1>6. EachOnce' /\ TrackedOnce'
  BY <1>2, SamePlaces DEF BackInv, TrackedOnce
<1>7. TrackerIsAhead'
  <2>1. ~ AfterDeps'
    BY <1>2 DEF AfterDeps
  <2> QED BY <2>1, <1>2, TickingROB, SameTracker DEF BackInv
<1>8. /\ RetiresNext' /\ NumRetired' = NumRetired
      /\ \A k \in 1 .. NumRetired : renamed'[k] = renamed[k]
  <2>1. PICK c, r, n, m : /\ c = Contents(retiredLink) /\ r = Contents(retireLink)
                          /\ n = Len(renamed) /\ m = Open!NumReleased
    OBVIOUS
  <2>2. /\ renamed \in Seq(RenamedUops) /\ n \in Nat /\ m \in Nat
        /\ Len(c) \in Nat /\ Len(r) \in Nat /\ m + Len(c) + Len(r) <= n
    BY <2>1, RetirementBounds
  <2>3. u \in RenamedUops
    BY <1>1, <1>2, ReadUops
  <2>4. /\ Len(renamed') = n + 1
        /\ \A k \in 1 .. n : renamed'[k] = renamed[k]
    BY <2>1, <2>2, <2>3, <1>2, AppendProperties
  <2>5. Open!NumReleased' = m
    <3>1. numEmpty' = numEmpty - 1 /\ numEmpty \in Nat
      BY <1>2 DEF CoreReadNewUop, BackInv, Open!IInv, Open!TypeOK, Open!CoreTypeOK
    <3> QED BY <3>1, <2>1, <2>2, <2>4, NumROBEntriesAssumption
         DEF Open!NumReleased, Open!NumLive
  <2>6. ASSUME NEW k \in 1 .. Len(r)
        PROVE  r[k].uop = renamed'[m + Len(c) + k].id
    <3>1. m + Len(c) + k \in 1 .. n
      BY <2>2
    <3>2. r[k].uop = renamed[m + Len(c) + k].id
      BY <2>1 DEF BackInv, RetiresNext, NumRetired
    <3> QED BY <3>1, <3>2, <2>4
  <2>7. \A k \in 1 .. m + Len(c) : k \in 1 .. n
    BY <2>2
  <2>8. NumRetired = m + Len(c) /\ NumRetired' = m + Len(c)
    BY <2>1, <2>5, <1>2 DEF NumRetired
  <2> QED BY <2>1, <2>4, <2>5, <2>6, <2>7, <2>8, <1>2 DEF RetiresNext
<1>9. BackTypeOK'
  BY <1>2 DEF BackInv, BackTypeOK
<1> QED BY <1>5, <1>6, <1>7, <1>8, <1>9 DEF BackInv

-----------------------------------------------------------------------------
(* SimplifiedExecutionUnits::Tick.                                         *)

LEMMA PortNumbers ==
  \E n \in Nat \ {0} : Ports = 0 .. n - 1
<1>1. PICK n : n = Cardinality(Ports)
  OBVIOUS
<1>2. n \in Nat /\ Ports = 0 .. n - 1 /\ Ports # {}
  BY <1>1, WiringAssumption, FS_CardinalityType
<1>3. n # 0
  BY <1>2
<1> QED BY <1>2, <1>3

OneOlder(e) == [e EXCEPT !.latency = IF @ > 0 THEN @ - 1 ELSE 0]

LEMMA OlderIs ==
  ASSUME NEW e \in Executions
  PROVE  /\ OneOlder(e) \in Executions /\ OneOlder(e).slot = e.slot
         /\ e.latency \in Nat
         /\ OneOlder(e).latency = IF e.latency > 0 THEN e.latency - 1 ELSE 0
BY DEF OneOlder, Executions

LEMMA AgedIs ==
  ASSUME NEW E, E \in SUBSET Executions
  PROVE  /\ Aged(E) \in SUBSET Executions
         /\ \A a : a \in Aged(E) <=> \E b \in E : a = OneOlder(b)
<1>1. \A a : a \in Aged(E) <=> \E b \in E : a = OneOlder(b)
  BY DEF Aged, OneOlder
<1>2. \A b \in E : OneOlder(b) \in Executions
  BY OlderIs
<1> QED BY <1>1, <1>2

\* An execution unit takes what its port holds, and time passes for it.
LEMMA UnitReadKeepsBack ==
  ASSUME BackInv, UnitRead
  PROVE  BackInv' /\ OpenStep
<1>1. PICK q : q = unit
  OBVIOUS
<1>2. PICK n \in Nat \ {0} : Ports = 0 .. n - 1
  BY PortNumbers
<1>3. q \in Ports /\ q \in Nat
  BY <1>1, <1>2 DEF BackInv, BackTypeOK
<1>4. /\ UNCHANGED <<robVars, retireLink, retiredLink, writebackLink, execDeps,
                     unit, phase, scan, renamed>>
      /\ pc = "unitsRead" /\ pc' = "unitsWrite"
      /\ units' = [units EXCEPT ![q] = Aged(@ \cup Range(portLinks[q].fifo))]
      /\ portLinks' = [portLinks EXCEPT ![q].fifo = << >>]
  BY <1>1 DEF UnitRead, Turn
<1>5. /\ units \in [Ports -> SUBSET Executions]
      /\ portLinks \in [Ports -> BuffersOf(Executions)]
  BY DEF BackInv, BackTypeOK
<1>6. /\ units'[q] = Aged(units[q] \cup Range(portLinks[q].fifo))
      /\ \A p \in Ports \ {q} : units'[p] = units[p]
      /\ units' = [p \in Ports |-> units'[p]]
  BY <1>3, <1>4, <1>5
<1>7. /\ portLinks'[q] = [portLinks[q] EXCEPT !.fifo = << >>]
      /\ \A p \in Ports \ {q} : portLinks'[p] = portLinks[p]
      /\ portLinks' = [p \in Ports |-> portLinks'[p]]
  BY <1>3, <1>4, <1>5
<1>8. /\ portLinks'[q] \in BuffersOf(Executions)
      /\ portLinks'[q].fifo = << >> /\ portLinks'[q].pending = portLinks[q].pending
  <2>1. PICK b, p, f, st, e : /\ b = portLinks[q] /\ p = b.pending /\ f = b.fifo
                              /\ st = b.stalled /\ e = << >>
    OBVIOUS
  <2>2. b \in BuffersOf(Executions)
    BY <2>1, <1>3, <1>5
  <2>3. /\ p \in Seq(Executions) /\ st \in BOOLEAN
        /\ b = [pending |-> p, fifo |-> f, stalled |-> st]
    BY <2>1, <2>2, BufferParts
  <2>4. e \in Seq(Executions)
    BY <2>1, EmptySeq
  <2>5. PICK b2 : b2 = [b EXCEPT !.fifo = e]
    OBVIOUS
  <2>6. b2 = [pending |-> p, fifo |-> e, stalled |-> st]
    BY <2>3, <2>5, FieldsOf
  <2>7. b2 \in BuffersOf(Executions) /\ b2.fifo = e /\ b2.pending = p
    BY <2>3, <2>4, <2>6, MadeOf, FieldsOf
  <2> QED BY <2>1, <2>5, <2>7, <1>7
<1>9. /\ At("pending", q) \in SUBSET Executions
      /\ At("unit", q) \in SUBSET Executions /\ At("fifo", q) \in SUBSET Executions
  BY <1>3, PlaceTypes DEF BackInv, Places
<1>10. /\ units'[q] \in SUBSET Executions
       /\ \A a : a \in At("unit", q)' <=> \E b \in At("unit", q) \cup At("fifo", q) : a = OneOlder(b)
  BY <1>6, <1>9, AgedIs DEF At
<1>11. At("fifo", q)' = {} /\ At("pending", q)' = At("pending", q)
  <2>1. \A x : x \notin Range(<< >>)
    BY DEF Range
  <2> QED BY <2>1, <1>8 DEF At
<1>12. \A p \in Ports \ {q}, x \in Places : At(x, p)' = At(x, p)
  BY <1>6, <1>7 DEF At
<1>13. \A p \in Ports : HasTicked(p)' <=> HasTicked(p) \/ p = q
  <2> SUFFICES ASSUME NEW p \in Ports PROVE HasTicked(p)' <=> HasTicked(p) \/ p = q
    OBVIOUS
  <2>1. HasTicked(p)' <=> p <= q
    BY <1>1, <1>4 DEF HasTicked
  <2>2. HasTicked(p) <=> p < q
    BY <1>1, <1>4 DEF HasTicked
  <2>3. p \in Nat
    BY <1>2
  <2> QED BY <2>1, <2>2, <2>3, <1>3
<1>14. ~ HasTicked(q)
  BY <1>1, <1>3, <1>4 DEF HasTicked
<1>15. BackTypeOK'
  <2>1. units' \in [Ports -> SUBSET Executions]
    BY <1>5, <1>6, <1>10
  <2>2. portLinks' \in [Ports -> BuffersOf(Executions)]
    BY <1>5, <1>7, <1>8
  <2> QED BY <2>1, <2>2, <1>4 DEF BackInv, BackTypeOK
<1>16. ASSUME NEW p \in Ports, NEW x \in Places, NEW a \in At(x, p)'
       PROVE  \E y \in Places : \E b \in At(y, p) :
                /\ a.slot = b.slot
                /\ IF p = q /\ y \in {"unit", "fifo"} THEN x = "unit" /\ a = OneOlder(b)
                                                      ELSE x = y /\ a = b
  <2>1. CASE p = q /\ x = "unit"
    <3>1. PICK b \in At("unit", q) \cup At("fifo", q) : a = OneOlder(b)
      BY <2>1, <1>10
    <3>2. a.slot = b.slot
      BY <3>1, <1>9, OlderIs
    <3> QED BY <2>1, <3>1, <3>2 DEF Places
  <2>2. CASE p = q /\ x = "pending"
    BY <2>2, <1>11 DEF Places
  <2>3. CASE p = q /\ x = "fifo"
    BY <2>3, <1>11
  <2>4. CASE p # q
    BY <2>4, <1>12
  <2> QED BY <2>1, <2>2, <2>3, <2>4 DEF Places
<1>17. ASSUME NEW p \in Ports, NEW y \in Places, NEW b \in At(y, p)
       PROVE  \E x \in Places : \E a \in At(x, p)' : a.slot = b.slot
  <2>1. CASE p = q /\ y \in {"unit", "fifo"}
    <3>1. OneOlder(b) \in At("unit", q)' /\ OneOlder(b).slot = b.slot
      BY <2>1, <1>9, <1>10, OlderIs
    <3> QED BY <2>1, <3>1 DEF Places
  <2>2. CASE ~ (p = q /\ y \in {"unit", "fifo"})
    <3>1. At(y, p)' = At(y, p)
      BY <2>2, <1>11, <1>12 DEF Places
    <3> QED BY <3>1
  <2> QED BY <2>1, <2>2
<1>18. EachOnce'
  <2>1. ASSUME NEW p \in Ports, NEW r \in Ports, NEW x \in Places, NEW y \in Places,
               NEW a \in At(x, p)', NEW b \in At(y, r)', a.slot = b.slot
        PROVE  a = b /\ x = y /\ p = r
    <3>1. PICK x0 \in Places : \E a0 \in At(x0, p) :
            /\ a.slot = a0.slot
            /\ IF p = q /\ x0 \in {"unit", "fifo"} THEN x = "unit" /\ a = OneOlder(a0)
                                                   ELSE x = x0 /\ a = a0
      BY <1>16
    <3>2. PICK y0 \in Places : \E b0 \in At(y0, r) :
            /\ b.slot = b0.slot
            /\ IF r = q /\ y0 \in {"unit", "fifo"} THEN y = "unit" /\ b = OneOlder(b0)
                                                   ELSE y = y0 /\ b = b0
      BY <1>16
    <3>3. PICK a0 \in At(x0, p) :
            /\ a.slot = a0.slot
            /\ IF p = q /\ x0 \in {"unit", "fifo"} THEN x = "unit" /\ a = OneOlder(a0)
                                                   ELSE x = x0 /\ a = a0
      BY <3>1
    <3>4. PICK b0 \in At(y0, r) :
            /\ b.slot = b0.slot
            /\ IF r = q /\ y0 \in {"unit", "fifo"} THEN y = "unit" /\ b = OneOlder(b0)
                                                   ELSE y = y0 /\ b = b0
      BY <3>2
    <3>5. a0 = b0 /\ x0 = y0 /\ p = r
      <4>1. a0.slot = b0.slot
        BY <2>1, <3>3, <3>4
      <4>2. EachOnce
        BY DEF BackInv
      <4>3. \A p1, q1 \in Ports : \A x1, y1 \in Places :
               \A a1 \in At(x1, p1), b1 \in At(y1, q1) :
                 a1.slot = b1.slot => a1 = b1 /\ x1 = y1 /\ p1 = q1
        BY <4>2 DEF EachOnce
      <4>4. /\ p \in Ports /\ r \in Ports /\ x0 \in Places /\ y0 \in Places
            /\ a0 \in At(x0, p) /\ b0 \in At(y0, r)
        OBVIOUS
      <4> HIDE DEF At
      <4> QED BY <4>1, <4>3, <4>4
    <3> QED BY <3>3, <3>4, <3>5
  <2>2. ASSUME NEW j \in 1 .. Len(Contents(writebackLink)), NEW p \in Ports,
               NEW x \in Places, NEW a \in At(x, p)'
        PROVE  Contents(writebackLink)[j].slot # a.slot
    <3>1. \E y \in Places : \E b \in At(y, p) : a.slot = b.slot
      BY <1>16
    <3> QED BY <3>1 DEF BackInv, EachOnce
  <2> QED BY <2>1, <2>2, <1>4 DEF BackInv, EachOnce
<1>19. TrackerIsAhead'
  <2>1. execDeps.ready = {}
    BY <1>4 DEF BackInv, TrackerIsAhead, AfterDeps
  <2>2. \A p \in Ports : HasTicked(p)' => portLinks'[p].fifo = << >>
    BY <1>7, <1>8, <1>13 DEF BackInv, TrackerIsAhead
  <2>3. ASSUME NEW d \in execDeps.pending, NEW p \in Ports
        PROVE  /\ \A a \in At("pending", p)' : a.slot = d.slot => d.latency <= a.latency
               /\ \A a \in At("fifo", p)' :
                    a.slot = d.slot => 1 <= d.latency /\ d.latency < a.latency
               /\ \A a \in At("unit", p)' :
                    a.slot = d.slot =>
                      /\ 1 <= d.latency
                      /\ IF HasTicked(p)' THEN d.latency <= a.latency ELSE d.latency < a.latency
    <3>1. /\ \A a \in At("pending", p) : a.slot = d.slot => d.latency <= a.latency
          /\ \A a \in At("fifo", p) :
               a.slot = d.slot => 1 <= d.latency /\ d.latency < a.latency
          /\ \A a \in At("unit", p) :
               a.slot = d.slot =>
                 /\ 1 <= d.latency
                 /\ IF HasTicked(p) THEN d.latency <= a.latency ELSE d.latency < a.latency
      BY DEF BackInv, TrackerIsAhead
    <3>2. CASE p # q
      <4>1. /\ At("pending", p)' = At("pending", p) /\ At("fifo", p)' = At("fifo", p)
            /\ At("unit", p)' = At("unit", p)
        BY <3>2, <1>12 DEF Places
      <4>2. HasTicked(p)' <=> HasTicked(p)
        BY <3>2, <1>13
      <4> QED BY <3>1, <4>1, <4>2
    <3>3. CASE p = q
      <4>1. ASSUME NEW a \in At("unit", q)', a.slot = d.slot
            PROVE  1 <= d.latency /\ d.latency <= a.latency
        <5>1. PICK b \in At("unit", q) \cup At("fifo", q) : a = OneOlder(b)
          BY <1>10
        <5>2. /\ a.slot = b.slot /\ b.latency \in Nat
              /\ a.latency = IF b.latency > 0 THEN b.latency - 1 ELSE 0
          BY <5>1, <1>9, OlderIs
        <5>3. d.latency \in Nat
          BY DEF BackInv, BackTypeOK, Executions
        <5>4. 1 <= d.latency /\ d.latency < b.latency
          BY <3>1, <3>3, <4>1, <5>1, <5>2, <1>14
        <5> QED BY <5>2, <5>3, <5>4
      <4>2. HasTicked(p)'
        BY <3>3, <1>13
      <4> QED BY <3>1, <3>3, <4>1, <4>2, <1>11
    <3> QED BY <3>2, <3>3
  <2> QED BY <2>1, <2>2, <2>3, <1>4 DEF BackInv, TrackerIsAhead
<1>20. UNCHANGED openVars
  <2>1. UNCHANGED <<AwaitingDeps, Retiring>>
    BY <1>4, SameAwaiting
  <2>2. \A i : IsIn(i)' <=> IsIn(i)
    <3>1. \A i : IsIn(i)' => IsIn(i)
      BY <1>16 DEF IsIn
    <3>2. \A i : IsIn(i) => IsIn(i)'
      BY <1>17 DEF IsIn
    <3> QED BY <3>1, <3>2
  <2>3. \A i : IsWritten(i)' <=> IsWritten(i)
    BY <1>4 DEF IsWritten
  <2>4. \A i : i \in AwaitingWriteback <=> IsIn(i) \/ IsWritten(i)
    BY Awaiting DEF BackInv
  <2>5. \A i : i \in AwaitingWriteback' <=> IsIn(i)' \/ IsWritten(i)'
    BY <1>15, AwaitingStep DEF AwaitingIs
  <2>6. AwaitingWriteback' = AwaitingWriteback
    <3>1. \A i : i \in AwaitingWriteback' <=> i \in AwaitingWriteback
      BY <2>2, <2>3, <2>4, <2>5
    <3> QED BY <3>1
  <2> QED BY <2>1, <2>6, <1>4 DEF openVars
<1>21. Open!IInv' /\ OpenStep /\ RetiresNext' /\ TrackedOnce'
  BY <1>4, <1>20, UnseenKeepsIInv, SameRetirement DEF BackInv, robVars, TrackedOnce
<1> QED BY <1>15, <1>18, <1>19, <1>21 DEF BackInv

LEMMA UnitWriteBackKeepsBack ==
  ASSUME BackInv, UnitWriteBack
  PROVE  BackInv' /\ OpenStep
<1>1. PICK q, w : q = unit /\ w = Contents(writebackLink)
  OBVIOUS
<1>2. PICK e \in Executed(units[q]) :
        /\ writebackLink' = Pushed(writebackLink, <<e>>)
        /\ units' = [units EXCEPT ![q] = @ \ {e}]
  BY <1>1 DEF UnitWriteBack
<1>3. /\ UNCHANGED <<robVars, retireLink, retiredLink, execDeps, unit, portLinks,
                     phase, scan, renamed, pc>>
      /\ pc = "unitsWrite"
  BY DEF UnitWriteBack
<1>4. /\ q \in Ports /\ units \in [Ports -> SUBSET Executions]
      /\ writebackLink \in BuffersOf(Executions)
  BY <1>1 DEF BackInv, BackTypeOK
<1>5. e \in At("unit", q) /\ e.latency = 0 /\ e \in Executions
  BY <1>2, <1>4 DEF Executed, At
<1>6. PICK w2 : w2 = Contents(writebackLink')
  OBVIOUS
<1>7. /\ writebackLink' \in BuffersOf(Executions)
      /\ Len(w) \in Nat /\ Len(w2) = Len(w) + 1
      /\ \A k \in 1 .. Len(w) : w2[k] = w[k]
      /\ w2[Len(w) + 1] = e
  <2>1. PICK b, b2 : b = writebackLink /\ b2 = writebackLink'
    OBVIOUS
  <2>2. b \in BuffersOf(Executions) /\ b2 = Pushed(b, <<e>>)
    BY <2>1, <1>2, <1>4
  <2>3. e \in Executions
    BY <1>5
  <2>4. b2 \in BuffersOf(Executions) /\ HasMore(b, e, b2)
    BY <2>2, <2>3, PushedOne
  <2> QED BY <2>1, <2>4, <1>1, <1>6 DEF HasMore
<1>8. \A k \in 1 .. Len(w2) : \/ k \in 1 .. Len(w) /\ w2[k] = w[k]
                              \/ k = Len(w) + 1 /\ w2[k] = e
  BY <1>7
<1>9. /\ \A p \in Ports \ {q}, x \in Places : At(x, p)' = At(x, p)
      /\ At("pending", q)' = At("pending", q) /\ At("fifo", q)' = At("fifo", q)
      /\ At("unit", q)' = At("unit", q) \ {e}
  BY <1>2, <1>3, <1>4 DEF At
<1>10. \A p \in Ports, x \in Places : \A a \in At(x, p)' :
         a \in At(x, p) /\ a.slot # e.slot
  <2> SUFFICES ASSUME NEW p \in Ports, NEW x \in Places, NEW a \in At(x, p)'
               PROVE  a \in At(x, p) /\ a.slot # e.slot
    OBVIOUS
  <2>1. a \in At(x, p) /\ ~ (a = e /\ p = q /\ x = "unit")
    BY <1>9 DEF Places
  <2>2. a.slot = e.slot => a = e /\ x = "unit" /\ p = q
    BY <2>1, <1>4, <1>5 DEF BackInv, EachOnce, Places
  <2> QED BY <2>1, <2>2
<1>11. \A j \in 1 .. Len(w) : w[j].slot # e.slot
  BY <1>1, <1>4, <1>5 DEF BackInv, EachOnce, Places
<1>12. EachOnce'
  <2>1. \A p, r \in Ports : \A x, y \in Places : \A a \in At(x, p)', b \in At(y, r)' :
          a.slot = b.slot => a = b /\ x = y /\ p = r
    BY <1>10 DEF BackInv, EachOnce
  <2>2. \A j, k \in 1 .. Len(w2) : w2[j].slot = w2[k].slot => j = k
    BY <1>1, <1>8, <1>11 DEF BackInv, EachOnce
  <2>3. \A j \in 1 .. Len(w2) : \A p \in Ports : \A x \in Places : \A a \in At(x, p)' :
          w2[j].slot # a.slot
    BY <1>1, <1>8, <1>10 DEF BackInv, EachOnce
  <2> QED BY <2>1, <2>2, <2>3, <1>6 DEF EachOnce
<1>13. AfterDeps /\ execDeps.ready = {} /\ HasTicked(q)
  <2>1. AfterDeps
    BY <1>3 DEF AfterDeps
  <2>2. q <= unit
    BY <1>1, <1>4, PortNumbers
  <2> QED BY <2>1, <2>2, <1>3 DEF BackInv, TrackerIsAhead, HasTicked
<1>14. ~ IsTracked(e.slot)
  <2> SUFFICES ASSUME NEW d \in execDeps.pending, d.slot = e.slot PROVE FALSE
    BY <1>13 DEF IsTracked
  <2>1. 1 <= d.latency /\ d.latency <= e.latency
    BY <1>4, <1>5, <1>13 DEF BackInv, TrackerIsAhead
  <2>2. d.latency \in Nat
    BY DEF BackInv, BackTypeOK, Executions
  <2> QED BY <2>1, <2>2, <1>5
<1>15. TrackerIsAhead'
  <2>1. \A p \in Ports : HasTicked(p)' <=> HasTicked(p)
    BY <1>3 DEF HasTicked
  <2>2. \A d \in execDeps.pending : \A p \in Ports :
          /\ \A a \in At("pending", p)' : a.slot = d.slot => d.latency <= a.latency
          /\ \A a \in At("fifo", p)' :
               a.slot = d.slot => 1 <= d.latency /\ d.latency < a.latency
          /\ \A a \in At("unit", p)' :
               a.slot = d.slot =>
                 /\ 1 <= d.latency
                 /\ IF HasTicked(p) THEN d.latency <= a.latency ELSE d.latency < a.latency
    BY <1>10 DEF BackInv, TrackerIsAhead, Places
  <2>3. \A j \in 1 .. Len(w2) : \A d \in execDeps.pending \cup execDeps.ready :
          w2[j].slot # d.slot
    BY <1>1, <1>8, <1>14 DEF BackInv, TrackerIsAhead, IsTracked
  <2> QED BY <2>1, <2>2, <2>3, <1>3, <1>6, <1>13 DEF BackInv, TrackerIsAhead
<1>16. BackTypeOK'
  <2>1. units' \in [Ports -> SUBSET Executions]
    BY <1>2, <1>4
  <2> QED BY <2>1, <1>3, <1>7 DEF BackInv, BackTypeOK
<1>17. UNCHANGED openVars
  <2>1. UNCHANGED <<AwaitingDeps, Retiring>>
    BY <1>3, SameAwaiting
  <2>2. \A i : IsIn(i)' \/ i = e.slot <=> IsIn(i)
    <3>1. \A i : IsIn(i)' => IsIn(i)
      BY <1>10 DEF IsIn
    <3>2. IsIn(e.slot)
      BY <1>4, <1>5 DEF IsIn, Places
    <3>3. ASSUME NEW p \in Ports, NEW x \in Places, NEW a \in At(x, p), a.slot # e.slot
          PROVE  a \in At(x, p)'
      BY <3>3, <1>9 DEF Places
    <3>4. \A i : IsIn(i) /\ i # e.slot => IsIn(i)'
      BY <3>3 DEF IsIn
    <3> QED BY <3>1, <3>2, <3>4
  <2>3. \A i : IsWritten(i)' <=> IsWritten(i) \/ i = e.slot
    <3>1. \A i : IsWritten(i)' <=> \E j \in 1 .. Len(w2) : w2[j].slot = i
      BY <1>6 DEF IsWritten
    <3>2. \A i : IsWritten(i) <=> \E j \in 1 .. Len(w) : w[j].slot = i
      BY <1>1 DEF IsWritten
    <3>3. Len(w) + 1 \in 1 .. Len(w2) /\ \A j \in 1 .. Len(w) : j \in 1 .. Len(w2)
      BY <1>7
    <3> QED BY <3>1, <3>2, <3>3, <1>7, <1>8
  <2>4. \A i : i \in AwaitingWriteback <=> IsIn(i) \/ IsWritten(i)
    BY Awaiting DEF BackInv
  <2>5. \A i : i \in AwaitingWriteback' <=> IsIn(i)' \/ IsWritten(i)'
    BY <1>16, AwaitingStep DEF AwaitingIs
  <2>6. AwaitingWriteback' = AwaitingWriteback
    <3>1. \A i : i \in AwaitingWriteback' <=> i \in AwaitingWriteback
      BY <2>2, <2>3, <2>4, <2>5
    <3> QED BY <3>1
  <2> QED BY <2>1, <2>6, <1>3 DEF openVars
<1>18. Open!IInv' /\ OpenStep /\ RetiresNext' /\ TrackedOnce'
  BY <1>3, <1>17, UnseenKeepsIInv, SameRetirement DEF BackInv, robVars, TrackedOnce
<1> QED BY <1>12, <1>15, <1>16, <1>18 DEF BackInv

LEMMA UnitEndKeepsBack ==
  ASSUME BackInv, UnitEnd
  PROVE  BackInv' /\ OpenStep
<1>1. /\ UNCHANGED <<robVars, retireLink, retiredLink, writebackLink, execDeps, units,
                     portLinks, phase, scan, renamed>>
      /\ pc = "unitsWrite"
      /\ IF unit + 1 \in Ports THEN pc' = "unitsRead" /\ unit' = unit + 1
                               ELSE pc' = "retirer" /\ unit' = 0
  BY DEF UnitEnd, Turn
<1>2. PICK n \in Nat \ {0} : Ports = 0 .. n - 1
  BY PortNumbers
<1>3. unit \in Ports
  BY DEF BackInv, BackTypeOK
<1>4. \A p \in Ports : HasTicked(p)' = HasTicked(p)
  <2> SUFFICES ASSUME NEW p \in Ports PROVE HasTicked(p)' <=> HasTicked(p)
    BY DEF HasTicked
  <2>1. HasTicked(p) <=> p <= unit
    BY <1>1 DEF HasTicked
  <2>2. CASE unit + 1 \in Ports
    <3>1. HasTicked(p)' <=> p < unit'
      BY <2>2, <1>1 DEF HasTicked
    <3>2. unit' = unit + 1 /\ p \in Nat /\ unit \in Nat
      BY <2>2, <1>1, <1>2, <1>3
    <3> QED BY <2>1, <3>1, <3>2
  <2>3. CASE unit + 1 \notin Ports
    <3>1. HasTicked(p)'
      BY <2>3, <1>1 DEF HasTicked
    <3>2. p <= unit
      BY <2>3, <1>2, <1>3
    <3> QED BY <2>1, <3>1, <3>2
  <2> QED BY <2>2, <2>3
<1>5. unit' \in Ports
  BY <1>1, <1>2
<1>6. UNCHANGED openVars
  BY <1>1, SameAwaiting DEF openVars
<1>7. Open!IInv' /\ OpenStep /\ RetiresNext' /\ TrackedOnce' /\ EachOnce'
  BY <1>1, <1>6, UnseenKeepsIInv, SameRetirement, SamePlaces
     DEF BackInv, robVars, TrackedOnce
<1>8. TrackerIsAhead'
  <2>1. execDeps.ready = {}
    BY <1>1 DEF BackInv, TrackerIsAhead, AfterDeps
  <2> QED BY <2>1, <1>1, <1>4, SameTracker DEF BackInv
<1>9. BackTypeOK'
  BY <1>1, <1>5 DEF BackInv, BackTypeOK
<1> QED BY <1>7, <1>8, <1>9 DEF BackInv

-----------------------------------------------------------------------------
(* Retirer::Tick, and the end of a cycle.                                  *)

LEMMA RetireUopKeepsBack ==
  ASSUME BackInv, RetireUop
  PROVE  /\ BackInv' /\ OpenStep
         /\ NumRetired' = NumRetired + 1 /\ NumRetired + 1 \in 1 .. Len(renamed)
         /\ Head(retireLink.fifo).uop = renamed[NumRetired + 1].id
<1>1. PICK h, c, r, d : /\ h = Head(retireLink.fifo) /\ c = Contents(retiredLink)
                        /\ r = Contents(retireLink) /\ d = Contents(retireLink')
  OBVIOUS
<1>2. /\ UNCHANGED <<robVars, writebackLink, execDeps, units, unit, portLinks, phase,
                     scan, renamed, pc>>
      /\ pc = "retirer" /\ HasElement(retireLink)
      /\ retiredLink' = Pushed(retiredLink, <<h>>)
      /\ retireLink' = Popped(retireLink)
  BY <1>1 DEF RetireUop
<1>3. /\ retireLink \in BuffersOf(Retirements) /\ retiredLink \in BuffersOf(Retirements)
  BY DEF BackInv, BackTypeOK
<1>4. /\ retireLink' \in BuffersOf(Retirements)
      /\ h \in Retirements /\ d \in Seq(Retirements) /\ r = <<h>> \o d
  BY <1>1, <1>2, <1>3, PoppedContents
<1>5. PICK c2 : c2 = Contents(retiredLink')
  OBVIOUS
<1>6. /\ retiredLink' \in BuffersOf(Retirements)
      /\ c \in Seq(Retirements) /\ c2 = c \o <<h>> /\ Len(c2) = Len(c) + 1
      /\ Len(c) \in Nat
  <2>1. PICK b, b2 : b = retiredLink /\ b2 = retiredLink'
    OBVIOUS
  <2>2. b \in BuffersOf(Retirements) /\ b2 = Pushed(b, <<h>>)
    BY <2>1, <1>2, <1>3
  <2>3. b2 \in BuffersOf(Retirements) /\ HasMore(b, h, b2) /\ Contents(b) \in Seq(Retirements)
    BY <2>2, <1>4, PushedOne
  <2> QED BY <2>1, <2>3, <1>1, <1>5 DEF HasMore
<1>7. /\ Len(r) = Len(d) + 1 /\ Len(d) \in Nat
      /\ \A k \in 1 .. Len(d) : d[k] = r[k + 1]
  BY <1>4, WithoutFirst
<1>8. Retiring' = Retiring
  <2>1. PICK sc, sh, sd, T : /\ sc = SlotsOf(c) /\ sh = SlotsOf(<<h>>) /\ sd = SlotsOf(d)
                             /\ T = Slots
    OBVIOUS
  <2>2. <<h>> \in Seq(Retirements)
    BY <1>4
  <2>3. /\ sc \in Seq(T) /\ sh \in Seq(T) /\ sd \in Seq(T)
        /\ SlotsOf(c2) = sc \o sh /\ SlotsOf(r) = sh \o sd
    BY <2>1, <2>2, <1>4, <1>6, SlotsOfConcat
  <2>4. (sc \o sh) \o sd = sc \o (sh \o sd)
    BY <2>3, ConcatAssociative, SMTT(30)
  <2> QED BY <2>1, <2>3, <2>4, <1>1, <1>5 DEF Retiring
<1>9. UNCHANGED openVars
  BY <1>2, <1>8, SameAwaiting DEF openVars
<1>10. Open!IInv' /\ OpenStep /\ TrackedOnce' /\ EachOnce'
  BY <1>2, <1>9, UnseenKeepsIInv, SamePlaces DEF BackInv, robVars, TrackedOnce
<1>11. TrackerIsAhead'
  <2>1. \A p \in Ports : HasTicked(p)' = HasTicked(p)
    BY <1>2 DEF HasTicked
  <2>2. execDeps.ready = {}
    BY <1>2 DEF BackInv, TrackerIsAhead, AfterDeps
  <2> QED BY <2>1, <2>2, <1>2, SameTracker DEF BackInv
<1>12. RetiresNext'
  <2>1. PICK m : m = Open!NumReleased
    OBVIOUS
  <2>2. Open!NumReleased' = m /\ m \in Nat
    BY <2>1, <1>2, RetirementBounds DEF Open!NumReleased, Open!NumLive, robVars
  <2>3. ASSUME NEW k \in 1 .. Len(d)
        PROVE  d[k].uop = renamed[m + Len(c2) + k].id
    <3>1. k + 1 \in 1 .. Len(r) /\ d[k] = r[k + 1]
      BY <1>7
    <3>2. r[k + 1].uop = renamed[m + Len(c) + (k + 1)].id
      BY <3>1, <2>1, <1>1 DEF BackInv, RetiresNext, NumRetired
    <3>3. m + Len(c) + (k + 1) = m + Len(c2) + k
      BY <2>2, <1>6
    <3> QED BY <3>1, <3>2, <3>3
  <2> QED BY <2>2, <2>3, <1>1, <1>2, <1>5 DEF RetiresNext, NumRetired
<1>13. BackTypeOK'
  BY <1>2, <1>4, <1>6 DEF BackInv, BackTypeOK
<1>14. /\ NumRetired' = NumRetired + 1 /\ NumRetired + 1 \in 1 .. Len(renamed)
       /\ h.uop = renamed[NumRetired + 1].id
  <2>1. PICK m : m = Open!NumReleased
    OBVIOUS
  <2>2. /\ Open!NumReleased' = m /\ m \in Nat /\ Len(renamed) \in Nat
        /\ m + Len(c) + Len(r) <= Len(renamed)
    BY <2>1, <1>1, <1>2, RetirementBounds DEF Open!NumReleased, Open!NumLive, robVars
  <2>3. NumRetired = m + Len(c) /\ NumRetired' = m + Len(c2)
    BY <2>1, <2>2, <1>1, <1>5 DEF NumRetired
  <2>4. 1 \in 1 .. Len(r) /\ r[1] = h
    BY <1>4, <1>7, WithoutFirst
  <2>5. r[1].uop = renamed[NumRetired + 1].id
    BY <2>4, <1>1 DEF BackInv, RetiresNext
  <2>6. m + Len(c) + 1 \in 1 .. Len(renamed) /\ m + Len(c2) = m + Len(c) + 1
    BY <2>2, <1>6, <1>7
  <2> QED BY <2>3, <2>4, <2>5, <2>6
<1> QED BY <1>1, <1>10, <1>11, <1>12, <1>13, <1>14 DEF BackInv

LEMMA EndCycleKeepsBack ==
  ASSUME BackInv, EndCycle
  PROVE  BackInv' /\ OpenStep
<1>1. /\ UNCHANGED <<robVars, units, unit, phase, scan, renamed>>
      /\ pc = "propagate" /\ pc' \in {"fetcher", "done"}
      /\ portLinks' = [p \in Ports |-> LinkPropagated(portLinks[p])]
      /\ retireLink' = LinkPropagated(retireLink)
      /\ retiredLink' = LinkPropagated(retiredLink)
      /\ writebackLink' = LinkPropagated(writebackLink)
      /\ execDeps' = [pending |-> Aged(execDeps.pending) \ Executed(Aged(execDeps.pending)),
                      ready |-> execDeps.ready \cup Executed(Aged(execDeps.pending))]
  BY DEF EndCycle, Turn
<1>2. /\ retireLink' \in BuffersOf(Retirements) /\ retiredLink' \in BuffersOf(Retirements)
      /\ writebackLink' \in BuffersOf(Executions)
      /\ Contents(retireLink') = Contents(retireLink)
      /\ Contents(retiredLink') = Contents(retiredLink)
      /\ Contents(writebackLink') = Contents(writebackLink)
  BY <1>1, PropagatedContents DEF BackInv, BackTypeOK
<1>3. ~ AfterDeps' /\ AfterDeps /\ \A p \in Ports : HasTicked(p) /\ ~ HasTicked(p)'
  BY <1>1 DEF AfterDeps, HasTicked
<1>4. execDeps.ready = {} /\ \A p \in Ports : portLinks[p].fifo = << >>
  BY <1>3 DEF BackInv, TrackerIsAhead
<1>5. ASSUME NEW p \in Ports
      PROVE  /\ portLinks'[p] \in BuffersOf(Executions)
             /\ portLinks'[p].fifo = portLinks[p].pending
             /\ portLinks'[p].pending = << >>
  <2>1. portLinks[p] \in BuffersOf(Executions) /\ portLinks'[p] = LinkPropagated(portLinks[p])
    BY <1>1 DEF BackInv, BackTypeOK
  <2> QED BY <2>1, <1>4, PropagatedContents
<1>6. \A p \in Ports : /\ At("fifo", p)' = At("pending", p)
                       /\ At("pending", p)' = {}
                       /\ At("unit", p)' = At("unit", p)
                       /\ At("fifo", p) = {}
  <2>1. \A x : x \notin Range(<< >>)
    BY DEF Range
  <2> QED BY <2>1, <1>1, <1>4, <1>5 DEF At
<1>7. execDeps.pending \in SUBSET Executions
  BY DEF BackInv, BackTypeOK
<1>8. /\ Aged(execDeps.pending) \in SUBSET Executions
      /\ \A d : d \in Aged(execDeps.pending) <=> \E e \in execDeps.pending : d = OneOlder(e)
  BY <1>7, AgedIs
<1>9. /\ execDeps'.pending = Aged(execDeps.pending) \ execDeps'.ready
      /\ execDeps'.ready = {d \in Aged(execDeps.pending) : d.latency = 0}
      /\ execDeps' \in [pending : SUBSET Executions, ready : SUBSET Executions]
      /\ execDeps'.pending \cup execDeps'.ready = Aged(execDeps.pending)
  BY <1>1, <1>4, <1>8 DEF Executed
<1>10. BackTypeOK'
  <2>1. portLinks' \in [Ports -> BuffersOf(Executions)]
    BY <1>1, <1>5
  <2> QED BY <2>1, <1>1, <1>2, <1>9 DEF BackInv, BackTypeOK
<1>11. \A p \in Ports, x \in Places : \A a \in At(x, p)' :
         \/ x = "fifo" /\ a \in At("pending", p)
         \/ x = "unit" /\ a \in At("unit", p)
  BY <1>6 DEF Places
<1>12. EachOnce'
  <2>1. \A p, q \in Ports : \A x, y \in Places : \A a \in At(x, p)', b \in At(y, q)' :
          a.slot = b.slot => a = b /\ x = y /\ p = q
    <3> SUFFICES ASSUME NEW p \in Ports, NEW q \in Ports, NEW x \in Places, NEW y \in Places,
                        NEW a \in At(x, p)', NEW b \in At(y, q)', a.slot = b.slot
                 PROVE  a = b /\ x = y /\ p = q
      OBVIOUS
    <3>1. /\ (x = "fifo" /\ a \in At("pending", p)) \/ (x = "unit" /\ a \in At("unit", p))
          /\ (y = "fifo" /\ b \in At("pending", q)) \/ (y = "unit" /\ b \in At("unit", q))
      BY <1>11
    <3> QED BY <3>1 DEF BackInv, EachOnce, Places
  <2>2. \A j \in 1 .. Len(Contents(writebackLink)) :
          \A p \in Ports : \A x \in Places : \A a \in At(x, p)' :
            Contents(writebackLink)[j].slot # a.slot
    BY <1>11 DEF BackInv, EachOnce, Places
  <2> QED BY <2>1, <2>2, <1>2 DEF BackInv, EachOnce
<1>13. \A d \in Aged(execDeps.pending) : \E e \in execDeps.pending :
         /\ d = OneOlder(e) /\ d.slot = e.slot /\ e.latency \in Nat
         /\ d.latency = IF e.latency > 0 THEN e.latency - 1 ELSE 0
  BY <1>7, <1>8, OlderIs
<1>14. TrackedOnce'
  <2>1. ASSUME NEW d \in Aged(execDeps.pending), NEW f \in Aged(execDeps.pending),
               d.slot = f.slot
        PROVE  d = f
    <3>1. PICK e \in execDeps.pending : d = OneOlder(e) /\ d.slot = e.slot
      BY <1>13
    <3>2. PICK g \in execDeps.pending : f = OneOlder(g) /\ f.slot = g.slot
      BY <1>13
    <3>3. e = g
      BY <2>1, <3>1, <3>2 DEF BackInv, TrackedOnce
    <3> QED BY <3>1, <3>2, <3>3
  <2>2. \A d, f \in execDeps'.pending \cup execDeps'.ready : d.slot = f.slot => d = f
    BY <2>1, <1>9
  <2>3. execDeps'.pending \cap execDeps'.ready = {}
    BY <1>9
  <2> QED BY <2>2, <2>3 DEF TrackedOnce
<1>15. TrackerIsAhead'
  <2>1. ASSUME NEW d \in execDeps'.pending, NEW p \in Ports
        PROVE  /\ \A a \in At("fifo", p)' :
                    a.slot = d.slot => 1 <= d.latency /\ d.latency < a.latency
               /\ \A a \in At("unit", p)' :
                    a.slot = d.slot => 1 <= d.latency /\ d.latency < a.latency
    <3>1. d \in Aged(execDeps.pending) /\ d.latency # 0
      BY <1>9
    <3>2. PICK e \in execDeps.pending :
            /\ d.slot = e.slot /\ e.latency \in Nat
            /\ d.latency = IF e.latency > 0 THEN e.latency - 1 ELSE 0
      BY <3>1, <1>13
    <3>3. 1 <= d.latency /\ d.latency = e.latency - 1
      BY <3>1, <3>2
    <3>4. /\ \A a \in At("pending", p) : a.slot = e.slot => e.latency <= a.latency
          /\ \A a \in At("unit", p) : a.slot = e.slot => e.latency <= a.latency
      BY <1>3 DEF BackInv, TrackerIsAhead
    <3>5. /\ \A a \in At("pending", p) : a.latency \in Nat
          /\ \A a \in At("unit", p) : a.latency \in Nat
      BY PlaceTypes DEF BackInv, Places, Executions
    <3>6. \A a \in At("pending", p) :
            a.slot = d.slot => 1 <= d.latency /\ d.latency < a.latency
      BY <3>2, <3>3, <3>4, <3>5
    <3>7. \A a \in At("unit", p) :
            a.slot = d.slot => 1 <= d.latency /\ d.latency < a.latency
      BY <3>2, <3>3, <3>4, <3>5
    <3> QED BY <3>6, <3>7, <1>6
  <2>2. \A j \in 1 .. Len(Contents(writebackLink)) :
          \A d \in execDeps'.pending \cup execDeps'.ready :
            Contents(writebackLink)[j].slot # d.slot
    BY <1>9, <1>13 DEF BackInv, TrackerIsAhead
  <2>3. \A p \in Ports : \A a \in At("pending", p)' : FALSE
    BY <1>6
  <2> QED BY <2>1, <2>2, <2>3, <1>2, <1>3 DEF TrackerIsAhead
<1>16. UNCHANGED openVars
  <2>1. Retiring' = Retiring
    BY <1>2 DEF Retiring
  <2>2. \A i : IsTracked(i)' <=> IsTracked(i)
    <3>1. \A i : IsTracked(i)' <=> \E d \in Aged(execDeps.pending) : d.slot = i
      BY <1>9 DEF IsTracked
    <3>2. \A e \in execDeps.pending : \E d \in Aged(execDeps.pending) : d.slot = e.slot
      BY <1>7, <1>8, OlderIs
    <3>3. \A i : IsTracked(i) <=> \E e \in execDeps.pending : e.slot = i
      BY <1>4 DEF IsTracked
    <3> QED BY <3>1, <3>2, <3>3, <1>13
  <2>3. \A i : IsIn(i)' <=> IsIn(i)
    <3>1. \A i : IsIn(i)' => IsIn(i)
      BY <1>11 DEF IsIn, Places
    <3>2. \A p \in Ports, y \in Places : \A a \in At(y, p) :
            \E x \in Places : a \in At(x, p)'
      BY <1>6 DEF Places
    <3>3. \A i : IsIn(i) => IsIn(i)'
      BY <3>2 DEF IsIn
    <3> QED BY <3>1, <3>3
  <2>4. \A i : IsWritten(i)' <=> IsWritten(i)
    BY <1>2 DEF IsWritten
  <2>5. /\ \A j : j \in AwaitingDeps <=> IsTracked(j)
        /\ \A j : j \in AwaitingWriteback <=> IsIn(j) \/ IsWritten(j)
    BY Awaiting DEF BackInv
  <2>6. /\ \A j : j \in AwaitingDeps' <=> IsTracked(j)'
        /\ \A j : j \in AwaitingWriteback' <=> IsIn(j)' \/ IsWritten(j)'
    BY <1>10, AwaitingStep DEF AwaitingIs
  <2>7. AwaitingDeps' = AwaitingDeps
    <3>1. \A j : j \in AwaitingDeps' <=> j \in AwaitingDeps
      BY <2>2, <2>5, <2>6
    <3> QED BY <3>1
  <2>8. AwaitingWriteback' = AwaitingWriteback
    <3>1. \A j : j \in AwaitingWriteback' <=> j \in AwaitingWriteback
      BY <2>3, <2>4, <2>5, <2>6
    <3> QED BY <3>1
  <2> QED BY <2>1, <2>7, <2>8, <1>1 DEF openVars
<1>17. Open!IInv' /\ OpenStep
  BY <1>16, UnseenKeepsIInv DEF BackInv
<1>18. RetiresNext'
  BY <1>1, <1>2 DEF BackInv, RetiresNext, NumRetired, Open!NumReleased, Open!NumLive, robVars
<1> QED BY <1>10, <1>12, <1>14, <1>15, <1>17, <1>18 DEF BackInv

-----------------------------------------------------------------------------
(* The invariant.                                                          *)

LEMMA InitBack == Init => BackInv /\ Open!Init
<1> SUFFICES ASSUME Init PROVE BackInv /\ Open!Init
  OBVIOUS
<1>1. /\ CoreInit /\ portLinks = [p \in Ports |-> EmptyBuffer]
      /\ retireLink = EmptyBuffer /\ retiredLink = EmptyBuffer
      /\ writebackLink = EmptyBuffer /\ execDeps = [pending |-> {}, ready |-> {}]
      /\ units = [p \in Ports |-> {}] /\ unit = 0
      /\ phase = "delete" /\ scan = 0 /\ renamed = << >> /\ pc = "fetcher"
  BY DEF Init
<1>2. /\ \A S : EmptyBuffer \in BuffersOf(S)
      /\ Contents(EmptyBuffer) = << >>
      /\ EmptyBuffer.fifo = << >> /\ EmptyBuffer.pending = << >>
  BY EmptyBuffers DEF EmptyBuffer
<1>3. /\ Contents(retireLink) = << >> /\ Contents(retiredLink) = << >>
      /\ Contents(writebackLink) = << >>
      /\ \A p \in Ports : portLinks[p] = EmptyBuffer /\ units[p] = {}
      /\ Range(<< >>) = {}
  <2>1. \A x : x \notin Range(<< >>)
    BY DEF Range
  <2> QED BY <2>1, <1>1, <1>2
<1>4. 0 \in Ports
  BY PortNumbers
<1>5. BackTypeOK
  BY <1>1, <1>2, <1>3, <1>4 DEF BackTypeOK
<1>6. \A p \in Ports, x \in Places : At(x, p) = {}
  BY <1>2, <1>3 DEF At, Places
<1>7. EachOnce
  BY <1>3, <1>6 DEF EachOnce
<1>8. TrackedOnce
  BY <1>1 DEF TrackedOnce
<1>9. TrackerIsAhead
  BY <1>1, <1>3, <1>6 DEF TrackerIsAhead, HasTicked
<1>10. RetiresNext
  BY <1>3 DEF RetiresNext, NumRetired
<1>11. Open!Init
  <2>1. Retiring = << >>
    <3>1. SlotsOf(<< >>) = << >>
      BY DEF SlotsOf
    <3>2. << >> \in Seq(Slots)
      BY EmptySeq
    <3>3. << >> \o << >> = << >>
      BY <3>2, ConcatEmptySeq
    <3> QED BY <3>1, <3>3, <1>3 DEF Retiring
  <2>2. AwaitingDeps = {}
    BY <1>1 DEF AwaitingDeps, SlotSet
  <2>3. AwaitingWriteback = {}
    <3>1. \A i : ~ IsIn(i) /\ ~ IsWritten(i)
      BY <1>3, <1>6 DEF IsIn, IsWritten
    <3> QED BY <3>1, <1>5, Awaiting
  <2>4. Open!CoreInit
    BY <1>1 DEF CoreInit, Open!CoreInit, EmptyEntry, Open!EmptyEntry, Slots, Open!Slots,
       NoEntry, Open!NoEntry
  <2> QED BY <2>1, <2>2, <2>3, <2>4, <1>1 DEF Open!Init
<1>12. Open!IInv
  BY <1>11, Open!InitIInv, NumROBEntriesAssumption
<1> QED BY <1>5, <1>7, <1>8, <1>9, <1>10, <1>11, <1>12 DEF BackInv

LEMMA NextBack ==
  ASSUME FrontInv, BackInv, [Next]_vars
  PROVE  BackInv' /\ OpenStep
<1>1. CASE \/ FetchNextIteration \/ FetchInstruction \/ FetchEnd
           \/ ParseInstruction \/ ParseEnd \/ DecodeInstruction \/ DecodeEnd
           \/ FlushPending \/ RenameUop \/ RenameEnd
  BY <1>1, FrontStepsKeepBack
<1>2. CASE DeleteRetired
  BY <1>2, DeleteRetiredKeepsBack
<1>3. CASE ReadNewUop
  BY <1>3, ReadNewUopKeepsBack
<1>4. CASE OutputsAvailable
  BY <1>4, OutputsAvailableKeepsBack
<1>5. CASE WrittenBack
  BY <1>5, WrittenBackKeepsBack
<1>6. CASE VisitPortless
  BY <1>6, VisitPortlessKeepsBack
<1>7. CASE VisitIssue
  BY <1>7, VisitIssueKeepsBack
<1>8. CASE VisitSkip
  BY <1>8, VisitSkipKeepsBack
<1>9. CASE SendForRetirement
  BY <1>9, SendForRetirementKeepsBack
<1>10. CASE NextLoop
  BY <1>10, NextLoopKeepsBack
<1>11. CASE UnitRead
  BY <1>11, UnitReadKeepsBack
<1>12. CASE UnitWriteBack
  BY <1>12, UnitWriteBackKeepsBack
<1>13. CASE UnitEnd
  BY <1>13, UnitEndKeepsBack
<1>14. CASE RetireUop
  BY <1>14, RetireUopKeepsBack
<1>15. CASE EndCycle
  BY <1>15, EndCycleKeepsBack
<1>16. CASE RetireEnd \/ Done \/ UNCHANGED vars
  BY <1>16, EndsKeepBack
<1> QED BY <1>1, <1>2, <1>3, <1>4, <1>5, <1>6, <1>7, <1>8, <1>9, <1>10, <1>11, <1>12,
          <1>13, <1>14, <1>15, <1>16 DEF Next

\* The invariants of the reorder buffer, of the entries that the components
\* around it hold.
ROBIsSound ==
  /\ Open!LiveWindow
  /\ Open!InOrderRetirement
  /\ Open!InFlightMatchesState
  /\ Open!DependencyGraph

\* In the pipeline the buffer never loses, repeats or reorders a uop, retires in
\* program order and keeps its dependencies mirrored, and the entries that the
\* links, the units, the tracker and the retirement station hold are those that
\* its states say: whatever the widths, the latencies and the capacities are.
THEOREM PipelineIsSound ==
  ASSUME NoUop \notin RenamedUops
  PROVE  Spec => []ROBIsSound
<1>1. FrontInv /\ BackInv /\ [Next]_vars => FrontInv' /\ BackInv'
  BY NextFront, NextBack
<1>2. Init => FrontInv /\ BackInv
  BY InitFront, InitBack
<1>3. BackInv => ROBIsSound
  BY DEF BackInv, Open!IInv, ROBIsSound
<1> QED BY <1>1, <1>2, <1>3, PTL DEF Spec

\* Every component keeps to the use of the reorder buffer that its own model
\* assumes: each step of the pipeline is one of the buffer's loop, the arrival
\* of a uop, or does not touch it.
THEOREM PipelineKeepsContract ==
  ASSUME NoUop \notin RenamedUops
  PROVE  Spec =>
           /\ Open!Init
           /\ [][Open!LoopStep \/ \E u \in Open!Arrivals : Open!ReadNewUop(u)]_(Open!vars)
<1>1. FrontInv /\ BackInv /\ [Next]_vars => FrontInv' /\ BackInv' /\ OpenStep
  BY NextFront, NextBack
<1>2. Init => FrontInv /\ BackInv /\ Open!Init
  BY InitFront, InitBack
<1> QED BY <1>1, <1>2, PTL DEF Spec, OpenStep

-----------------------------------------------------------------------------
(* Counting iterations.                                                    *)

\* Multiples of N are N apart.
LEMMA Times ==
  ASSUME NEW N \in Nat \ {0}, NEW p \in Int, NEW q \in Int, p < q
  PROVE  N * p + N <= N * q /\ N * p \in Int /\ N * q \in Int
<1>1. PICK d \in Int : q = p + d /\ d >= 1
  <2>1. q = p + (q - p) /\ q - p >= 1 /\ q - p \in Int
    OBVIOUS
  <2> QED BY <2>1
<1>2. N * q = N * p + N * d
  BY <1>1
<1>3. N * d >= N
  BY <1>1
<1> QED BY <1>2, <1>3

\* Quotient and remainder.
LEMMA DivIs ==
  ASSUME NEW N \in Nat \ {0}, NEW n \in Nat
  PROVE  /\ n \div N \in Nat /\ (n % N) \in 0 .. N - 1
         /\ n = N * (n \div N) + (n % N)
OBVIOUS

\* The quotient grows at the last number of each group of N.
LEMMA NextDiv ==
  ASSUME NEW N \in Nat \ {0}, NEW n \in Nat
  PROVE  (n + 1) \div N = IF (n % N) = N - 1 THEN (n \div N) + 1 ELSE n \div N
<1>1. PICK q, r, q2, r2 : /\ q = n \div N /\ r = (n % N)
                          /\ q2 = (n + 1) \div N /\ r2 = ((n + 1) % N)
  OBVIOUS
<1>2. /\ q \in Int /\ q2 \in Int /\ r \in 0 .. N - 1 /\ r2 \in 0 .. N - 1
      /\ n = N * q + r /\ n + 1 = N * q2 + r2
  BY <1>1, DivIs
<1>3. PICK x, y : x = N * q /\ y = N * q2
  OBVIOUS
<1>4. /\ q < q2 => x + N <= y
      /\ q2 < q => y + N <= x
      /\ q + 1 < q2 => x + N + N <= y
      /\ x \in Int /\ y \in Int
  <2>1. N * (q + 1) = N * q + N
    BY <1>2
  <2> QED BY <2>1, <1>2, <1>3, Times
<1>5. x + r + 1 = y + r2
  BY <1>2, <1>3
<1>6. q2 = q \/ q2 = q + 1
  BY <1>2, <1>4, <1>5
<1>7. (q2 = q => x = y) /\ (q2 = q + 1 => y = x + N)
  BY <1>2, <1>3
<1>8. q2 = IF r = N - 1 THEN q + 1 ELSE q
  BY <1>2, <1>4, <1>5, <1>6, <1>7
<1> QED BY <1>1, <1>8

\* The positions of the last instructions of iterations among m instructions
\* that begin with number b, when there are N in an iteration.
Ends(N, b, m) == {j \in 1 .. m : ((b + j - 1) % N) = N - 1}

\* There are as many of them as the quotient grows.
LEMMA CountEnds ==
  ASSUME NEW N \in Nat \ {0}, NEW b \in Nat, NEW m \in Nat
  PROVE  Cardinality(Ends(N, b, m)) = ((b + m) \div N) - (b \div N)
<1> DEFINE Counts(k) == /\ IsFiniteSet(Ends(N, b, k))
                        /\ Cardinality(Ends(N, b, k)) = ((b + k) \div N) - (b \div N)
           Wrong == {k \in 0 .. m : ~ Counts(k)}
<1>1. Counts(0)
  <2>1. Ends(N, b, 0) = {}
    BY DEF Ends
  <2>2. b + 0 = b /\ b \div N \in Nat
    BY DivIs
  <2>3. ((b + 0) \div N) - (b \div N) = 0
    BY <2>2
  <2> QED BY <2>1, <2>3, FS_EmptySet
<1>2. ASSUME NEW k \in Nat, Counts(k) PROVE Counts(k + 1)
  <2>1. PICK E, E2 : E = Ends(N, b, k) /\ E2 = Ends(N, b, k + 1)
    OBVIOUS
  <2>2. E2 = IF ((b + k) % N) = N - 1 THEN E \cup {k + 1} ELSE E
    <3>1. \A j : j \in E2 <=> j \in E \/ (j = k + 1 /\ ((b + k) % N) = N - 1)
      <4>1. \A j : j \in E2 <=> j \in 1 .. k + 1 /\ ((b + j - 1) % N) = N - 1
        BY <2>1 DEF Ends
      <4>2. \A j : j \in E <=> j \in 1 .. k /\ ((b + j - 1) % N) = N - 1
        BY <2>1 DEF Ends
      <4>3. b + (k + 1) - 1 = b + k
        OBVIOUS
      <4>4. \A j : j \in 1 .. k + 1 <=> j \in 1 .. k \/ j = k + 1
        OBVIOUS
      <4> QED BY <4>1, <4>2, <4>3, <4>4
    <3> QED BY <3>1
  <2>3. k + 1 \notin E
    BY <2>1 DEF Ends
  <2>4. IsFiniteSet(E2) /\ Cardinality(E) \in Nat
        /\ Cardinality(E2) = IF ((b + k) % N) = N - 1 THEN Cardinality(E) + 1
                             ELSE Cardinality(E)
    BY <1>2, <2>1, <2>2, <2>3, FS_AddElement, FS_CardinalityType
  <2>5. PICK q, r : q = (b + k) \div N /\ r = b \div N
    OBVIOUS
  <2>6. /\ q \in Nat /\ r \in Nat
        /\ (b + (k + 1)) \div N = IF ((b + k) % N) = N - 1 THEN q + 1 ELSE q
    <3>1. b + (k + 1) = (b + k) + 1 /\ b + k \in Nat
      OBVIOUS
    <3> QED BY <3>1, <2>5, NextDiv, DivIs
  <2>7. Cardinality(E) = q - r
    BY <1>2, <2>1, <2>5
  <2>8. Cardinality(E2) = ((b + (k + 1)) \div N) - r
    BY <2>4, <2>6, <2>7
  <2> QED BY <2>1, <2>4, <2>5, <2>8
<1>3. Wrong = {}
  <2> SUFFICES ASSUME Wrong # {} PROVE FALSE
    OBVIOUS
  <2>1. PICK W : W = Wrong
    OBVIOUS
  <2>2. PICK s \in W : \A e \in W : s <= e
    <3>1. W \in SUBSET Nat /\ W # {}
      BY <2>1
    <3> QED BY <3>1, SmallestExists
  <2>3. s \in 0 .. m /\ ~ Counts(s)
    BY <2>1
  <2>4. s # 0
    BY <2>3, <1>1
  <2>5. s - 1 \in 0 .. m /\ s - 1 \in Nat /\ ~ (s <= s - 1) /\ (s - 1) + 1 = s
    BY <2>3, <2>4
  <2>6. Counts(s - 1)
    BY <2>1, <2>2, <2>5
  <2>7. PICK t \in Nat : t = s - 1 /\ t + 1 = s
    BY <2>5
  <2>8. Counts(t + 1)
    BY <2>6, <2>7, <1>2
  <2> QED BY <2>3, <2>7, <2>8
<1>4. m \in 0 .. m
  OBVIOUS
<1>5. Counts(m)
  BY <1>3, <1>4
<1> QED BY <1>5

-----------------------------------------------------------------------------
(* The sink of the simulator.                                              *)

\* How many instructions have gone through the retirement station.
NumFinished ==
  IF NumRetired = 0 THEN 0
  ELSE IF EndsInstr(block, renamed[NumRetired].id)
       THEN renamed[NumRetired].id.instr + 1 ELSE renamed[NumRetired].id.instr

\* The sink holds the last of them, and the iterations that they end are
\* counted up to the first of these.
SinkInv ==
  /\ instructionSink \in Seq(Nat)
  /\ Len(instructionSink) <= NumFinished
  /\ CountsFrom(instructionSink, NumFinished - Len(instructionSink))
  /\ IF pc = "done" THEN instructionSink = << >>
     ELSE numIterations = (NumFinished - Len(instructionSink)) \div NumInstrs

LEMMA FinishedIs ==
  ASSUME FrontInv, BackInv
  PROVE  /\ NumRetired \in Nat /\ NumRetired <= Len(renamed) /\ Len(renamed) \in Nat
         /\ NumFinished \in Nat /\ NumInstrs \in Nat \ {0}
<1>1. NumRetired \in Nat /\ NumRetired <= Len(renamed) /\ Len(renamed) \in Nat
  BY RetirementBounds DEF NumRetired
<1>2. NumInstrs \in Nat \ {0}
  BY ReadTrace, InstrsOfBlock DEF NumInstrs
<1>3. NumRetired # 0 => renamed[NumRetired].id.instr \in Nat
  <2> SUFFICES ASSUME NumRetired # 0 PROVE renamed[NumRetired].id.instr \in Nat
    OBVIOUS
  <2>1. NumRetired \in 1 .. Len(renamed)
    BY <1>1
  <2> QED BY <2>1, ReadTrace DEF UopIds
<1>4. NumFinished \in Nat
  BY <1>3 DEF NumFinished
<1> QED BY <1>1, <1>2, <1>4

\* A step that retires nothing.
LEMMA SinkStays ==
  ASSUME FrontInv, BackInv, SinkInv, UNCHANGED simVars, NumRetired' = NumRetired,
         \A k \in 1 .. NumRetired : renamed'[k] = renamed[k],
         pc = "done" <=> pc' = "done"
  PROVE  SinkInv'
<1>1. NumRetired # 0 => NumRetired \in 1 .. NumRetired
  BY FinishedIs
<1>2. NumFinished' = NumFinished
  BY <1>1 DEF NumFinished, simVars
<1> QED BY <1>2 DEF SinkInv, simVars, NumInstrs

LEMMA RetireUopKeepsSink ==
  ASSUME FrontInv, BackInv, SinkInv, RetireUop
  PROVE  SinkInv'
<1>1. PICK id, P : id = Head(retireLink.fifo).uop /\ P = NumRetired
  OBVIOUS
<1>2. /\ UNCHANGED <<block, numIterations, renamed, pc>> /\ pc = "retirer"
      /\ instructionSink' = IF IsLastUop(InstrAt(id.instr), id)
                            THEN Append(instructionSink, id.instr) ELSE instructionSink
  BY <1>1 DEF RetireUop
<1>3. NumRetired' = P + 1 /\ P + 1 \in 1 .. Len(renamed) /\ id = renamed[P + 1].id
  BY <1>1, RetireUopKeepsBack
<1>4. P \in Nat /\ Len(renamed) \in Nat /\ NumFinished \in Nat
  BY <1>1, FinishedIs
<1>5. id.instr \in Nat
  BY <1>3, ReadTrace DEF UopIds
<1>6. id.instr = NumFinished
  <2>1. CASE P = 0
    <3>1. renamed # << >> /\ renamed[P + 1] = renamed[1]
      BY <2>1, <1>3, ReadTrace, EmptySeq
    <3>2. renamed[1].id = [instr |-> 0, index |-> 0]
      BY <3>1, ReadTrace
    <3> QED BY <2>1, <3>1, <3>2, <1>1, <1>3 DEF NumFinished
  <2>2. CASE P # 0
    <3>1. P \in 1 .. Len(renamed) - 1
      BY <2>2, <1>3, <1>4
    <3>2. Follows(block, renamed[P].id, id)
      BY <3>1, <1>3, ReadTrace
    <3> QED BY <2>2, <3>2, <1>1 DEF NumFinished, Follows
  <2> QED BY <2>1, <2>2
<1>7. IsLastUop(InstrAt(id.instr), id) <=> EndsInstr(block, id)
  BY SameInstr DEF IsLastUop, EndsInstr
<1>8. NumFinished' = IF EndsInstr(block, id) THEN NumFinished + 1 ELSE NumFinished
  <2>1. NumRetired' # 0
    BY <1>3, <1>4
  <2> QED BY <2>1, <1>2, <1>3, <1>6 DEF NumFinished
<1>9. PICK s, s2, n : s = instructionSink /\ s2 = instructionSink' /\ n = NumFinished
  OBVIOUS
<1>10. s \in Seq(Nat) /\ Len(s) \in Nat /\ Len(s) <= n /\ CountsFrom(s, n - Len(s))
  BY <1>9, LenProperties DEF SinkInv
<1>11. CASE EndsInstr(block, id)
  <2>1. s2 = Append(s, n) /\ NumFinished' = n + 1
    BY <1>2, <1>6, <1>7, <1>8, <1>9, <1>11
  <2>2. /\ s2 \in Seq(Nat) /\ Len(s2) = Len(s) + 1 /\ s2[Len(s) + 1] = n
        /\ \A k \in 1 .. Len(s) : s2[k] = s[k]
    BY <2>1, <1>4, <1>9, <1>10, AppendProperties
  <2>3. PICK d \in Nat : /\ d = n - Len(s) /\ d = (n + 1) - Len(s2)
                         /\ d + (Len(s) + 1) - 1 = n
    BY <2>2, <1>4, <1>9, <1>10
  <2>4. Len(s2) <= n + 1
    BY <2>2, <1>4, <1>9, <1>10
  <2>5. \A k \in 1 .. Len(s2) : s2[k] = d + k - 1
    <3>1. \A k \in 1 .. Len(s) : s[k] = d + k - 1
      BY <2>3, <1>10 DEF CountsFrom
    <3>2. \A k \in 1 .. Len(s2) : k \in 1 .. Len(s) \/ k = Len(s) + 1
      BY <2>2, <1>10
    <3> QED BY <3>1, <3>2, <2>2, <2>3
  <2>6. CountsFrom(s2, (n + 1) - Len(s2))
    BY <2>3, <2>5 DEF CountsFrom
  <2>7. numIterations = d \div NumInstrs
    BY <2>3, <1>2, <1>9 DEF SinkInv
  <2>8. numIterations' = ((n + 1) - Len(s2)) \div NumInstrs' /\ pc' # "done"
    <3>1. NumInstrs' = NumInstrs
      BY <1>2 DEF NumInstrs
    <3> QED BY <3>1, <2>3, <2>7, <1>2
  <2>9. CountsFrom(instructionSink, NumFinished - Len(instructionSink))'
    BY <2>1, <2>6, <1>9
  <2> QED BY <2>1, <2>2, <2>4, <2>8, <2>9, <1>9 DEF SinkInv
<1>12. CASE ~ EndsInstr(block, id)
  BY <1>2, <1>7, <1>8, <1>12 DEF SinkInv, NumInstrs
<1> QED BY <1>11, <1>12

\* The iterations that finish in a cycle.
LEMMA FinishedInCycle ==
  ASSUME FrontInv, BackInv, SinkInv, NEW k \in 1 .. Len(instructionSink) + 1
  PROVE  Cardinality(FinishedBefore(k)) =
           ((NumFinished - Len(instructionSink) + (k - 1)) \div NumInstrs)
             - ((NumFinished - Len(instructionSink)) \div NumInstrs)
<1>1. PICK s, b, N, m : /\ s = instructionSink /\ b = NumFinished - Len(s)
                        /\ N = NumInstrs /\ m = k - 1
  OBVIOUS
<1>2. /\ Len(s) \in Nat /\ b \in Nat /\ N \in Nat \ {0} /\ m \in Nat
      /\ m <= Len(s) /\ \A j \in 1 .. Len(s) : s[j] = b + j - 1
  BY <1>1, FinishedIs, LenProperties DEF SinkInv, CountsFrom
<1>3. FinishedBefore(k) = {j \in 1 .. m : (s[j] % N) = N - 1}
  BY <1>1 DEF FinishedBefore, EndsIteration
<1>4. \A j \in 1 .. m : s[j] = b + j - 1
  BY <1>2
<1>5. FinishedBefore(k) = Ends(N, b, m)
  BY <1>3, <1>4 DEF Ends
<1>6. Cardinality(Ends(N, b, m)) = ((b + m) \div N) - (b \div N)
  BY <1>2, CountEnds
<1> QED BY <1>1, <1>5, <1>6

LEMMA EndCycleKeepsSink ==
  ASSUME FrontInv, BackInv, SinkInv, EndCycle
  PROVE  SinkInv'
<1>1. /\ UNCHANGED <<robVars, renamed, block>> /\ pc = "propagate"
      /\ retiredLink' = LinkPropagated(retiredLink)
      /\ instructionSink' = << >>
      /\ \/ pc' = "done"
         \/ numIterations' = numIterations + Cardinality(Finished)
  BY DEF EndCycle, Turn
<1>2. Contents(retiredLink') = Contents(retiredLink)
  BY <1>1, PropagatedContents DEF BackInv, BackTypeOK
<1>3. NumFinished' = NumFinished
  BY <1>1, <1>2 DEF NumFinished, NumRetired, Open!NumReleased, Open!NumLive, robVars
<1>4. /\ << >> \in Seq(Nat) /\ Len(<< >>) = 0
  BY EmptySeq
<1>5. /\ instructionSink' \in Seq(Nat) /\ Len(instructionSink') = 0
      /\ NumFinished \in Nat /\ NumInstrs \in Nat \ {0}
  BY <1>1, <1>4, FinishedIs
<1>6. CountsFrom(instructionSink, NumFinished - Len(instructionSink))'
  BY <1>5 DEF CountsFrom
<1>7. ASSUME pc' # "done"
      PROVE  numIterations' = NumFinished \div NumInstrs
  <2>1. PICK l, n, N : l = Len(instructionSink) /\ n = NumFinished /\ N = NumInstrs
    OBVIOUS
  <2>2. l \in Nat /\ l <= n /\ n \in Nat /\ N \in Nat \ {0}
    BY <2>1, <1>5, LenProperties DEF SinkInv
  <2>3. l + 1 \in 1 .. l + 1
    BY <2>2
  <2>4. Cardinality(Finished) = ((n - l + ((l + 1) - 1)) \div N) - ((n - l) \div N)
    BY <2>1, <2>3, FinishedInCycle DEF Finished
  <2>5. numIterations = (n - l) \div N
    BY <2>1, <1>1 DEF SinkInv
  <2>6. n - l + ((l + 1) - 1) = n /\ n - l \in Nat
    BY <2>2
  <2>7. n \div N \in Nat /\ (n - l) \div N \in Nat
    BY <2>2, <2>6, DivIs
  <2> QED BY <2>1, <2>4, <2>5, <2>6, <2>7, <1>1, <1>7
<1>8. NumFinished - 0 = NumFinished /\ 0 <= NumFinished
  BY <1>5
<1> QED BY <1>1, <1>3, <1>5, <1>6, <1>7, <1>8 DEF SinkInv, NumInstrs

LEMMA InitSink == Init /\ FrontInv /\ BackInv => SinkInv
<1> SUFFICES ASSUME Init, FrontInv, BackInv PROVE SinkInv
  OBVIOUS
<1>1. /\ renamed = << >> /\ instructionSink = << >> /\ numIterations = 0
      /\ pc = "fetcher"
  BY DEF Init
<1>2. << >> \in Seq(Nat) /\ Len(<< >>) = 0
  BY EmptySeq
<1>3. NumRetired = 0 /\ NumInstrs \in Nat \ {0}
  BY <1>1, <1>2, FinishedIs
<1>4. NumFinished = 0
  BY <1>3 DEF NumFinished
<1>5. 0 \div NumInstrs = 0 /\ 0 - 0 = 0
  BY <1>3
<1> QED BY <1>1, <1>2, <1>4, <1>5 DEF SinkInv, CountsFrom

LEMMA NextSink ==
  ASSUME FrontInv, BackInv, SinkInv, [Next]_vars
  PROVE  SinkInv'
<1>1. CASE DeleteRetired
  <2>1. NumRetired' = NumRetired
    BY <1>1, DeleteRetiredKeepsBack
  <2>2. UNCHANGED <<simVars, renamed, pc>>
    BY <1>1 DEF DeleteRetired, InLoop, outsideROB
  <2> QED BY <2>1, <2>2, SinkStays
<1>2. CASE ReadNewUop
  <2>1. /\ NumRetired' = NumRetired
        /\ \A k \in 1 .. NumRetired : renamed'[k] = renamed[k]
    BY <1>2, ReadNewUopKeepsBack
  <2>2. UNCHANGED <<simVars, pc>>
    BY <1>2 DEF ReadNewUop, InLoop, outsideROB
  <2> QED BY <2>1, <2>2, SinkStays
<1>3. CASE RetireUop
  BY <1>3, RetireUopKeepsSink
<1>4. CASE EndCycle
  BY <1>4, EndCycleKeepsSink
<1>5. ASSUME UNCHANGED <<simVars, renamed, numEmpty, retiredLink>>,
             pc = "done" <=> pc' = "done"
      PROVE  SinkInv'
  <2>1. NumRetired' = NumRetired
    BY <1>5 DEF NumRetired, Open!NumReleased, Open!NumLive
  <2> QED BY <2>1, <1>5, SinkStays
<1>6. CASE \/ FetchNextIteration \/ FetchInstruction \/ FetchEnd
           \/ ParseInstruction \/ ParseEnd \/ DecodeInstruction \/ DecodeEnd
  <2>1. /\ UNCHANGED <<simVars, renamed, numEmpty, retiredLink>>
        /\ pc # "done" /\ pc' # "done"
    BY <1>6 DEF FetchNextIteration, FetchInstruction, FetchEnd, ParseInstruction,
       ParseEnd, DecodeInstruction, DecodeEnd, Turn, robVars, backVars
  <2> QED BY <2>1, <1>5
<1>7. CASE FlushPending \/ RenameUop \/ RenameEnd
  <2>1. /\ UNCHANGED <<simVars, renamed, numEmpty, retiredLink>>
        /\ pc # "done" /\ pc' # "done"
    BY <1>7 DEF FlushPending, RenameUop, RenameEnd, Turn, robVars, backVars
  <2> QED BY <2>1, <1>5
<1>8. CASE \/ OutputsAvailable \/ WrittenBack \/ VisitPortless \/ VisitIssue \/ VisitSkip
           \/ SendForRetirement
  <2>1. /\ UNCHANGED <<simVars, renamed, numEmpty, retiredLink>>
        /\ pc # "done" /\ pc' # "done"
    BY <1>8 DEF OutputsAvailable, WrittenBack, VisitPortless, VisitIssue, VisitSkip,
       SendForRetirement, InLoop, outsideROB, CoreOutputsAvailable, CoreWrittenBack,
       CoreExecuteWithoutPort, CoreIssue, CoreSendForRetirement, IsVisiting, robVars
  <2> QED BY <2>1, <1>5
<1>9. CASE NextLoop \/ UnitRead \/ UnitWriteBack \/ UnitEnd \/ RetireEnd
  <2>1. /\ UNCHANGED <<simVars, renamed, numEmpty, retiredLink>>
        /\ pc # "done" /\ pc' # "done"
    BY <1>9 DEF NextLoop, UnitRead, UnitWriteBack, UnitEnd, RetireEnd, Turn, robVars,
       backVars
  <2> QED BY <2>1, <1>5
<1>10. CASE Done \/ UNCHANGED vars
  <2>1. UNCHANGED <<simVars, renamed, numEmpty, retiredLink, pc>>
    BY <1>10 DEF Done, vars, robVars, backVars
  <2> QED BY <2>1, <1>5
<1> QED BY <1>1, <1>2, <1>3, <1>4, <1>6, <1>7, <1>8, <1>9, <1>10 DEF Next

LEMMA SinkIsInOrder ==
  ASSUME FrontInv, BackInv, SinkInv
  PROVE  IterationsInOrder
<1> SUFFICES ASSUME NEW k \in Finished
             PROVE  instructionSink[k] \div NumInstrs =
                      numIterations + Cardinality(FinishedBefore(k))
  BY DEF IterationsInOrder
<1>1. PICK s, l, n, N : /\ s = instructionSink /\ l = Len(s)
                        /\ n = NumFinished /\ N = NumInstrs
  OBVIOUS
<1>2. /\ l \in Nat /\ n \in Nat /\ l <= n /\ N \in Nat \ {0}
      /\ \A j \in 1 .. l : s[j] = n - l + j - 1
  BY <1>1, FinishedIs, LenProperties DEF SinkInv, CountsFrom
<1>3. k \in 1 .. l
  <2>1. (l + 1) - 1 = l
    BY <1>2
  <2> QED BY <2>1, <1>1 DEF Finished, FinishedBefore
<1>4. pc # "done"
  <2> SUFFICES ASSUME pc = "done" PROVE FALSE
    OBVIOUS
  <2>1. s = << >>
    BY <1>1 DEF SinkInv
  <2> QED BY <2>1, <1>1, <1>3
<1>5. numIterations = (n - l) \div N
  BY <1>1, <1>4 DEF SinkInv
<1>6. Cardinality(FinishedBefore(k)) = ((n - l + (k - 1)) \div N) - ((n - l) \div N)
  <2>1. k \in 1 .. l + 1
    BY <1>2, <1>3
  <2> QED BY <2>1, <1>1, FinishedInCycle
<1>7. s[k] = n - l + (k - 1) /\ n - l + (k - 1) \in Nat /\ n - l \in Nat
  BY <1>2, <1>3
<1>8. (n - l + (k - 1)) \div N \in Nat /\ (n - l) \div N \in Nat
  BY <1>2, <1>7, DivIs
<1> QED BY <1>1, <1>5, <1>6, <1>7, <1>8

\* No uop or instruction is lost, duplicated or reordered between the fetcher
\* and the retirement station, and the simulator counts every iteration once,
\* at its last instruction: for every block, width and capacity.
THEOREM TraceIsGapless ==
  ASSUME NoUop \notin RenamedUops
  PROVE  Spec => []GaplessTrace
<1>1. /\ FrontInv /\ BackInv /\ SinkInv
      /\ [Next]_vars
      => FrontInv' /\ BackInv' /\ SinkInv'
  BY NextFront, NextBack, NextSink
<1>2. Init => FrontInv /\ BackInv /\ SinkInv
  BY InitFront, InitBack, InitSink
<1>3. FrontInv /\ BackInv /\ SinkInv => GaplessTrace
  BY FrontIsGapless, SinkIsInOrder DEF GaplessTrace, GaplessFrontEnd
<1> QED BY <1>1, <1>2, <1>3, PTL DEF Spec
=============================================================================
