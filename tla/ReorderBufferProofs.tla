------------------------- MODULE ReorderBufferProofs -------------------------
(***************************************************************************)
(* Proofs about ReorderBuffer for every size of the buffer.                *)
(*                                                                         *)
(* First, in any environment, that the ring, the states and the dependency *)
(* lists are consistent.  Then, in the environment that the renamer gives, *)
(* which uops an entry waits for (PromptUops), which uops produce its      *)
(* inputs (DistinctDefs as well), and that ReorderBuffer implements        *)
(* Dataflow.                                                               *)
(***************************************************************************)
EXTENDS ReorderBuffer, TLAPS, SequenceTheorems

USE NumROBEntriesAssumption, ContractAssumption

\* The part of the state that says where the ring starts and ends.
RingTypeOK == firstEmpty \in Slots /\ numEmpty \in 0 .. NumROBEntries

\* Positions and slots of the ring are in bijection, and the first empty slot
\* comes right after the live window.
LEMMA RingPositions ==
  ASSUME RingTypeOK
  PROVE  /\ OldestEntry \in Slots
         /\ \A i \in 0 .. NumROBEntries : SlotAt(i) \in Slots
         /\ \A i, j \in 0 .. NumROBEntries - 1 : SlotAt(i) = SlotAt(j) => i = j
         /\ \A s \in Slots : \E i \in 0 .. NumROBEntries - 1 : s = SlotAt(i)
         /\ SlotAt(0) = OldestEntry
         /\ numEmpty > 0 => SlotAt(NumLive) = firstEmpty
         /\ NumLive \in 0 .. NumROBEntries
<1>1. /\ OldestEntry \in Slots
      /\ \A i \in 0 .. NumROBEntries : SlotAt(i) \in Slots
      /\ \A i, j \in 0 .. NumROBEntries - 1 : SlotAt(i) = SlotAt(j) => i = j
      /\ SlotAt(0) = OldestEntry
      /\ numEmpty > 0 => SlotAt(NumLive) = firstEmpty
      /\ NumLive \in 0 .. NumROBEntries
  BY DEF RingTypeOK, Slots, OldestEntry, SlotAt, NumLive
<1>2. ASSUME NEW s \in Slots
      PROVE  \E i \in 0 .. NumROBEntries - 1 : s = SlotAt(i)
  <2>1. CASE s >= OldestEntry
    <3>1. /\ s - OldestEntry \in 0 .. NumROBEntries - 1
          /\ s = SlotAt(s - OldestEntry)
      BY <2>1, <1>1 DEF Slots, SlotAt
    <3> QED BY <3>1
  <2>2. CASE s < OldestEntry
    <3>1. /\ s + NumROBEntries - OldestEntry \in 0 .. NumROBEntries - 1
          /\ s = SlotAt(s + NumROBEntries - OldestEntry)
      BY <2>2, <1>1 DEF Slots, SlotAt
    <3> QED BY <3>1
  <2> QED BY <2>1, <2>2, <1>1 DEF Slots
<1> QED BY <1>1, <1>2

\* Releasing the oldest entry shifts every position by one ...
LEMMA ReleaseShifts ==
  ASSUME RingTypeOK, numEmpty < NumROBEntries,
         firstEmpty' = firstEmpty, numEmpty' = numEmpty + 1
  PROVE  /\ RingTypeOK'
         /\ NumLive' = NumLive - 1
         /\ \A i \in 0 .. NumROBEntries - 1 : SlotAt(i)' = SlotAt(i + 1)
         /\ SlotAt(NumROBEntries - 1)' = SlotAt(0)
BY DEF RingTypeOK, Slots, NumLive, SlotAt, OldestEntry

\* ... and reserving an entry leaves the positions as they are.
LEMMA ReserveKeeps ==
  ASSUME RingTypeOK, numEmpty > 0,
         firstEmpty' = NextSlot(firstEmpty), numEmpty' = numEmpty - 1
  PROVE  /\ RingTypeOK'
         /\ NumLive' = NumLive + 1
         /\ \A i \in 0 .. NumROBEntries : SlotAt(i)' = SlotAt(i)
BY DEF RingTypeOK, Slots, NumLive, SlotAt, OldestEntry, NextSlot

\* Every slot follows its position: NextSlot and SlotAt agree.
LEMMA NextPosition ==
  ASSUME RingTypeOK, NEW i \in 0 .. NumROBEntries - 1
  PROVE  NextSlot(SlotAt(i)) = SlotAt(i + 1)
BY DEF RingTypeOK, Slots, SlotAt, OldestEntry, NextSlot

-----------------------------------------------------------------------------
(* The inductive invariant.  LiveWindow and InOrderRetirement need each    *)
(* other and DependencyGraph: a stale dependent would turn an entry that   *)
(* is empty or under retirement into one that is ready to execute.         *)

IInv ==
  /\ TypeOK
  /\ LiveWindow
  /\ InOrderRetirement
  /\ InFlightMatchesState
  /\ DependencyGraph

LEMMA InitIInv == Init => IInv
<1> SUFFICES ASSUME Init PROVE IInv
  OBVIOUS
<1>1. EmptyEntry \in ROBEntries
  BY DEF EmptyEntry, ROBEntries, States, UopIds
<1>2. TypeOK
  BY <1>1 DEF Init, CoreInit, TypeOK, CoreTypeOK, Slots, Phases, NoEntry
<1>3. /\ NumLive = 0
      /\ RingTypeOK
      /\ SlotAt(0) = 0
      /\ \A i \in Slots : entries[i] = EmptyEntry
  BY DEF Init, CoreInit, NumLive, RingTypeOK, Slots, SlotAt, OldestEntry
<1>4. LiveWindow
  BY <1>3, RingPositions DEF Init, LiveWindow, EmptyEntry
<1>5. InOrderRetirement
  BY <1>3 DEF Init, CoreInit, InOrderRetirement
<1>6. InFlightMatchesState
  BY <1>3 DEF Init, InFlightMatchesState, EmptyEntry
<1>7. DependencyGraph
  BY <1>3 DEF DependencyGraph, EmptyEntry
<1> QED BY <1>2, <1>4, <1>5, <1>6, <1>7 DEF IInv

\* What completing the uop in entry i does: only entries that wait for i can
\* change with it.
LEMMA Completion ==
  ASSUME TypeOK, DependencyGraph,
         NEW i \in Slots, NEW s \in {"OutputsAvailable", "ReadyToRetire"},
         entries[i].state \in {"ReadyToExecute", "Issued"},
         entries' = SatisfyDependents([entries EXCEPT ![i].state = s], i)
  PROVE  /\ entries' \in [Slots -> ROBEntries]
         /\ \A j \in Slots : entries'[j].uop = entries[j].uop
         /\ entries'[i].state = s
         /\ \A j \in Slots \ {i} :
              \/ entries'[j].state = entries[j].state
              \/ /\ entries[j].state = "WaitingForInputs"
                 /\ entries'[j].state = "ReadyToExecute"
         /\ DependencyGraph'
<1> DEFINE es == [entries EXCEPT ![i].state = s]
<1>1. entries \in [Slots -> ROBEntries]
  BY DEF TypeOK, CoreTypeOK
<1>2. /\ es \in [Slots -> ROBEntries]
      /\ es[i].state = s
      /\ \A j \in Slots \ {i} : es[j] = entries[j]
      /\ \A j \in Slots : /\ es[j].uop = entries[j].uop
                          /\ es[j].unsat = entries[j].unsat
                          /\ es[j].dependents = entries[j].dependents
  BY <1>1 DEF ROBEntries, States
<1>3. \A j \in entries[i].dependents : /\ j \in Slots
                                       /\ i \in entries[j].unsat
                                       /\ entries[j].state = "WaitingForInputs"
                                       /\ j # i
  BY <1>1 DEF DependencyGraph, DoneStates, ROBEntries
<1>4. entries' = SatisfyDependents(es, i)
  OBVIOUS
<1> HIDE DEF es
<1>5. ASSUME NEW j \in Slots
      PROVE  /\ entries'[j] \in ROBEntries
             /\ entries'[j].uop = entries[j].uop
             /\ entries'[j].dependents = entries[j].dependents
             /\ entries'[j].unsat = IF j \in entries[i].dependents
                                    THEN entries[j].unsat \ {i}
                                    ELSE entries[j].unsat
             /\ entries'[j].state = IF /\ j \in entries[i].dependents
                                       /\ entries[j].unsat \subseteq {i}
                                    THEN "ReadyToExecute" ELSE es[j].state
  <2>1. es[j] \in ROBEntries /\ es[j].unsat \in SUBSET Slots
    BY <1>2 DEF ROBEntries
  <2>2. CASE j \in entries[i].dependents
    <3>1. entries'[j] = [es[j] EXCEPT !.unsat = es[j].unsat \ {i},
                                      !.state = IF es[j].unsat \subseteq {i}
                                        THEN "ReadyToExecute" ELSE es[j].state]
      BY <1>2, <1>4, <2>2 DEF SatisfyDependents
    <3>2. /\ entries'[j].uop = es[j].uop /\ entries'[j].dependents = es[j].dependents
          /\ entries'[j].unsat = es[j].unsat \ {i}
          /\ entries'[j].state = IF es[j].unsat \subseteq {i}
                                 THEN "ReadyToExecute" ELSE es[j].state
          /\ entries'[j] \in ROBEntries
      BY <3>1, <2>1 DEF ROBEntries, States
    <3> QED BY <3>2, <2>2, <1>2
  <2>3. CASE j \notin entries[i].dependents
    <3>1. entries'[j] = es[j]
      BY <1>2, <1>4, <2>3 DEF SatisfyDependents
    <3> QED BY <3>1, <2>1, <2>3, <1>2
  <2> QED BY <2>2, <2>3
<1>6. entries' \in [Slots -> ROBEntries]
  <2>1. entries' = [j \in Slots |-> entries'[j]]
    BY <1>4 DEF SatisfyDependents
  <2> QED BY <2>1, <1>5
<1>7. ASSUME NEW j \in Slots
      PROVE  entries'[j].unsat # {} <=> entries'[j].state = "WaitingForInputs"
  <2>1. entries[j].unsat # {} <=> entries[j].state = "WaitingForInputs"
    BY DEF DependencyGraph
  <2>2. CASE j \in entries[i].dependents
    <3>1. es[j].state = "WaitingForInputs"
      BY <2>2, <1>2, <1>3
    <3>2. entries[j].unsat \ {i} = {} <=> entries[j].unsat \subseteq {i}
      OBVIOUS
    <3> QED BY <2>2, <3>1, <3>2, <1>5
  <2>3. CASE j \notin entries[i].dependents
    <3>1. entries'[j].unsat = entries[j].unsat /\ entries'[j].state = es[j].state
      BY <2>3, <1>5
    <3>2. CASE j = i
      BY <2>1, <3>1, <3>2, <1>2
    <3>3. CASE j # i
      BY <2>1, <3>1, <3>3, <1>2
    <3> QED BY <3>2, <3>3
  <2> QED BY <2>2, <2>3
<1>8. ASSUME NEW j \in Slots, NEW k \in Slots
      PROVE  k \in entries'[j].unsat <=>
               /\ j \in entries'[k].dependents
               /\ entries'[k].state \notin DoneStates
  <2>1. k \in entries[j].unsat <=> /\ j \in entries[k].dependents
                                   /\ entries[k].state \notin DoneStates
    BY DEF DependencyGraph
  <2>2. CASE k = i
    BY <2>1, <2>2, <1>2, <1>3, <1>5 DEF DoneStates
  <2>3. CASE k # i
    <3>1. k \in entries'[j].unsat <=> k \in entries[j].unsat
      BY <2>3, <1>5
    <3>2. j \in entries'[k].dependents <=> j \in entries[k].dependents
      BY <1>5
    <3>3. entries'[k].state \in DoneStates <=> entries[k].state \in DoneStates
      BY <2>3, <1>2, <1>3, <1>5 DEF DoneStates
    <3> QED BY <3>1, <3>2, <3>3, <2>1
  <2> QED BY <2>2, <2>3
<1>9. DependencyGraph'
  BY <1>7, <1>8 DEF DependencyGraph
<1> QED BY <1>2, <1>3, <1>5, <1>6, <1>9

-----------------------------------------------------------------------------
(* Steps that leave the ring as it is.                                     *)

LEMMA TypeOKRing == TypeOK => RingTypeOK
BY DEF TypeOK, CoreTypeOK, RingTypeOK

LEMMA SameRing ==
  ASSUME UNCHANGED <<firstEmpty, numEmpty>>
  PROVE  /\ NumLive' = NumLive
         /\ \A i : SlotAt(i)' = SlotAt(i)
BY DEF NumLive, SlotAt, OldestEntry

\* The window stays when no entry is emptied or filled.
LEMMA SameWindow ==
  ASSUME TypeOK, LiveWindow, UNCHANGED <<firstEmpty, numEmpty, renamed>>,
         \A j \in Slots :
           /\ entries'[j].uop = entries[j].uop
           /\ \/ entries'[j].state = entries[j].state
              \/ /\ entries[j].state # "Empty"
                 /\ entries'[j].state \notin {"Empty", "Retired"}
  PROVE  LiveWindow'
<1>1. NumLive' = NumLive /\ \A i : SlotAt(i)' = SlotAt(i)
  BY SameRing
<1>2. NumLive \in 0 .. NumROBEntries /\ \A i \in 0 .. NumROBEntries : SlotAt(i) \in Slots
  BY TypeOKRing, RingPositions
<1>3. NumReleased' = NumReleased
  BY <1>1 DEF NumReleased
<1>4. ASSUME NEW i \in 0 .. NumLive - 1
      PROVE  /\ entries'[SlotAt(i)].state \notin {"Empty", "Retired"}
             /\ entries'[SlotAt(i)].uop = renamed[NumReleased + 1 + i].id
  <2>1. SlotAt(i) \in Slots
    BY <1>2
  <2>2. /\ entries[SlotAt(i)].state \notin {"Empty", "Retired"}
        /\ entries[SlotAt(i)].uop = renamed[NumReleased + 1 + i].id
    BY DEF LiveWindow
  <2> QED BY <2>1, <2>2
<1>5. ASSUME NEW i \in NumLive .. NumROBEntries - 1
      PROVE  entries'[SlotAt(i)].state = "Empty"
  <2>1. SlotAt(i) \in Slots
    BY <1>2
  <2>2. entries[SlotAt(i)].state = "Empty"
    BY DEF LiveWindow
  <2> QED BY <2>1, <2>2
<1> QED BY <1>1, <1>3, <1>4, <1>5 DEF LiveWindow

\* The retirement order stays when nothing is sent or retired.
LEMMA SameRetirement ==
  ASSUME TypeOK, InOrderRetirement,
         UNCHANGED <<firstEmpty, numEmpty, firstRetirable, retiring>>,
         \A j \in Slots : entries'[j].state = "SentForRetirement"
                            <=> entries[j].state = "SentForRetirement"
  PROVE  InOrderRetirement'
<1>1. NumLive' = NumLive /\ \A i : SlotAt(i)' = SlotAt(i)
  BY SameRing
<1>2. \A i \in 0 .. NumLive - 1 : SlotAt(i) \in Slots
  BY TypeOKRing, RingPositions
<1> QED BY <1>1, <1>2 DEF InOrderRetirement

-----------------------------------------------------------------------------
(* One lemma per action.                                                   *)

LEMMA OutputsAvailableKeeps ==
  ASSUME IInv, NEW i \in Slots, OutputsAvailable(i)
  PROVE  IInv'
<1> USE DEF IInv
<1>1. entries[i].state = "Issued"
  BY DEF OutputsAvailable, InFlightMatchesState
<1>2. /\ entries' = SatisfyDependents(
                      [entries EXCEPT ![i].state = "OutputsAvailable"], i)
      /\ UNCHANGED <<firstEmpty, numEmpty, firstRetirable, inFlightDefs>>
      /\ awaitingDeps' = awaitingDeps \ {i}
      /\ UNCHANGED <<phase, scan, renamed, retiring, awaitingWriteback>>
  BY DEF OutputsAvailable, CoreOutputsAvailable
<1>3. /\ entries' \in [Slots -> ROBEntries]
      /\ \A j \in Slots : entries'[j].uop = entries[j].uop
      /\ entries'[i].state = "OutputsAvailable"
      /\ \A j \in Slots \ {i} :
           \/ entries'[j].state = entries[j].state
           \/ /\ entries[j].state = "WaitingForInputs"
              /\ entries'[j].state = "ReadyToExecute"
      /\ DependencyGraph'
  BY <1>1, <1>2, Completion
<1>4. TypeOK'
  BY <1>2, <1>3 DEF TypeOK, CoreTypeOK
<1>5. LiveWindow'
  BY <1>1, <1>2, <1>3, SameWindow
<1>6. InOrderRetirement'
  BY <1>1, <1>2, <1>3, SameRetirement
<1>7. InFlightMatchesState'
  BY <1>1, <1>2, <1>3 DEF InFlightMatchesState
<1> QED BY <1>3, <1>4, <1>5, <1>6, <1>7

LEMMA VisitPortlessKeeps ==
  ASSUME IInv, VisitPortless
  PROVE  IInv'
<1> USE DEF IInv
<1> DEFINE i == SlotAt(scan)
<1>1. i \in Slots /\ entries[i].state = "ReadyToExecute"
  <2>1. scan \in 0 .. NumROBEntries /\ RingTypeOK
    BY TypeOKRing DEF TypeOK
  <2> QED BY <2>1, RingPositions DEF VisitPortless, CoreExecuteWithoutPort
<1>2. /\ entries' = SatisfyDependents(
                      [entries EXCEPT ![i].state = "ReadyToRetire"], i)
      /\ UNCHANGED <<firstEmpty, numEmpty, firstRetirable, inFlightDefs>>
      /\ scan' = scan + 1 /\ scan < NumLive
      /\ UNCHANGED <<phase, renamed, retiring, awaitingDeps, awaitingWriteback>>
  BY DEF VisitPortless, CoreExecuteWithoutPort, envVars
<1> HIDE DEF i
<1>3. /\ entries' \in [Slots -> ROBEntries]
      /\ \A j \in Slots : entries'[j].uop = entries[j].uop
      /\ entries'[i].state = "ReadyToRetire"
      /\ \A j \in Slots \ {i} :
           \/ entries'[j].state = entries[j].state
           \/ /\ entries[j].state = "WaitingForInputs"
              /\ entries'[j].state = "ReadyToExecute"
      /\ DependencyGraph'
  BY <1>1, <1>2, Completion
<1>4. TypeOK'
  <2>1. scan' \in 0 .. NumROBEntries
    BY <1>2 DEF TypeOK, CoreTypeOK, NumLive
  <2> QED BY <1>2, <1>3, <2>1 DEF TypeOK, CoreTypeOK
<1>5. LiveWindow'
  BY <1>1, <1>2, <1>3, SameWindow
<1>6. InOrderRetirement'
  BY <1>1, <1>2, <1>3, SameRetirement
<1>7. InFlightMatchesState'
  BY <1>1, <1>2, <1>3 DEF InFlightMatchesState
<1> QED BY <1>3, <1>4, <1>5, <1>6, <1>7

\* A step that only changes the state of entry i to s, where neither the
\* dependency graph nor the window can tell.
LEMMA NewState ==
  ASSUME TypeOK, LiveWindow, DependencyGraph, NEW i \in Slots,
         NEW s \in {"Issued", "ReadyToRetire", "SentForRetirement"},
         entries[i].state \notin {"Empty", "WaitingForInputs"},
         entries[i].state \in DoneStates <=> s \in DoneStates,
         entries' = [entries EXCEPT ![i].state = s],
         UNCHANGED <<firstEmpty, numEmpty, renamed>>
  PROVE  /\ entries' \in [Slots -> ROBEntries]
         /\ entries'[i].state = s
         /\ \A j \in Slots \ {i} : entries'[j] = entries[j]
         /\ LiveWindow'
         /\ DependencyGraph'
<1>1. /\ entries' \in [Slots -> ROBEntries]
      /\ entries'[i].state = s
      /\ \A j \in Slots \ {i} : entries'[j] = entries[j]
      /\ \A j \in Slots : /\ entries'[j].uop = entries[j].uop
                          /\ entries'[j].unsat = entries[j].unsat
                          /\ entries'[j].dependents = entries[j].dependents
  <2>1. entries \in [Slots -> ROBEntries]
    BY DEF TypeOK, CoreTypeOK
  <2>2. entries[i] \in ROBEntries
    BY <2>1
  <2>3. [entries[i] EXCEPT !.state = s] \in ROBEntries
    BY <2>2 DEF ROBEntries, States
  <2>4. entries' = [entries EXCEPT ![i] = [entries[i] EXCEPT !.state = s]]
    OBVIOUS
  <2>5. /\ entries'[i] = [entries[i] EXCEPT !.state = s]
        /\ \A j \in Slots \ {i} : entries'[j] = entries[j]
        /\ entries' \in [Slots -> ROBEntries]
    BY <2>1, <2>3, <2>4
  <2> QED BY <2>1, <2>5 DEF ROBEntries
<1>2. LiveWindow'
  BY <1>1, SameWindow
<1>3. DependencyGraph'
  BY <1>1 DEF DependencyGraph
<1> QED BY <1>1, <1>2, <1>3

LEMMA WrittenBackKeeps ==
  ASSUME IInv, NEW i \in Slots, WrittenBack(i)
  PROVE  IInv'
<1> USE DEF IInv
<1>1. entries[i].state = "OutputsAvailable"
  BY DEF WrittenBack, InFlightMatchesState
<1>2. /\ entries' = [entries EXCEPT ![i].state = "ReadyToRetire"]
      /\ UNCHANGED <<firstEmpty, numEmpty, firstRetirable, inFlightDefs>>
      /\ awaitingWriteback' = awaitingWriteback \ {i}
      /\ UNCHANGED <<phase, scan, renamed, retiring, awaitingDeps>>
  BY DEF WrittenBack, CoreWrittenBack
<1>3. /\ entries' \in [Slots -> ROBEntries]
      /\ entries'[i].state = "ReadyToRetire"
      /\ \A j \in Slots \ {i} : entries'[j] = entries[j]
      /\ LiveWindow'
      /\ DependencyGraph'
  BY <1>1, <1>2, NewState DEF DoneStates
<1>4. TypeOK'
  BY <1>2, <1>3 DEF TypeOK, CoreTypeOK
<1>5. InOrderRetirement'
  BY <1>1, <1>2, <1>3, SameRetirement
<1>6. InFlightMatchesState'
  BY <1>1, <1>2, <1>3 DEF InFlightMatchesState
<1> QED BY <1>3, <1>4, <1>5, <1>6

LEMMA VisitIssueKeeps ==
  ASSUME IInv, NEW p \in Ports, VisitIssue(p)
  PROVE  IInv'
<1> USE DEF IInv
<1> DEFINE i == SlotAt(scan)
<1>1. i \in Slots /\ entries[i].state = "ReadyToExecute"
  <2>1. scan \in 0 .. NumROBEntries /\ RingTypeOK
    BY TypeOKRing DEF TypeOK
  <2> QED BY <2>1, RingPositions DEF VisitIssue, CoreIssue
<1>2. /\ entries' = [entries EXCEPT ![i].state = "Issued"]
      /\ UNCHANGED <<firstEmpty, numEmpty, firstRetirable, inFlightDefs>>
      /\ scan' = scan + 1 /\ scan < NumLive
      /\ awaitingDeps' = awaitingDeps \cup {i}
      /\ awaitingWriteback' = awaitingWriteback \cup {i}
      /\ UNCHANGED <<phase, renamed, retiring>>
  BY DEF VisitIssue, CoreIssue
<1> HIDE DEF i
<1>3. /\ entries' \in [Slots -> ROBEntries]
      /\ entries'[i].state = "Issued"
      /\ \A j \in Slots \ {i} : entries'[j] = entries[j]
      /\ LiveWindow'
      /\ DependencyGraph'
  BY <1>1, <1>2, NewState DEF DoneStates
<1>4. TypeOK'
  <2>1. scan' \in 0 .. NumROBEntries
    BY <1>2 DEF TypeOK, CoreTypeOK, NumLive
  <2> QED BY <1>1, <1>2, <1>3, <2>1 DEF TypeOK, CoreTypeOK
<1>5. InOrderRetirement'
  BY <1>1, <1>2, <1>3, SameRetirement
<1>6. InFlightMatchesState'
  BY <1>1, <1>2, <1>3 DEF InFlightMatchesState
<1> QED BY <1>3, <1>4, <1>5, <1>6

LEMMA SendForRetirementKeeps ==
  ASSUME IInv, SendForRetirement
  PROVE  IInv'
<1> USE DEF IInv
<1> DEFINE f == firstRetirable
           n == Len(retiring)
<1>1. /\ entries' = [entries EXCEPT ![f].state = "SentForRetirement"]
      /\ entries[f].state = "ReadyToRetire"
      /\ firstRetirable' = NextSlot(f)
      /\ retiring' = Append(retiring, f)
      /\ UNCHANGED <<firstEmpty, numEmpty, inFlightDefs>>
      /\ UNCHANGED <<phase, scan, renamed, awaitingDeps, awaitingWriteback>>
  BY DEF SendForRetirement, CoreSendForRetirement
<1>2. RingTypeOK /\ f \in Slots /\ retiring \in Seq(Slots) /\ n \in Nat
  BY TypeOKRing DEF TypeOK, CoreTypeOK
<1>3. /\ NumLive \in 0 .. NumROBEntries
      /\ SlotAt(NumROBEntries) = SlotAt(0)
  BY <1>2, RingPositions DEF SlotAt, RingTypeOK, Slots, OldestEntry
<1>4. f = SlotAt(n) /\ n <= NumLive
  BY DEF InOrderRetirement
<1> HIDE DEF n
<1>5. n < NumLive
  <2>1. ASSUME n = NumLive, NumLive < NumROBEntries PROVE FALSE
    BY <2>1, <1>1, <1>2, <1>3, <1>4 DEF LiveWindow
  <2>2. ASSUME n = NumROBEntries, NumLive = NumROBEntries PROVE FALSE
    <3>1. entries[SlotAt(0)].state = "SentForRetirement"
      BY <2>2 DEF InOrderRetirement, n
    <3> QED BY <3>1, <2>2, <1>1, <1>3, <1>4
  <2> QED BY <2>1, <2>2, <1>2, <1>3, <1>4
<1> HIDE DEF f
<1>6. /\ entries' \in [Slots -> ROBEntries]
      /\ entries'[f].state = "SentForRetirement"
      /\ \A j \in Slots \ {f} : entries'[j] = entries[j]
      /\ LiveWindow'
      /\ DependencyGraph'
  BY <1>1, <1>2, NewState DEF DoneStates
<1>7. NumLive' = NumLive /\ \A i : SlotAt(i)' = SlotAt(i)
  BY <1>1, SameRing
<1>8. firstRetirable' = SlotAt(n + 1) /\ firstRetirable' \in Slots
  <2>1. n \in 0 .. NumROBEntries - 1
    BY <1>2, <1>3, <1>5
  <2>2. n + 1 \in 0 .. NumROBEntries
    BY <2>1
  <2>3. NextSlot(SlotAt(n)) = SlotAt(n + 1)
    BY <2>1, <1>2, NextPosition
  <2>4. SlotAt(n + 1) \in Slots
    BY <2>2, <1>2, RingPositions
  <2> QED BY <2>3, <2>4, <1>1, <1>4
<1>9. TypeOK'
  BY <1>1, <1>2, <1>6, <1>8 DEF TypeOK, CoreTypeOK
<1>10. InOrderRetirement'
  <2>1. Len(retiring') = n + 1
    BY <1>1, <1>2 DEF n
  <2>2. \A k \in 1 .. n + 1 : retiring'[k] = SlotAt(k - 1)
    BY <1>1, <1>2, <1>4 DEF n, InOrderRetirement
  <2>3. ASSUME NEW i \in 0 .. NumLive - 1
        PROVE  entries'[SlotAt(i)].state = "SentForRetirement" <=> i < n + 1
    <3>1. entries[SlotAt(i)].state = "SentForRetirement" <=> i < n
      BY DEF InOrderRetirement, n
    <3>2. SlotAt(i) \in Slots /\ (SlotAt(i) = f => i = n)
      BY <1>2, <1>3, <1>4, <1>5, RingPositions
    <3> QED BY <3>1, <3>2, <1>2, <1>4, <1>6
  <2> QED BY <2>1, <2>2, <2>3, <1>2, <1>3, <1>5, <1>7, <1>8 DEF InOrderRetirement
<1>11. InFlightMatchesState'
  BY <1>1, <1>2, <1>6 DEF InFlightMatchesState
<1> QED BY <1>6, <1>9, <1>10, <1>11

LEMMA DeleteRetiredKeeps ==
  ASSUME IInv, DeleteRetired
  PROVE  IInv'
<1> USE DEF IInv
<1> DEFINE h == OldestEntry
<1>1. RingTypeOK /\ retiring \in Seq(Slots) /\ retiring # << >>
      /\ entries \in [Slots -> ROBEntries]
  BY TypeOKRing DEF TypeOK, CoreTypeOK, DeleteRetired
<1>2. /\ h \in Slots /\ h = SlotAt(0) /\ Head(retiring) = h
      /\ entries[h].state = "SentForRetirement"
      /\ NumLive >= 1 /\ Len(retiring) >= 1
  <2>1. Len(retiring) \in Nat /\ Len(retiring) >= 1 /\ Head(retiring) = retiring[1]
    BY <1>1
  <2>2. NumLive \in 0 .. NumROBEntries /\ h \in Slots /\ h = SlotAt(0)
    BY <1>1, RingPositions
  <2> QED BY <2>1, <2>2 DEF InOrderRetirement
<1>3. /\ entries' = [[entries EXCEPT ![h].state = "Retired"]
                      EXCEPT ![h] = Cleared([entries EXCEPT ![h].state = "Retired"][h])]
      /\ inFlightDefs' = [r \in Regs |-> IF r \in entries[h].defs THEN NoEntry
                                         ELSE inFlightDefs[r]]
      /\ numEmpty' = numEmpty + 1 /\ firstEmpty' = firstEmpty
      /\ firstRetirable' = firstRetirable
      /\ retiring' = Tail(retiring)
      /\ UNCHANGED <<phase, scan, renamed, awaitingDeps, awaitingWriteback>>
  BY <1>2 DEF DeleteRetired, CoreDeleteRetired
<1> HIDE DEF h
<1>4. /\ entries' \in [Slots -> ROBEntries]
      /\ entries'[h].state = "Empty"
      /\ entries'[h].unsat = entries[h].unsat
      /\ entries'[h].dependents = {}
      /\ \A j \in Slots \ {h} : entries'[j] = entries[j]
  <2>1. entries[h] \in ROBEntries
    BY <1>1, <1>2
  <2>2. [entries EXCEPT ![h].state = "Retired"][h] = [entries[h] EXCEPT !.state = "Retired"]
    BY <1>1, <1>2
  <2>3. entries' = [entries EXCEPT ![h] = Cleared([entries[h] EXCEPT !.state = "Retired"])]
    BY <1>1, <1>2, <1>3, <2>2
  <2> DEFINE e == Cleared([entries[h] EXCEPT !.state = "Retired"])
  <2>4. /\ e \in ROBEntries
        /\ e.state = "Empty" /\ e.unsat = entries[h].unsat /\ e.dependents = {}
    BY <2>1 DEF Cleared, ROBEntries, States
  <2> HIDE DEF e
  <2>5. entries' = [entries EXCEPT ![h] = e]
    BY <2>3 DEF e
  <2> QED BY <2>4, <2>5, <1>1, <1>2
<1>5. /\ numEmpty < NumROBEntries
      /\ RingTypeOK'
      /\ NumLive' = NumLive - 1
      /\ \A i \in 0 .. NumROBEntries - 1 : SlotAt(i)' = SlotAt(i + 1)
      /\ SlotAt(NumROBEntries - 1)' = SlotAt(0)
  <2>1. numEmpty < NumROBEntries
    BY <1>1, <1>2 DEF RingTypeOK, NumLive
  <2> QED BY <2>1, <1>1, <1>3, ReleaseShifts
<1>6. /\ NumLive \in 1 .. NumROBEntries
      /\ \A i \in 0 .. NumROBEntries : SlotAt(i) \in Slots
      /\ \A i \in 1 .. NumROBEntries - 1 : SlotAt(i) # h
  BY <1>1, <1>2, RingPositions
<1>7. TypeOK'
  <2>1. inFlightDefs' \in [Regs -> Slots \cup {NoEntry}]
    BY <1>3 DEF TypeOK, CoreTypeOK
  <2>2. retiring' \in Seq(Slots)
    BY <1>1, <1>3
  <2> QED BY <2>1, <2>2, <1>3, <1>4, <1>5 DEF TypeOK, CoreTypeOK, RingTypeOK
<1>8. LiveWindow'
  <2>1. Len(renamed) \in Nat /\ NumReleased' = NumReleased + 1 /\ NumReleased \in Int
    BY <1>3, <1>5, <1>6 DEF TypeOK, NumReleased
  <2>2. NumLive' <= Len(renamed')
    BY <2>1, <1>3, <1>5, <1>6 DEF LiveWindow
  <2>3. ASSUME NEW i \in 0 .. NumLive - 2
        PROVE  /\ entries'[SlotAt(i)'].state \notin {"Empty", "Retired"}
               /\ entries'[SlotAt(i)'].uop = renamed'[NumReleased' + 1 + i].id
    <3>1. SlotAt(i)' = SlotAt(i + 1) /\ SlotAt(i + 1) # h /\ SlotAt(i + 1) \in Slots
      BY <1>5, <1>6
    <3>2. /\ entries[SlotAt(i + 1)].state \notin {"Empty", "Retired"}
          /\ entries[SlotAt(i + 1)].uop = renamed[NumReleased + 1 + (i + 1)].id
      BY <1>6 DEF LiveWindow
    <3>3. NumReleased + 1 + (i + 1) = NumReleased' + 1 + i
      BY <2>1
    <3> QED BY <3>1, <3>2, <3>3, <1>3, <1>4
  <2>4. ASSUME NEW i \in NumLive - 1 .. NumROBEntries - 1
        PROVE  entries'[SlotAt(i)'].state = "Empty"
    <3>1. CASE i = NumROBEntries - 1
      BY <3>1, <1>2, <1>4, <1>5
    <3>2. CASE i < NumROBEntries - 1
      <4>1. SlotAt(i)' = SlotAt(i + 1) /\ SlotAt(i + 1) # h /\ SlotAt(i + 1) \in Slots
        BY <3>2, <1>5, <1>6
      <4>2. entries[SlotAt(i + 1)].state = "Empty"
        BY <3>2, <1>6 DEF LiveWindow
      <4> QED BY <4>1, <4>2, <1>4
    <3> QED BY <3>1, <3>2, <1>6
  <2>5. NumLive' - 1 = NumLive - 2
    BY <1>5, <1>6
  <2> QED BY <2>2, <2>3, <2>4, <2>5, <1>5 DEF LiveWindow
<1>9. InOrderRetirement'
  <2> DEFINE n == Len(retiring)
  <2>1. /\ n \in 1 .. NumLive
        /\ Len(retiring') = n - 1
        /\ \A k \in 1 .. n - 1 : retiring'[k] = retiring[k + 1]
    BY <1>1, <1>2, <1>3 DEF InOrderRetirement
  <2>2. ASSUME NEW k \in 1 .. n - 1
        PROVE  retiring'[k] = SlotAt(k - 1)'
    <3>1. retiring[k + 1] = SlotAt(k)
      BY <2>1 DEF InOrderRetirement
    <3>2. SlotAt(k - 1)' = SlotAt(k)
      BY <2>1, <1>5, <1>6
    <3> QED BY <3>1, <3>2, <2>1
  <2>3. ASSUME NEW i \in 0 .. NumLive - 2
        PROVE  entries'[SlotAt(i)'].state = "SentForRetirement" <=> i < n - 1
    <3>1. SlotAt(i)' = SlotAt(i + 1) /\ SlotAt(i + 1) # h /\ SlotAt(i + 1) \in Slots
      BY <1>5, <1>6
    <3>2. entries[SlotAt(i + 1)].state = "SentForRetirement" <=> i + 1 < n
      BY <1>6 DEF InOrderRetirement
    <3> QED BY <3>1, <3>2, <2>1, <1>4
  <2>4. firstRetirable' = SlotAt(Len(retiring))'
    <3>1. firstRetirable = SlotAt(n)
      BY DEF InOrderRetirement
    <3>2. \A i \in 0 .. NumROBEntries - 1 :
            i = Len(retiring') => SlotAt(Len(retiring))' = SlotAt(i)'
      BY DEF SlotAt
    <3>3. n - 1 \in 0 .. NumROBEntries - 1 /\ (n - 1) + 1 = n
      BY <2>1, <1>6
    <3> QED BY <3>1, <3>2, <3>3, <2>1, <1>3, <1>5
  <2>5. NumLive' - 1 = NumLive - 2 /\ n - 1 <= NumLive'
    BY <2>1, <1>5, <1>6
  <2> QED BY <2>1, <2>2, <2>3, <2>4, <2>5 DEF InOrderRetirement
<1>10. InFlightMatchesState'
  BY <1>2, <1>3, <1>4 DEF InFlightMatchesState
<1>11. DependencyGraph'
  BY <1>2, <1>4 DEF DependencyGraph, DoneStates
<1> QED BY <1>7, <1>8, <1>9, <1>10, <1>11

LEMMA ArrivalsAreUops ==
  ASSUME TypeOK, NEW u \in Arrivals
  PROVE  u \in RenamedUops
<1>1. renamed \in Seq(RenamedUops)
  BY DEF TypeOK
<1>2. CASE renamed = << >>
  BY <1>2 DEF Arrivals, RenamedUops, UopIds
<1>3. CASE renamed # << >>
  <2>1. renamed[Len(renamed)] \in RenamedUops
    BY <1>1, <1>3
  <2>2. /\ renamed[Len(renamed)].id.instr \in Nat
        /\ renamed[Len(renamed)].id.index \in Nat
    BY <2>1 DEF RenamedUops, UopIds
  <2> QED BY <1>3, <2>2 DEF Arrivals, RenamedUops, UopIds
<1> QED BY <1>2, <1>3

LEMMA ReadNewUopKeeps ==
  ASSUME IInv, NEW u \in Arrivals, ReadNewUop(u)
  PROVE  IInv'
<1> USE DEF IInv
<1> DEFINE new == firstEmpty
           deps == InputDependencies(u)
<1>1. /\ RingTypeOK /\ entries \in [Slots -> ROBEntries] /\ new \in Slots
      /\ inFlightDefs \in [Regs -> Slots \cup {NoEntry}]
      /\ renamed \in Seq(RenamedUops)
  BY TypeOKRing DEF TypeOK, CoreTypeOK
<1>2. u \in RenamedUops
  BY ArrivalsAreUops
<1>3. /\ u.id \in UopIds /\ u.uses \in SUBSET Regs /\ u.defs \in SUBSET Regs
      /\ u.ports \in SUBSET Ports
  BY <1>2 DEF RenamedUops
<1>4. deps \in SUBSET Slots /\ \A i \in deps : entries[i].state \notin DoneStates
  <2>1. PrevSlot(firstEmpty) \in Slots
    BY <1>1 DEF PrevSlot, Slots
  <2>2. /\ PrevDependency(u) \in SUBSET Slots
        /\ \A i \in PrevDependency(u) : entries[i].state \notin DoneStates
    BY <2>1 DEF PrevDependency
  <2>3. /\ UseDependencies(u) \in SUBSET Slots
        /\ \A i \in UseDependencies(u) : entries[i].state \notin DoneStates
    BY <1>1, <1>3 DEF UseDependencies
  <2> QED BY <2>2, <2>3 DEF InputDependencies
<1>5. /\ numEmpty > 0
      /\ entries' = [i \in Slots |->
           IF i = new
           THEN [state |-> IF entries[new].unsat \cup deps = {}
                           THEN "ReadyToExecute" ELSE "WaitingForInputs",
                 uop |-> u.id, defs |-> u.defs,
                 ports |-> entries[i].ports \cup u.ports,
                 unsat |-> entries[new].unsat \cup deps,
                 dependents |-> entries[i].dependents \cup (deps \cap {i})]
           ELSE IF i \in deps
           THEN [entries[i] EXCEPT !.dependents = entries[i].dependents \cup {new}]
           ELSE entries[i]]
      /\ inFlightDefs' = [r \in Regs |->
           IF r \in u.defs /\ inFlightDefs[r] = NoEntry THEN new
                                                        ELSE inFlightDefs[r]]
      /\ numEmpty' = numEmpty - 1
      /\ firstEmpty' = NextSlot(firstEmpty)
      /\ firstRetirable' = firstRetirable
      /\ renamed' = Append(renamed, u)
      /\ UNCHANGED <<phase, scan, retiring, awaitingDeps, awaitingWriteback>>
  BY DEF ReadNewUop, CoreReadNewUop
<1>6. /\ NumLive \in 0 .. NumROBEntries - 1
      /\ SlotAt(NumLive) = new
      /\ \A i \in 0 .. NumROBEntries : SlotAt(i) \in Slots
      /\ \A i, j \in 0 .. NumROBEntries - 1 : SlotAt(i) = SlotAt(j) => i = j
  <2>1. NumLive # NumROBEntries
    BY <1>1, <1>5 DEF NumLive, RingTypeOK
  <2> QED BY <2>1, <1>1, <1>5, RingPositions
<1>7. entries[new].state = "Empty" /\ entries[new].unsat = {}
  BY <1>1, <1>6 DEF LiveWindow, DependencyGraph
<1>8. /\ RingTypeOK'
      /\ NumLive' = NumLive + 1
      /\ \A i \in 0 .. NumROBEntries : SlotAt(i)' = SlotAt(i)
  BY <1>1, <1>5, ReserveKeeps
<1> HIDE DEF new, deps
<1>9. /\ entries'[new] \in ROBEntries
      /\ entries'[new].state = IF deps = {} THEN "ReadyToExecute"
                                            ELSE "WaitingForInputs"
      /\ entries'[new].uop = u.id
      /\ entries'[new].unsat = deps
      /\ entries'[new].dependents = entries[new].dependents \cup (deps \cap {new})
  <2> DEFINE e == [state |-> IF entries[new].unsat \cup deps = {}
                             THEN "ReadyToExecute" ELSE "WaitingForInputs",
                   uop |-> u.id, defs |-> u.defs,
                   ports |-> entries[new].ports \cup u.ports,
                   unsat |-> entries[new].unsat \cup deps,
                   dependents |-> entries[new].dependents \cup (deps \cap {new})]
  <2>1. entries'[new] = e
    BY <1>1, <1>5
  <2>2. entries[new] \in ROBEntries
    BY <1>1
  <2>3. /\ entries[new].ports \cup u.ports \in SUBSET Ports
        /\ entries[new].dependents \cup (deps \cap {new}) \in SUBSET Slots
    BY <2>2, <1>3, <1>4 DEF ROBEntries
  <2>4. e \in ROBEntries
    BY <2>3, <1>3, <1>4, <1>7 DEF ROBEntries, States
  <2> QED BY <2>1, <2>4, <1>7
<1>10. ASSUME NEW j \in Slots \ {new}
       PROVE  /\ entries'[j] \in ROBEntries
              /\ entries'[j].state = entries[j].state
              /\ entries'[j].uop = entries[j].uop
              /\ entries'[j].unsat = entries[j].unsat
              /\ entries'[j].dependents = IF j \in deps
                   THEN entries[j].dependents \cup {new}
                   ELSE entries[j].dependents
  <2>1. entries'[j] = IF j \in deps
          THEN [entries[j] EXCEPT !.dependents = entries[j].dependents \cup {new}]
          ELSE entries[j]
    BY <1>5
  <2>2. entries[j] \in ROBEntries /\ new \in Slots
    BY <1>1
  <2>3. CASE j \in deps
    BY <2>1, <2>2, <2>3 DEF ROBEntries
  <2>4. CASE j \notin deps
    BY <2>1, <2>2, <2>4
  <2> QED BY <2>3, <2>4
<1>11. TypeOK'
  <2>1. entries' \in [Slots -> ROBEntries]
    <3>1. entries' = [j \in Slots |-> entries'[j]]
      BY <1>5
    <3> QED BY <3>1, <1>9, <1>10
  <2>2. inFlightDefs' \in [Regs -> Slots \cup {NoEntry}]
    BY <1>1, <1>5
  <2>3. renamed' \in Seq(RenamedUops)
    BY <1>1, <1>2, <1>5
  <2> QED BY <2>1, <2>2, <2>3, <1>5, <1>8 DEF TypeOK, CoreTypeOK, RingTypeOK
<1>12. LiveWindow'
  <2>1. /\ Len(renamed) \in Nat /\ Len(renamed') = Len(renamed) + 1
        /\ \A k \in 1 .. Len(renamed) : renamed'[k] = renamed[k]
        /\ renamed'[Len(renamed) + 1] = u
    BY <1>1, <1>5
  <2>2. /\ NumReleased' = NumReleased /\ NumReleased \in Nat
        /\ NumReleased + NumLive = Len(renamed)
    BY <2>1, <1>6, <1>8 DEF NumReleased, LiveWindow
  <2>3. ASSUME NEW i \in 0 .. NumLive
        PROVE  /\ entries'[SlotAt(i)].state \notin {"Empty", "Retired"}
               /\ entries'[SlotAt(i)].uop = renamed'[NumReleased + 1 + i].id
    <3>1. CASE i = NumLive
      BY <3>1, <2>1, <2>2, <1>6, <1>9
    <3>2. CASE i < NumLive
      <4>1. SlotAt(i) \in Slots \ {new}
        BY <3>2, <1>6
      <4>2. /\ entries[SlotAt(i)].state \notin {"Empty", "Retired"}
            /\ entries[SlotAt(i)].uop = renamed[NumReleased + 1 + i].id
        BY <3>2, <1>6 DEF LiveWindow
      <4>3. renamed'[NumReleased + 1 + i] = renamed[NumReleased + 1 + i]
        BY <3>2, <2>1, <2>2, <1>6
      <4> QED BY <4>1, <4>2, <4>3, <1>10
    <3> QED BY <3>1, <3>2, <1>6
  <2>4. ASSUME NEW i \in NumLive + 1 .. NumROBEntries - 1
        PROVE  entries'[SlotAt(i)].state = "Empty"
    <3>1. SlotAt(i) \in Slots \ {new} /\ i \in NumLive .. NumROBEntries - 1
      BY <1>6
    <3>2. entries[SlotAt(i)].state = "Empty"
      BY <3>1 DEF LiveWindow
    <3> QED BY <3>1, <3>2, <1>10
  <2>5. /\ NumLive' - 1 = NumLive /\ NumLive' <= Len(renamed')
        /\ \A i \in 0 .. NumLive : SlotAt(i)' = SlotAt(i)
        /\ \A i \in NumLive + 1 .. NumROBEntries - 1 : SlotAt(i)' = SlotAt(i)
    BY <2>1, <2>2, <1>6, <1>8
  <2> QED BY <2>2, <2>3, <2>4, <2>5, <1>8 DEF LiveWindow
<1>13. InOrderRetirement'
  <2> DEFINE n == Len(retiring)
  <2>1. /\ n \in 0 .. NumLive
        /\ \A k \in 1 .. n : retiring[k] = SlotAt(k - 1)
        /\ firstRetirable = SlotAt(n)
    BY <1>6 DEF InOrderRetirement, TypeOK
  <2>2. ASSUME NEW i \in 0 .. NumLive
        PROVE  entries'[SlotAt(i)].state = "SentForRetirement" <=> i < n
    <3>1. CASE i = NumLive
      BY <3>1, <2>1, <1>6, <1>9
    <3>2. CASE i < NumLive
      <4>1. SlotAt(i) \in Slots \ {new}
        BY <3>2, <1>6
      <4>2. entries[SlotAt(i)].state = "SentForRetirement" <=> i < n
        BY <3>2, <1>6 DEF InOrderRetirement
      <4> QED BY <4>1, <4>2, <1>10
    <3> QED BY <3>1, <3>2, <1>6
  <2>3. ASSUME NEW k \in 1 .. n
        PROVE  retiring'[k] = SlotAt(k - 1)'
    BY <2>1, <1>5, <1>6, <1>8
  <2>4. firstRetirable' = SlotAt(Len(retiring))'
    <3>1. \A i \in 0 .. NumROBEntries :
            i = Len(retiring') => SlotAt(Len(retiring))' = SlotAt(i)'
      BY DEF SlotAt
    <3>2. n \in 0 .. NumROBEntries
      BY <2>1, <1>6
    <3> QED BY <3>1, <3>2, <2>1, <1>5, <1>8
  <2>5. /\ NumLive' - 1 = NumLive /\ Len(retiring') = n /\ n <= NumLive'
        /\ \A i \in 0 .. NumLive : SlotAt(i)' = SlotAt(i)
    BY <2>1, <1>5, <1>6, <1>8
  <2> QED BY <2>2, <2>3, <2>4, <2>5 DEF InOrderRetirement
<1>14. InFlightMatchesState'
  BY <1>5, <1>7, <1>9, <1>10 DEF InFlightMatchesState
<1>15. DependencyGraph'
  <2>1. ASSUME NEW j \in Slots
        PROVE  entries'[j].unsat # {} <=> entries'[j].state = "WaitingForInputs"
    BY <1>9, <1>10 DEF DependencyGraph
  <2>2. ASSUME NEW j \in Slots, NEW i \in Slots
        PROVE  i \in entries'[j].unsat <=>
                 /\ j \in entries'[i].dependents
                 /\ entries'[i].state \notin DoneStates
    <3>1. i \in entries[j].unsat <=> /\ j \in entries[i].dependents
                                     /\ entries[i].state \notin DoneStates
      BY DEF DependencyGraph
    <3>2. CASE i = new
      BY <3>1, <3>2, <1>4, <1>7, <1>9, <1>10 DEF DoneStates
    <3>3. CASE i # new
      <4>1. entries'[i].state \notin DoneStates <=> entries[i].state \notin DoneStates
        BY <3>3, <1>10
      <4>2. CASE j = new
        BY <3>1, <3>3, <4>1, <4>2, <1>4, <1>7, <1>9, <1>10
      <4>3. CASE j # new
        BY <3>1, <3>3, <4>1, <4>3, <1>10
      <4> QED BY <4>2, <4>3
    <3> QED BY <3>2, <3>3
  <2> QED BY <2>1, <2>2 DEF DependencyGraph
<1> QED BY <1>11, <1>12, <1>13, <1>14, <1>15

-----------------------------------------------------------------------------
(* The theorems.                                                           *)

LEMMA NextIInv == IInv /\ [Next]_vars => IInv'
<1> SUFFICES ASSUME IInv, [Next]_vars PROVE IInv'
  OBVIOUS
<1>1. CASE DeleteRetired
  BY <1>1, DeleteRetiredKeeps
<1>2. ASSUME NEW u \in Arrivals, ReadNewUop(u) PROVE IInv'
  BY <1>2, ReadNewUopKeeps
<1>3. ASSUME NEW i \in Slots, OutputsAvailable(i) PROVE IInv'
  BY <1>3, OutputsAvailableKeeps
<1>4. ASSUME NEW i \in Slots, WrittenBack(i) PROVE IInv'
  BY <1>4, WrittenBackKeeps
<1>5. CASE VisitPortless
  BY <1>5, VisitPortlessKeeps
<1>6. ASSUME NEW p \in Ports, VisitIssue(p) PROVE IInv'
  BY <1>6, VisitIssueKeeps
<1>7. CASE VisitSkip \/ NextLoop \/ UNCHANGED vars
  <2>1. UNCHANGED <<entries, firstEmpty, numEmpty, firstRetirable, inFlightDefs,
                    renamed, retiring, awaitingDeps, awaitingWriteback>>
    BY <1>7 DEF VisitSkip, NextLoop, vars, robVars, envVars
  <2>2. scan' \in 0 .. NumROBEntries
    BY <1>7 DEF VisitSkip, NextLoop, vars, IInv, TypeOK, CoreTypeOK, NumLive
  <2>3. phase' \in Phases
    BY <1>7 DEF VisitSkip, NextLoop, vars, IInv, TypeOK, Phases, NextPhase
  <2>4. TypeOK'
    BY <2>1, <2>2, <2>3 DEF IInv, TypeOK, CoreTypeOK
  <2>5. LiveWindow'
    BY <2>1, SameWindow DEF IInv
  <2>6. InOrderRetirement'
    BY <2>1, SameRetirement DEF IInv
  <2>7. InFlightMatchesState' /\ DependencyGraph'
    BY <2>1 DEF IInv, InFlightMatchesState, DependencyGraph
  <2> QED BY <2>4, <2>5, <2>6, <2>7 DEF IInv
<1>8. CASE SendForRetirement
  BY <1>8, SendForRetirementKeeps
<1> QED BY <1>1, <1>2, <1>3, <1>4, <1>5, <1>6, <1>7, <1>8 DEF Next, LoopStep

\* The inductive invariant holds in every reachable state, for every size of
\* the buffer and every environment: it needs neither DistinctDefs nor
\* PromptUops.
THEOREM Invariance == Spec => []IInv
BY InitIInv, NextIInv, PTL DEF Spec

\* Every variable of the reorder buffer keeps its type.
THEOREM TypeCorrectness == Spec => []TypeOK
BY Invariance, PTL DEF IInv

\* The ring holds exactly the youngest uops in program order: no uop is lost,
\* overwritten or released early, wherever the indices wrap.
THEOREM RingHoldsWindow == Spec => []LiveWindow
BY Invariance, PTL DEF IInv

\* Uops are retired in program order, oldest entry first.
THEOREM RetiresInOrder == Spec => []InOrderRetirement
BY Invariance, PTL DEF IInv

\* The states of the entries agree with what is in the execution units.
THEOREM StatesMatchUnits == Spec => []InFlightMatchesState
BY Invariance, PTL DEF IInv

\* UnsatisfiedDependencies and DependentEntries mirror each other, also when
\* Clear leaves a set as it is and a dependency is on a retired entry.
THEOREM DependenciesMirrored == Spec => []DependencyGraph
BY Invariance, PTL DEF IInv

-----------------------------------------------------------------------------
(* What an entry waits for, in the environment that the renamer gives.     *)

\* An entry keeps the registers that its uop defines, which is what
\* DeleteRetiredUops erases from InFlightRegisterDefs_.
DefsOfUops ==
  \A k \in LivePositions : entries[SlotOf(k)].defs = renamed[k].defs

\* InFlightRegisterDefs_ only points to uops in the buffer.
InFlightDefsAreLive ==
  \A r \in Regs : inFlightDefs[r] # NoEntry =>
    \E k \in LivePositions : SlotOf(k) = inFlightDefs[r] /\ r \in renamed[k].defs

\* What SendUopsForExecution leaves behind it.
Lingers(i) == entries[i].state = "ReadyToExecute" /\ entries[i].ports = {}

ScanLeavesNone ==
  /\ phase = "execute" => scan <= NumLive
  /\ phase = "execute" => \A i \in 0 .. scan - 1 : ~ Lingers(SlotAt(i))
  /\ phase = "retire" => \A i \in Slots : ~ Lingers(i)

\* The parts about entries that a step of one loop disturbs together, ...
WaitsForOlder == DefsOfUops /\ InFlightDefsAreLive /\ NoRetiredDependency

\* ... the inductive invariant for PromptUops, ...
OlderInv == IInv /\ WaitsForOlder /\ ScanLeavesNone

UniqueDefs ==
  \A k, m \in 1 .. Len(renamed) : k # m => renamed[k].defs \cap renamed[m].defs = {}

InFlightDefsAreComplete ==
  \A k \in LivePositions : \A r \in renamed[k].defs : inFlightDefs[r] = SlotOf(k)

UnsatisfiedAreProducers ==
  \A k, m \in LivePositions :
    SlotOf(m) \in entries[SlotOf(k)].unsat
      <=> m \in Machine!Producers(k) /\ ~ HasOutputs(m)

WaitsForExactly ==
  UniqueDefs /\ InFlightDefsAreComplete /\ UnsatisfiedAreProducers

\* ... and the one for PromptUops and DistinctDefs.
ProducerInv == OlderInv /\ WaitsForExactly

-----------------------------------------------------------------------------
(* Live positions and their slots.                                         *)

LEMMA Positions ==
  ASSUME TypeOK, LiveWindow
  PROVE  /\ NumReleased \in Nat /\ Len(renamed) \in Nat
         /\ NumLive \in 0 .. NumROBEntries /\ NumReleased + NumLive = Len(renamed)
         /\ LivePositions \subseteq 1 .. Len(renamed)
         /\ \A k \in LivePositions : /\ k - NumReleased - 1 \in 0 .. NumLive - 1
                                     /\ SlotOf(k) \in Slots
                                     /\ StateOf(k) \notin {"Empty", "Retired"}
         /\ \A k, m \in LivePositions : SlotOf(k) = SlotOf(m) => k = m
         /\ \A i \in 0 .. NumLive - 1 : /\ NumReleased + 1 + i \in LivePositions
                                        /\ SlotOf(NumReleased + 1 + i) = SlotAt(i)
         /\ \A s \in Slots : entries[s].state # "Empty" =>
              \E k \in LivePositions : SlotOf(k) = s
<1>1. /\ Len(renamed) \in Nat
      /\ NumLive \in 0 .. NumROBEntries
      /\ \A i \in 0 .. NumROBEntries : SlotAt(i) \in Slots
      /\ \A i, j \in 0 .. NumROBEntries - 1 : SlotAt(i) = SlotAt(j) => i = j
      /\ \A s \in Slots : \E i \in 0 .. NumROBEntries - 1 : s = SlotAt(i)
  <2>1. renamed \in Seq(RenamedUops)
    BY DEF TypeOK
  <2> QED BY <2>1, TypeOKRing, RingPositions
<1>2. NumReleased \in Nat /\ NumReleased + NumLive = Len(renamed)
  BY <1>1 DEF LiveWindow, NumReleased
<1>3. LivePositions \subseteq 1 .. Len(renamed)
  BY <1>1, <1>2 DEF LivePositions
<1>4. \A k \in LivePositions : k - NumReleased - 1 \in 0 .. NumLive - 1
  BY <1>1, <1>2 DEF LivePositions
<1>5. ASSUME NEW k \in LivePositions
      PROVE  SlotOf(k) \in Slots /\ StateOf(k) \notin {"Empty", "Retired"}
  <2>1. k - NumReleased - 1 \in 0 .. NumROBEntries
    BY <1>1, <1>2, <1>4
  <2> QED BY <2>1, <1>1, <1>4 DEF SlotOf, StateOf, LiveWindow
<1>6. ASSUME NEW k \in LivePositions, NEW m \in LivePositions, SlotOf(k) = SlotOf(m)
      PROVE  k = m
  <2>1. /\ k - NumReleased - 1 \in 0 .. NumROBEntries - 1
        /\ m - NumReleased - 1 \in 0 .. NumROBEntries - 1
    BY <1>1, <1>2, <1>4
  <2>2. k - NumReleased - 1 = m - NumReleased - 1
    BY <2>1, <1>1, <1>6 DEF SlotOf
  <2> QED BY <2>2, <1>1, <1>2 DEF LivePositions
<1>7. ASSUME NEW i \in 0 .. NumLive - 1
      PROVE  /\ NumReleased + 1 + i \in LivePositions
             /\ SlotOf(NumReleased + 1 + i) = SlotAt(i)
  <2>1. NumReleased + 1 + i \in LivePositions
    BY <1>1, <1>2 DEF LivePositions
  <2>2. (NumReleased + 1 + i) - NumReleased - 1 = i
    BY <1>2
  <2> QED BY <2>1, <2>2 DEF SlotOf
<1>8. ASSUME NEW s \in Slots, entries[s].state # "Empty"
      PROVE  \E k \in LivePositions : SlotOf(k) = s
  <2>1. PICK i \in 0 .. NumROBEntries - 1 : s = SlotAt(i)
    BY <1>1
  <2>2. i \in 0 .. NumLive - 1
    BY <2>1, <1>1, <1>8 DEF LiveWindow
  <2> QED BY <2>1, <2>2, <1>7
<1> QED BY <1>1, <1>2, <1>3, <1>4, <1>5, <1>6, <1>7, <1>8

\* Positions and producers stay where they are while no uop comes or goes.
LEMMA SamePositions ==
  ASSUME UNCHANGED <<firstEmpty, numEmpty, renamed>>
  PROVE  /\ NumLive' = NumLive /\ NumReleased' = NumReleased
         /\ LivePositions' = LivePositions
         /\ \A k : SlotOf(k)' = SlotOf(k)
         /\ \A k : Machine!Producers(k)' = Machine!Producers(k)
<1>1. NumLive' = NumLive /\ \A i : SlotAt(i)' = SlotAt(i)
  BY SameRing
<1>2. NumReleased' = NumReleased
  BY <1>1 DEF NumReleased
<1>3. LivePositions' = LivePositions
  BY <1>2 DEF LivePositions
<1>4. \A k : SlotOf(k)' = SlotOf(k)
  BY <1>2 DEF SlotOf, SlotAt, OldestEntry
<1>5. \A k : Machine!Producers(k)' = Machine!Producers(k)
  BY DEF Machine!Producers
<1> QED BY <1>1, <1>2, <1>3, <1>4, <1>5

\* Reading a uop adds the position after the last one ...
LEMMA ReadPositions ==
  ASSUME TypeOK, LiveWindow, NEW u \in RenamedUops, numEmpty > 0,
         firstEmpty' = NextSlot(firstEmpty), numEmpty' = numEmpty - 1,
         renamed' = Append(renamed, u)
  PROVE  /\ NumReleased' = NumReleased
         /\ LivePositions' = LivePositions \cup {Len(renamed) + 1}
         /\ Len(renamed) + 1 \notin LivePositions
         /\ \A k \in LivePositions' : SlotOf(k)' = SlotOf(k)
         /\ SlotOf(Len(renamed) + 1) = firstEmpty
         /\ renamed'[Len(renamed) + 1] = u
         /\ Len(renamed') = Len(renamed) + 1
         /\ \A k \in 1 .. Len(renamed) : renamed'[k] = renamed[k]
         /\ \A k \in 1 .. Len(renamed) : Machine!Producers(k)' = Machine!Producers(k)
<1>1. /\ NumReleased \in Nat /\ Len(renamed) \in Nat
      /\ NumLive \in 0 .. NumROBEntries /\ NumReleased + NumLive = Len(renamed)
  BY Positions
<1>2. /\ NumLive' = NumLive + 1
      /\ \A i \in 0 .. NumROBEntries : SlotAt(i)' = SlotAt(i)
      /\ NumLive < NumROBEntries
      /\ SlotAt(NumLive) = firstEmpty
  BY TypeOKRing, ReserveKeeps, RingPositions DEF NumLive, RingTypeOK
<1>3. /\ renamed'[Len(renamed) + 1] = u
      /\ Len(renamed') = Len(renamed) + 1
      /\ \A k \in 1 .. Len(renamed) : renamed'[k] = renamed[k]
  <2>1. renamed \in Seq(RenamedUops)
    BY DEF TypeOK
  <2> QED BY <2>1
<1>4. NumReleased' = NumReleased
  BY <1>1, <1>2, <1>3 DEF NumReleased
<1>5. /\ LivePositions' = LivePositions \cup {Len(renamed) + 1}
      /\ Len(renamed) + 1 \notin LivePositions
  BY <1>1, <1>3, <1>4 DEF LivePositions
<1>6. ASSUME NEW k \in LivePositions'
      PROVE  SlotOf(k)' = SlotOf(k)
  <2>1. PICK i \in 0 .. NumROBEntries : i = k - NumReleased - 1
    BY <1>1, <1>2, <1>5 DEF LivePositions
  <2>2. SlotOf(k) = SlotAt(i)
    BY <2>1 DEF SlotOf
  <2>3. SlotOf(k)' = SlotAt(i)'
    BY <2>1, <1>4 DEF SlotOf, SlotAt, OldestEntry
  <2> QED BY <2>2, <2>3, <1>2
<1>7. SlotOf(Len(renamed) + 1) = firstEmpty
  <2>1. (Len(renamed) + 1) - NumReleased - 1 = NumLive
    BY <1>1
  <2> QED BY <2>1, <1>2 DEF SlotOf
<1>8. ASSUME NEW k \in 1 .. Len(renamed)
      PROVE  Machine!Producers(k)' = Machine!Producers(k)
  <2>1. \A m \in 1 .. k : renamed'[m] = renamed[m]
    BY <1>3, <1>1
  <2> QED BY <2>1, <1>1 DEF Machine!Producers
<1> QED BY <1>3, <1>4, <1>5, <1>6, <1>7, <1>8

\* ... and releasing the oldest entry takes the first one away.
LEMMA ReleasePositions ==
  ASSUME TypeOK, LiveWindow, NumLive >= 1,
         firstEmpty' = firstEmpty, numEmpty' = numEmpty + 1, renamed' = renamed
  PROVE  /\ NumReleased' = NumReleased + 1
         /\ NumReleased + 1 \in LivePositions
         /\ SlotOf(NumReleased + 1) = SlotAt(0)
         /\ LivePositions' = LivePositions \ {NumReleased + 1}
         /\ \A k \in LivePositions' : SlotOf(k)' = SlotOf(k)
         /\ \A k : Machine!Producers(k)' = Machine!Producers(k)
<1>1. /\ NumReleased \in Nat /\ Len(renamed) \in Nat
      /\ NumLive \in 0 .. NumROBEntries /\ NumReleased + NumLive = Len(renamed)
  BY Positions
<1>2. /\ NumLive' = NumLive - 1
      /\ \A i \in 0 .. NumROBEntries - 1 : SlotAt(i)' = SlotAt(i + 1)
  <2>1. numEmpty < NumROBEntries
    BY TypeOKRing DEF NumLive, RingTypeOK
  <2> QED BY <2>1, TypeOKRing, ReleaseShifts
<1>3. NumReleased' = NumReleased + 1
  BY <1>1, <1>2 DEF NumReleased
<1>4. /\ NumReleased + 1 \in LivePositions
      /\ LivePositions' = LivePositions \ {NumReleased + 1}
  BY <1>1, <1>3 DEF LivePositions
<1>5. SlotOf(NumReleased + 1) = SlotAt(0)
  <2>1. (NumReleased + 1) - NumReleased - 1 = 0
    BY <1>1
  <2> QED BY <2>1 DEF SlotOf
<1>6. ASSUME NEW k \in LivePositions'
      PROVE  SlotOf(k)' = SlotOf(k)
  <2>1. PICK i \in 0 .. NumROBEntries - 1 : i = k - (NumReleased + 1) - 1
    BY <1>1, <1>4 DEF LivePositions
  <2>2. SlotOf(k)' = SlotAt(i)'
    BY <2>1, <1>3 DEF SlotOf, SlotAt, OldestEntry
  <2>3. i + 1 = k - NumReleased - 1
    BY <2>1, <1>1, <1>4 DEF LivePositions
  <2>4. SlotOf(k) = SlotAt(i + 1)
    BY <2>3 DEF SlotOf
  <2> QED BY <2>2, <2>4, <1>2
<1>7. \A k : Machine!Producers(k)' = Machine!Producers(k)
  BY DEF Machine!Producers
<1> QED BY <1>3, <1>4, <1>5, <1>6, <1>7

-----------------------------------------------------------------------------
(* Steps that change entries but neither the ring nor the definitions.     *)

\* Completing the uop in entry i takes i out of every set of unsatisfied
\* dependencies, and wakes only entries that had it there.
LEMMA CompletionSatisfies ==
  ASSUME TypeOK, DependencyGraph,
         NEW i \in Slots, NEW s \in {"OutputsAvailable", "ReadyToRetire"},
         entries[i].state \in {"ReadyToExecute", "Issued"},
         entries' = SatisfyDependents([entries EXCEPT ![i].state = s], i)
  PROVE  \A j \in Slots :
           /\ entries'[j].defs = entries[j].defs
           /\ entries'[j].ports = entries[j].ports
           /\ entries'[j].unsat = entries[j].unsat \ {i}
           /\ entries'[j].state \in DoneStates <=>
                entries[j].state \in DoneStates \/ j \in {i}
           /\ entries'[j].state # entries[j].state => j = i \/ i \in entries[j].unsat
<1> SUFFICES ASSUME NEW j \in Slots
             PROVE  /\ entries'[j].defs = entries[j].defs
                    /\ entries'[j].ports = entries[j].ports
                    /\ entries'[j].unsat = entries[j].unsat \ {i}
                    /\ entries'[j].state \in DoneStates <=>
                         entries[j].state \in DoneStates \/ j \in {i}
                    /\ entries'[j].state # entries[j].state =>
                         j = i \/ i \in entries[j].unsat
  OBVIOUS
<1>1. entries \in [Slots -> ROBEntries] /\ entries[j] \in ROBEntries
  BY DEF TypeOK, CoreTypeOK
<1> DEFINE es == [entries EXCEPT ![i].state = s]
<1>2. /\ es[j].defs = entries[j].defs /\ es[j].ports = entries[j].ports
      /\ es[j].unsat = entries[j].unsat
      /\ es[j].state = IF j = i THEN s ELSE entries[j].state
      /\ es[j] \in ROBEntries
      /\ es[i].dependents = entries[i].dependents
  BY <1>1 DEF ROBEntries, States
<1>3. entries' = SatisfyDependents(es, i)
  OBVIOUS
<1> HIDE DEF es
<1>4. /\ entries'[i].state = s
      /\ j # i => \/ entries'[j].state = entries[j].state
                  \/ /\ entries[j].state = "WaitingForInputs"
                     /\ entries'[j].state = "ReadyToExecute"
  BY Completion
<1>5. CASE j \in entries[i].dependents
  <2>1. entries'[j] = [es[j] EXCEPT !.unsat = es[j].unsat \ {i},
                                    !.state = IF es[j].unsat \subseteq {i}
                                      THEN "ReadyToExecute" ELSE es[j].state]
    BY <1>2, <1>3, <1>5 DEF SatisfyDependents
  <2>2. i \in entries[j].unsat
    BY <1>5 DEF DependencyGraph, DoneStates
  <2> QED BY <2>1, <2>2, <1>2, <1>4 DEF ROBEntries, DoneStates
<1>6. CASE j \notin entries[i].dependents
  <2>1. entries'[j] = es[j]
    BY <1>2, <1>3, <1>6 DEF SatisfyDependents
  <2>2. i \notin entries[j].unsat
    BY <1>6 DEF DependencyGraph
  <2> QED BY <2>1, <2>2, <1>2, <1>4 DEF DoneStates
<1> QED BY <1>5, <1>6

\* What an entry waits for stays exact when entries complete with, and only
\* with, being taken out of the sets of unsatisfied dependencies.
LEMMA EntriesComplete ==
  ASSUME TypeOK, LiveWindow,
         UNCHANGED <<firstEmpty, numEmpty, renamed, inFlightDefs>>,
         NEW completed \in SUBSET Slots,
         \A j \in Slots :
           /\ entries'[j].defs = entries[j].defs
           /\ entries'[j].unsat = entries[j].unsat \ completed
           /\ entries'[j].state \in DoneStates <=>
                entries[j].state \in DoneStates \/ j \in completed
  PROVE  /\ WaitsForOlder => WaitsForOlder'
         /\ WaitsForExactly => WaitsForExactly'
<1>1. /\ LivePositions' = LivePositions
      /\ \A k : SlotOf(k)' = SlotOf(k)
      /\ \A k : Machine!Producers(k)' = Machine!Producers(k)
  BY SamePositions
<1>2. \A k \in LivePositions : SlotOf(k) \in Slots
  BY Positions
<1>3. \A k \in LivePositions :
        HasOutputs(k)' <=> HasOutputs(k) \/ SlotOf(k) \in completed
  BY <1>1, <1>2 DEF HasOutputs, StateOf
<1>4. ASSUME WaitsForOlder
      PROVE  WaitsForOlder'
  <2>1. DefsOfUops'
    BY <1>1, <1>2, <1>4 DEF WaitsForOlder, DefsOfUops
  <2>2. InFlightDefsAreLive'
    BY <1>1, <1>4 DEF WaitsForOlder, InFlightDefsAreLive
  <2>3. NoRetiredDependency'
    BY <1>1, <1>2, <1>3, <1>4 DEF WaitsForOlder, NoRetiredDependency
  <2> QED BY <2>1, <2>2, <2>3 DEF WaitsForOlder
<1>5. ASSUME WaitsForExactly
      PROVE  WaitsForExactly'
  <2>1. UniqueDefs' /\ InFlightDefsAreComplete'
    BY <1>1, <1>5 DEF WaitsForExactly, UniqueDefs, InFlightDefsAreComplete
  <2>2. UnsatisfiedAreProducers'
    BY <1>1, <1>2, <1>3, <1>5 DEF WaitsForExactly, UnsatisfiedAreProducers
  <2> QED BY <2>1, <2>2 DEF WaitsForExactly
<1> QED BY <1>4, <1>5

\* A step that only changes the state of one entry, where no dependency can
\* tell.
LEMMA StateChanges ==
  ASSUME TypeOK, LiveWindow, NEW i \in Slots,
         NEW s \in {"Issued", "ReadyToRetire", "SentForRetirement"},
         entries[i].state \in DoneStates <=> s \in DoneStates,
         entries' = [entries EXCEPT ![i].state = s],
         UNCHANGED <<firstEmpty, numEmpty, renamed, inFlightDefs>>
  PROVE  /\ WaitsForOlder => WaitsForOlder'
         /\ WaitsForExactly => WaitsForExactly'
         /\ \A j \in Slots \ {i} : entries'[j] = entries[j]
         /\ entries'[i].state = s
<1>1. \A j \in Slots :
        /\ entries'[j].defs = entries[j].defs
        /\ entries'[j].unsat = entries[j].unsat
        /\ entries'[j].state = IF j = i THEN s ELSE entries[j].state
        /\ j # i => entries'[j] = entries[j]
  <2>1. entries \in [Slots -> ROBEntries]
    BY DEF TypeOK, CoreTypeOK
  <2> QED BY <2>1 DEF ROBEntries
<1>2. PICK none \in SUBSET Slots : none = {}
  OBVIOUS
<1>3. \A j \in Slots :
        /\ entries'[j].defs = entries[j].defs
        /\ entries'[j].unsat = entries[j].unsat \ none
        /\ entries'[j].state \in DoneStates <=>
             entries[j].state \in DoneStates \/ j \in none
  BY <1>1, <1>2
<1>4. /\ WaitsForOlder => WaitsForOlder'
      /\ WaitsForExactly => WaitsForExactly'
  BY <1>3, EntriesComplete
<1> QED BY <1>1, <1>4

-----------------------------------------------------------------------------
(* ReadNewUops.                                                            *)

\* The entry before the first empty one is that of the youngest live uop.
LEMMA PrevPosition ==
  ASSUME TypeOK, LiveWindow, numEmpty < NumROBEntries
  PROVE  /\ Len(renamed) \in LivePositions
         /\ SlotOf(Len(renamed)) = PrevSlot(firstEmpty)
<1>1. /\ NumReleased \in Nat /\ Len(renamed) \in Nat
      /\ NumLive \in 0 .. NumROBEntries /\ NumReleased + NumLive = Len(renamed)
  BY Positions
<1>2. NumLive >= 1 /\ RingTypeOK
  BY TypeOKRing DEF NumLive, RingTypeOK
<1>3. Len(renamed) \in LivePositions /\ Len(renamed) - NumReleased - 1 = NumLive - 1
  BY <1>1, <1>2 DEF LivePositions
<1>4. SlotAt(NumLive - 1) = PrevSlot(firstEmpty)
  BY <1>2 DEF RingTypeOK, Slots, SlotAt, OldestEntry, NumLive, PrevSlot
<1> QED BY <1>3, <1>4 DEF SlotOf

\* What reading uop u does to the entries.
LEMMA ReadNewUopEffect ==
  ASSUME IInv, NEW u \in Arrivals, ReadNewUop(u)
  PROVE  /\ u \in RenamedUops
         /\ firstEmpty \in Slots /\ entries[firstEmpty].state = "Empty"
         /\ InputDependencies(u) \in SUBSET Slots
         /\ entries'[firstEmpty].defs = u.defs
         /\ entries'[firstEmpty].unsat = InputDependencies(u)
         /\ \A j \in Slots \ {firstEmpty} :
              /\ entries'[j].state = entries[j].state
              /\ entries'[j].defs = entries[j].defs
              /\ entries'[j].unsat = entries[j].unsat
         /\ inFlightDefs' = [r \in Regs |->
              IF r \in u.defs /\ inFlightDefs[r] = NoEntry THEN firstEmpty
                                                           ELSE inFlightDefs[r]]
         /\ numEmpty > 0 /\ numEmpty' = numEmpty - 1
         /\ firstEmpty' = NextSlot(firstEmpty)
         /\ renamed' = Append(renamed, u)
<1> USE DEF IInv
<1> DEFINE new == firstEmpty
           deps == InputDependencies(u)
<1>1. /\ RingTypeOK /\ entries \in [Slots -> ROBEntries] /\ new \in Slots
      /\ inFlightDefs \in [Regs -> Slots \cup {NoEntry}]
  BY TypeOKRing DEF TypeOK, CoreTypeOK
<1>2. u \in RenamedUops
  BY ArrivalsAreUops
<1>3. deps \in SUBSET Slots
  <2>1. PrevDependency(u) \in SUBSET Slots
    BY <1>1 DEF PrevDependency, PrevSlot, Slots
  <2>2. UseDependencies(u) \in SUBSET Slots
    BY <1>1, <1>2 DEF UseDependencies, RenamedUops
  <2> QED BY <2>1, <2>2 DEF InputDependencies
<1>4. /\ numEmpty > 0
      /\ entries' = [i \in Slots |->
           IF i = new
           THEN [state |-> IF entries[new].unsat \cup deps = {}
                           THEN "ReadyToExecute" ELSE "WaitingForInputs",
                 uop |-> u.id, defs |-> u.defs,
                 ports |-> entries[i].ports \cup u.ports,
                 unsat |-> entries[new].unsat \cup deps,
                 dependents |-> entries[i].dependents \cup (deps \cap {i})]
           ELSE IF i \in deps
           THEN [entries[i] EXCEPT !.dependents = entries[i].dependents \cup {new}]
           ELSE entries[i]]
      /\ inFlightDefs' = [r \in Regs |->
           IF r \in u.defs /\ inFlightDefs[r] = NoEntry THEN new
                                                        ELSE inFlightDefs[r]]
      /\ numEmpty' = numEmpty - 1
      /\ firstEmpty' = NextSlot(firstEmpty)
      /\ renamed' = Append(renamed, u)
  BY DEF ReadNewUop, CoreReadNewUop
<1>5. entries[new].state = "Empty" /\ entries[new].unsat = {}
  <2>1. NumLive # NumROBEntries
    BY <1>1, <1>4 DEF NumLive, RingTypeOK
  <2>2. NumLive \in NumLive .. NumROBEntries - 1 /\ SlotAt(NumLive) = new
    BY <2>1, <1>1, <1>4, RingPositions
  <2> QED BY <2>2, <1>1 DEF LiveWindow, DependencyGraph
<1> HIDE DEF new, deps
<1>6. entries'[new].defs = u.defs /\ entries'[new].unsat = deps
  BY <1>1, <1>4, <1>5
<1>7. ASSUME NEW j \in Slots \ {new}
      PROVE  /\ entries'[j].state = entries[j].state
             /\ entries'[j].defs = entries[j].defs
             /\ entries'[j].unsat = entries[j].unsat
  <2>1. entries'[j] = IF j \in deps
          THEN [entries[j] EXCEPT !.dependents = entries[j].dependents \cup {new}]
          ELSE entries[j]
    BY <1>4
  <2>2. entries[j] \in ROBEntries
    BY <1>1
  <2> QED BY <2>1, <2>2 DEF ROBEntries
<1> QED BY <1>1, <1>2, <1>3, <1>4, <1>5, <1>6, <1>7 DEF new, deps

\* The dependencies of the new uop are live uops without outputs.
LEMMA DependenciesAreLive ==
  ASSUME IInv, InFlightDefsAreLive, PromptUops, NEW u \in Arrivals, ReadNewUop(u),
         NEW d \in InputDependencies(u)
  PROVE  \E m \in LivePositions : SlotOf(m) = d /\ ~ HasOutputs(m)
<1> USE DEF IInv
<1>1. CASE d \in UseDependencies(u)
  <2>1. PICK r \in u.uses : /\ d = inFlightDefs[r] /\ inFlightDefs[r] # NoEntry
                            /\ entries[d].state \notin DoneStates
    BY <1>1 DEF UseDependencies
  <2>2. r \in Regs
    BY ArrivalsAreUops DEF RenamedUops
  <2>3. PICK m \in LivePositions : SlotOf(m) = d
    BY <2>1, <2>2 DEF InFlightDefsAreLive
  <2> QED BY <2>1, <2>3 DEF HasOutputs, StateOf
<1>2. CASE d \in PrevDependency(u)
  <2>1. /\ u.id.index # 0 /\ d = PrevSlot(firstEmpty)
        /\ entries[d].state \notin DoneStates
    BY <1>2 DEF PrevDependency
  <2>2. numEmpty < NumROBEntries
    BY <2>1 DEF ReadNewUop, MayArrive
  <2>3. Len(renamed) \in LivePositions /\ SlotOf(Len(renamed)) = d
    BY <2>1, <2>2, PrevPosition
  <2> QED BY <2>1, <2>3 DEF HasOutputs, StateOf
<1> QED BY <1>1, <1>2 DEF InputDependencies

LEMMA ReadNewUopOlder ==
  ASSUME IInv, WaitsForOlder, PromptUops, NEW u \in Arrivals, ReadNewUop(u)
  PROVE  /\ WaitsForOlder'
         /\ \A k \in LivePositions : /\ SlotOf(k)' = SlotOf(k)
                                     /\ SlotOf(k) \in Slots \ {firstEmpty}
                                     /\ StateOf(k)' = StateOf(k)
                                     /\ HasOutputs(k)' = HasOutputs(k)
<1> DEFINE new == firstEmpty
           last == Len(renamed) + 1
           deps == InputDependencies(u)
<1>1. /\ u \in RenamedUops
      /\ new \in Slots /\ entries[new].state = "Empty"
      /\ entries'[new].defs = u.defs /\ entries'[new].unsat = deps
      /\ \A j \in Slots \ {new} : /\ entries'[j].state = entries[j].state
                                  /\ entries'[j].defs = entries[j].defs
                                  /\ entries'[j].unsat = entries[j].unsat
      /\ inFlightDefs' = [r \in Regs |->
           IF r \in u.defs /\ inFlightDefs[r] = NoEntry THEN new ELSE inFlightDefs[r]]
      /\ numEmpty > 0 /\ numEmpty' = numEmpty - 1
      /\ firstEmpty' = NextSlot(firstEmpty)
      /\ renamed' = Append(renamed, u)
  BY ReadNewUopEffect
<1>2. /\ NumReleased' = NumReleased
      /\ LivePositions' = LivePositions \cup {last}
      /\ last \notin LivePositions
      /\ \A k \in LivePositions' : SlotOf(k)' = SlotOf(k)
      /\ SlotOf(last) = new
      /\ renamed'[last] = u
      /\ \A k \in 1 .. Len(renamed) : renamed'[k] = renamed[k]
  BY <1>1, ReadPositions DEF IInv
<1>3. \A k \in LivePositions : /\ k \in 1 .. Len(renamed) /\ k < last
                               /\ SlotOf(k) \in Slots \ {new}
  BY <1>1, Positions DEF IInv, StateOf
<1>4. \A d \in deps : \E m \in LivePositions : SlotOf(m) = d /\ ~ HasOutputs(m)
  BY DependenciesAreLive DEF WaitsForOlder
<1> HIDE DEF new, last, deps
<1>5. \A k \in LivePositions :
        StateOf(k)' = StateOf(k) /\ HasOutputs(k)' = HasOutputs(k)
  BY <1>1, <1>2, <1>3 DEF HasOutputs, StateOf
<1>6. DefsOfUops'
  <2> SUFFICES ASSUME NEW k \in LivePositions'
               PROVE  entries'[SlotOf(k)'].defs = renamed'[k].defs
    BY DEF DefsOfUops
  <2>1. CASE k = last
    BY <2>1, <1>1, <1>2
  <2>2. CASE k # last
    BY <2>2, <1>1, <1>2, <1>3 DEF WaitsForOlder, DefsOfUops
  <2> QED BY <2>1, <2>2
<1>7. InFlightDefsAreLive'
  <2> SUFFICES ASSUME NEW r \in Regs, inFlightDefs'[r] # NoEntry
               PROVE  \E k \in LivePositions' : /\ SlotOf(k)' = inFlightDefs'[r]
                                                /\ r \in renamed'[k].defs
    BY DEF InFlightDefsAreLive, NoEntry
  <2>1. CASE inFlightDefs[r] = NoEntry
    <3>1. inFlightDefs'[r] = new /\ r \in u.defs
      BY <2>1, <1>1
    <3> QED BY <3>1, <1>2
  <2>2. CASE inFlightDefs[r] # NoEntry
    <3>1. inFlightDefs'[r] = inFlightDefs[r]
      BY <2>2, <1>1
    <3>2. PICK k \in LivePositions : /\ SlotOf(k) = inFlightDefs[r]
                                     /\ r \in renamed[k].defs
      BY <2>2 DEF WaitsForOlder, InFlightDefsAreLive
    <3> QED BY <3>1, <3>2, <1>2, <1>3
  <2> QED BY <2>1, <2>2
<1>8. NoRetiredDependency'
  <2> SUFFICES ASSUME NEW k \in LivePositions', NEW d \in entries'[SlotOf(k)'].unsat
               PROVE  \E m \in LivePositions' : /\ m < k /\ SlotOf(m)' = d
                                                /\ ~ HasOutputs(m)'
    BY DEF NoRetiredDependency
  <2>1. CASE k = last
    BY <2>1, <1>1, <1>2, <1>3, <1>4, <1>5
  <2>2. CASE k # last
    <3>1. k \in LivePositions /\ d \in entries[SlotOf(k)].unsat
      BY <2>2, <1>1, <1>2, <1>3
    <3>2. PICK m \in LivePositions : m < k /\ SlotOf(m) = d /\ ~ HasOutputs(m)
      BY <3>1 DEF WaitsForOlder, NoRetiredDependency
    <3> QED BY <3>2, <1>2, <1>5
  <2> QED BY <2>1, <2>2
<1> QED BY <1>2, <1>3, <1>5, <1>6, <1>7, <1>8 DEF WaitsForOlder, new

LEMMA ReadNewUopExact ==
  ASSUME IInv, WaitsForOlder, WaitsForExactly, PromptUops, DistinctDefs,
         NEW u \in Arrivals, ReadNewUop(u)
  PROVE  WaitsForExactly'
<1> USE DEF WaitsForOlder, WaitsForExactly
<1> DEFINE new == firstEmpty
           deps == InputDependencies(u)
<1>0. PICK last \in Nat : last = Len(renamed) + 1
  BY Positions DEF IInv
<1>1. /\ u \in RenamedUops
      /\ entries'[new].unsat = deps
      /\ \A j \in Slots \ {new} : entries'[j].unsat = entries[j].unsat
      /\ inFlightDefs' = [r \in Regs |->
           IF r \in u.defs /\ inFlightDefs[r] = NoEntry THEN new ELSE inFlightDefs[r]]
      /\ numEmpty > 0 /\ numEmpty' = numEmpty - 1
      /\ firstEmpty' = NextSlot(firstEmpty)
      /\ renamed' = Append(renamed, u)
  BY ReadNewUopEffect
<1>2. /\ LivePositions' = LivePositions \cup {last}
      /\ last \notin LivePositions
      /\ \A k \in LivePositions' : SlotOf(k)' = SlotOf(k)
      /\ SlotOf(last) = new
      /\ renamed'[last] = u
      /\ Len(renamed') = last
      /\ \A k \in 1 .. Len(renamed) : /\ renamed'[k] = renamed[k]
                                      /\ Machine!Producers(k)' = Machine!Producers(k)
  BY <1>0, <1>1, ReadPositions DEF IInv
<1>3. /\ Len(renamed) \in Nat
      /\ LivePositions \subseteq 1 .. Len(renamed)
      /\ \A k, m \in LivePositions : SlotOf(k) = SlotOf(m) => k = m
  BY Positions DEF IInv
<1>4. \A k \in LivePositions : /\ SlotOf(k) \in Slots \ {new}
                               /\ HasOutputs(k)' = HasOutputs(k)
  BY ReadNewUopOlder
<1>5. \A k \in 1 .. Len(renamed) : renamed[k].defs \cap u.defs = {}
  BY <1>3 DEF ReadNewUop, MayArrive, DefinedRegs
<1>6. UniqueDefs'
  BY <1>0, <1>2, <1>3, <1>5 DEF UniqueDefs
<1>7. InFlightDefsAreComplete'
  <2> SUFFICES ASSUME NEW k \in LivePositions', NEW r \in renamed'[k].defs
               PROVE  inFlightDefs'[r] = SlotOf(k)'
    BY DEF InFlightDefsAreComplete
  <2>1. CASE k = last
    <3>1. r \in u.defs /\ r \in Regs
      BY <2>1, <1>1, <1>2 DEF RenamedUops
    <3>2. inFlightDefs[r] = NoEntry
      BY <3>1, <1>3, <1>5 DEF InFlightDefsAreLive
    <3> QED BY <2>1, <3>1, <3>2, <1>1, <1>2
  <2>2. CASE k # last
    <3>1. k \in LivePositions /\ r \in renamed[k].defs
      BY <1>0, <2>2, <1>2, <1>3
    <3>2. r \in Regs
      <4>1. renamed[k] \in RenamedUops
        BY <3>1, <1>3 DEF IInv, TypeOK
      <4> QED BY <3>1, <4>1 DEF RenamedUops
    <3>3. inFlightDefs[r] = SlotOf(k) /\ inFlightDefs[r] # NoEntry
      BY <3>1, <1>4 DEF InFlightDefsAreComplete, NoEntry, Slots
    <3> QED BY <3>1, <3>2, <3>3, <1>1, <1>2
  <2> QED BY <2>1, <2>2
<1>8. \A d \in deps : \E m \in LivePositions : SlotOf(m) = d /\ ~ HasOutputs(m)
  BY DependenciesAreLive
\* What the new uop depends on are its producers without outputs.
<1>9. ASSUME NEW m \in LivePositions
      PROVE  SlotOf(m) \in deps <=> m \in Machine!Producers(last)' /\ ~ HasOutputs(m)
  <2>1. m \in 1 .. last - 1 /\ renamed'[m] = renamed[m]
    BY <1>0, <1>2, <1>3
  <2>2. m \in Machine!Producers(last)' <=>
          \/ \E r \in u.uses \cap renamed[m].defs :
               \A n \in m + 1 .. last - 1 : r \notin renamed[n].defs
          \/ u.id.index # 0 /\ m = last - 1
    <3>1. \A n \in m + 1 .. last - 1 : renamed'[n] = renamed[n]
      BY <1>0, <1>2, <1>3, <2>1
    <3> QED BY <3>1, <2>1, <1>2 DEF Machine!Producers
  <2>3. \A r \in renamed[m].defs : \A n \in m + 1 .. last - 1 : r \notin renamed[n].defs
    BY <1>0, <2>1, <1>3 DEF UniqueDefs
  <2>4. SlotOf(m) \in UseDependencies(u) <=>
          (\E r \in u.uses : r \in renamed[m].defs) /\ ~ HasOutputs(m)
    <3>1. ASSUME NEW r \in u.uses
          PROVE  r \in renamed[m].defs <=> /\ inFlightDefs[r] # NoEntry
                                           /\ inFlightDefs[r] = SlotOf(m)
      <4>1. r \in Regs
        BY <1>1 DEF RenamedUops
      <4>2. SlotOf(m) # NoEntry
        BY <1>4 DEF Slots, NoEntry
      <4>3. ASSUME r \in renamed[m].defs
            PROVE  inFlightDefs[r] = SlotOf(m)
        BY <4>3 DEF InFlightDefsAreComplete
      <4>4. ASSUME inFlightDefs[r] # NoEntry, inFlightDefs[r] = SlotOf(m)
            PROVE  r \in renamed[m].defs
        BY <4>1, <4>4, <1>3 DEF InFlightDefsAreLive
      <4> QED BY <4>2, <4>3, <4>4
    <3>2. HasOutputs(m) <=> entries[SlotOf(m)].state \in DoneStates
      BY DEF HasOutputs, StateOf
    <3> QED BY <3>1, <3>2 DEF UseDependencies
  <2>5. SlotOf(m) \in PrevDependency(u) <=>
          u.id.index # 0 /\ m = last - 1 /\ ~ HasOutputs(m)
    <3>1. CASE u.id.index = 0
      BY <3>1 DEF PrevDependency
    <3>2. CASE u.id.index # 0
      <4>1. numEmpty < NumROBEntries
        BY <3>2 DEF ReadNewUop, MayArrive
      <4>2. Len(renamed) \in LivePositions /\ SlotOf(Len(renamed)) = PrevSlot(firstEmpty)
        BY <4>1, PrevPosition DEF IInv
      <4>3. last - 1 = Len(renamed)
        BY <1>0, <1>3
      <4>4. SlotOf(m) = PrevSlot(firstEmpty) <=> m = last - 1
        BY <4>2, <4>3, <1>3
      <4> QED BY <3>2, <4>4 DEF PrevDependency, HasOutputs, StateOf
    <3> QED BY <3>1, <3>2
  <2> QED BY <2>2, <2>3, <2>4, <2>5 DEF InputDependencies
<1> HIDE DEF new, deps
<1>10. UnsatisfiedAreProducers'
  <2> SUFFICES ASSUME NEW k \in LivePositions', NEW m \in LivePositions'
               PROVE  SlotOf(m)' \in entries'[SlotOf(k)'].unsat
                        <=> m \in Machine!Producers(k)' /\ ~ HasOutputs(m)'
    BY DEF UnsatisfiedAreProducers
  <2>1. CASE k # last /\ m # last
    <3>1. k \in LivePositions /\ m \in LivePositions /\ k \in 1 .. Len(renamed)
      BY <1>0, <2>1, <1>2, <1>3
    <3> QED BY <3>1, <1>1, <1>2, <1>4 DEF UnsatisfiedAreProducers
  <2>2. CASE k # last /\ m = last
    <3>1. k \in LivePositions /\ k \in 1 .. Len(renamed)
      BY <1>0, <2>2, <1>2, <1>3
    <3>2. entries'[SlotOf(k)'].unsat = entries[SlotOf(k)].unsat
      BY <3>1, <1>1, <1>2, <1>4
    <3>3. new \notin entries[SlotOf(k)].unsat
      BY <3>1, <1>4 DEF NoRetiredDependency
    <3>4. last \notin Machine!Producers(k)
      BY <1>0, <3>1, <1>3 DEF Machine!Producers
    <3> QED BY <2>2, <3>1, <3>2, <3>3, <3>4, <1>2
  <2>3. CASE k = last /\ m # last
    <3>1. m \in LivePositions
      BY <2>3, <1>2
    <3> QED BY <2>3, <3>1, <1>1, <1>2, <1>4, <1>9
  <2>4. CASE k = last /\ m = last
    <3>1. new \notin deps
      BY <1>4, <1>8
    <3>2. last \notin Machine!Producers(last)'
      BY <1>0, <1>3 DEF Machine!Producers
    <3> QED BY <2>4, <3>1, <3>2, <1>1, <1>2
  <2> QED BY <2>1, <2>2, <2>3, <2>4
<1> QED BY <1>6, <1>7, <1>10

-----------------------------------------------------------------------------
(* DeleteRetiredUops.                                                      *)

LEMMA DeleteRetiredWaits ==
  ASSUME IInv, WaitsForOlder, DeleteRetired
  PROVE  /\ WaitsForOlder'
         /\ WaitsForExactly => WaitsForExactly'
         /\ NumLive >= 1 /\ StateOf(NumReleased + 1) = "SentForRetirement"
         /\ firstEmpty' = firstEmpty /\ numEmpty' = numEmpty + 1 /\ renamed' = renamed
         /\ \A k \in LivePositions' : StateOf(k)' = StateOf(k)
<1> USE DEF IInv
<1> DEFINE h == OldestEntry
           first == NumReleased + 1
<1>1. /\ h \in Slots /\ h = SlotAt(0) /\ Head(retiring) = h
      /\ entries[h].state = "SentForRetirement"
      /\ NumLive >= 1
  <2>1. /\ Len(retiring) \in Nat /\ Len(retiring) >= 1 /\ Head(retiring) = retiring[1]
        /\ NumLive \in 0 .. NumROBEntries /\ h \in Slots /\ h = SlotAt(0)
    BY TypeOKRing, RingPositions DEF TypeOK, DeleteRetired
  <2> QED BY <2>1 DEF InOrderRetirement
<1>2. /\ entries' = [[entries EXCEPT ![h].state = "Retired"]
                      EXCEPT ![h] = Cleared([entries EXCEPT ![h].state = "Retired"][h])]
      /\ inFlightDefs' = [r \in Regs |-> IF r \in entries[h].defs THEN NoEntry
                                         ELSE inFlightDefs[r]]
      /\ numEmpty' = numEmpty + 1 /\ firstEmpty' = firstEmpty /\ renamed' = renamed
  BY <1>1 DEF DeleteRetired, CoreDeleteRetired
<1> HIDE DEF h
<1>3. \A j \in Slots \ {h} : entries'[j] = entries[j]
  BY <1>2 DEF TypeOK, CoreTypeOK
<1>4. /\ first \in LivePositions /\ SlotOf(first) = h
      /\ LivePositions' = LivePositions \ {first}
      /\ \A k \in LivePositions' : SlotOf(k)' = SlotOf(k)
      /\ \A k : Machine!Producers(k)' = Machine!Producers(k)
  BY <1>1, <1>2, ReleasePositions
<1>5. /\ LivePositions \subseteq 1 .. Len(renamed)
      /\ \A k \in LivePositions : SlotOf(k) \in Slots
      /\ \A k, m \in LivePositions : SlotOf(k) = SlotOf(m) => k = m
  BY Positions
<1>6. StateOf(first) = "SentForRetirement"
  BY <1>1, <1>4 DEF StateOf
<1> HIDE DEF first
<1>7. \A k \in LivePositions' :
        /\ k \in LivePositions /\ SlotOf(k) \in Slots \ {h}
        /\ entries'[SlotOf(k)'] = entries[SlotOf(k)]
        /\ StateOf(k)' = StateOf(k)
        /\ HasOutputs(k)' = HasOutputs(k)
  <2>1. \A k \in LivePositions' : /\ k \in LivePositions /\ SlotOf(k) \in Slots \ {h}
                                  /\ entries'[SlotOf(k)'] = entries[SlotOf(k)]
    BY <1>3, <1>4, <1>5
  <2> QED BY <2>1 DEF HasOutputs, StateOf
<1>8. DefsOfUops'
  BY <1>2, <1>7 DEF WaitsForOlder, DefsOfUops
<1>9. InFlightDefsAreLive'
  <2> SUFFICES ASSUME NEW r \in Regs, inFlightDefs'[r] # NoEntry
               PROVE  \E k \in LivePositions' : /\ SlotOf(k)' = inFlightDefs'[r]
                                                /\ r \in renamed'[k].defs
    BY DEF InFlightDefsAreLive, NoEntry
  <2>1. inFlightDefs'[r] = inFlightDefs[r] /\ r \notin entries[h].defs
    BY <1>2
  <2>2. PICK k \in LivePositions : /\ SlotOf(k) = inFlightDefs[r]
                                   /\ r \in renamed[k].defs
    BY <2>1 DEF WaitsForOlder, InFlightDefsAreLive
  <2>3. k # first
    BY <2>1, <2>2, <1>4 DEF WaitsForOlder, DefsOfUops
  <2> QED BY <2>1, <2>2, <2>3, <1>2, <1>4
<1>10. NoRetiredDependency'
  <2> SUFFICES ASSUME NEW k \in LivePositions', NEW d \in entries'[SlotOf(k)'].unsat
               PROVE  \E m \in LivePositions' : /\ m < k /\ SlotOf(m)' = d
                                                /\ ~ HasOutputs(m)'
    BY DEF NoRetiredDependency
  <2>1. k \in LivePositions /\ d \in entries[SlotOf(k)].unsat
    BY <1>7
  <2>2. PICK m \in LivePositions : m < k /\ SlotOf(m) = d /\ ~ HasOutputs(m)
    BY <2>1 DEF WaitsForOlder, NoRetiredDependency
  <2>3. m # first
    BY <2>2, <1>6 DEF HasOutputs, DoneStates
  <2> QED BY <2>2, <2>3, <1>4, <1>7
<1>11. ASSUME WaitsForExactly
       PROVE  WaitsForExactly'
  <2>1. UniqueDefs'
    BY <1>2, <1>11 DEF WaitsForExactly, UniqueDefs
  <2>2. InFlightDefsAreComplete'
    <3> SUFFICES ASSUME NEW k \in LivePositions', NEW r \in renamed'[k].defs
                 PROVE  inFlightDefs'[r] = SlotOf(k)'
      BY DEF InFlightDefsAreComplete
    <3>1. /\ k \in LivePositions /\ k # first /\ r \in renamed[k].defs
          /\ inFlightDefs[r] = SlotOf(k)
      BY <1>2, <1>4, <1>11 DEF WaitsForExactly, InFlightDefsAreComplete
    <3>2. r \in Regs
      <4>1. renamed[k] \in RenamedUops
        BY <3>1, <1>5 DEF TypeOK
      <4> QED BY <3>1, <4>1 DEF RenamedUops
    <3>3. r \notin entries[h].defs
      BY <3>1, <1>4, <1>5, <1>11
         DEF WaitsForExactly, UniqueDefs, WaitsForOlder, DefsOfUops
    <3> QED BY <3>1, <3>2, <3>3, <1>2, <1>4
  <2>3. UnsatisfiedAreProducers'
    BY <1>4, <1>7, <1>11 DEF WaitsForExactly, UnsatisfiedAreProducers
  <2> QED BY <2>1, <2>2, <2>3 DEF WaitsForExactly
<1> QED BY <1>1, <1>2, <1>6, <1>7, <1>8, <1>9, <1>10, <1>11 DEF WaitsForOlder, first

-----------------------------------------------------------------------------
(* Every step.                                                             *)

\* The steps that leave the ring alone.
LEMMA LoopStepWaits ==
  ASSUME IInv, LoopStep, ~ DeleteRetired
  PROVE  /\ WaitsForOlder => WaitsForOlder'
         /\ WaitsForExactly => WaitsForExactly'
<1> USE DEF IInv
<1>0. /\ RingTypeOK /\ scan \in 0 .. NumROBEntries
      /\ \A i \in 0 .. NumROBEntries : SlotAt(i) \in Slots
  BY TypeOKRing, RingPositions DEF TypeOK
<1>1. ASSUME NEW i \in Slots, OutputsAvailable(i)
      PROVE  /\ WaitsForOlder => WaitsForOlder'
             /\ WaitsForExactly => WaitsForExactly'
  <2>1. entries[i].state = "Issued"
    BY <1>1 DEF OutputsAvailable, InFlightMatchesState
  <2>2. /\ entries' = SatisfyDependents(
                        [entries EXCEPT ![i].state = "OutputsAvailable"], i)
        /\ UNCHANGED <<firstEmpty, numEmpty, renamed, inFlightDefs>>
    BY <1>1 DEF OutputsAvailable, CoreOutputsAvailable
  <2>3. PICK completed \in SUBSET Slots : completed = {i}
    OBVIOUS
  <2>4. \A j \in Slots :
          /\ entries'[j].defs = entries[j].defs
          /\ entries'[j].unsat = entries[j].unsat \ completed
          /\ entries'[j].state \in DoneStates <=>
               entries[j].state \in DoneStates \/ j \in completed
    BY <2>1, <2>2, <2>3, CompletionSatisfies
  <2> QED BY <2>2, <2>4, EntriesComplete
<1>2. ASSUME NEW i \in Slots, WrittenBack(i)
      PROVE  /\ WaitsForOlder => WaitsForOlder'
             /\ WaitsForExactly => WaitsForExactly'
  <2>1. entries[i].state = "OutputsAvailable"
    BY <1>2 DEF WrittenBack, InFlightMatchesState
  <2> QED BY <1>2, <2>1, StateChanges DEF WrittenBack, CoreWrittenBack, DoneStates
<1>3. ASSUME VisitPortless
      PROVE  /\ WaitsForOlder => WaitsForOlder'
             /\ WaitsForExactly => WaitsForExactly'
  <2>1. PICK i \in Slots : i = SlotAt(scan)
    BY <1>0
  <2>2. /\ entries[i].state = "ReadyToExecute"
        /\ entries' = SatisfyDependents(
                        [entries EXCEPT ![i].state = "ReadyToRetire"], i)
        /\ UNCHANGED <<firstEmpty, numEmpty, renamed, inFlightDefs>>
    BY <1>3, <2>1 DEF VisitPortless, CoreExecuteWithoutPort, envVars
  <2>3. PICK completed \in SUBSET Slots : completed = {i}
    OBVIOUS
  <2>4. \A j \in Slots :
          /\ entries'[j].defs = entries[j].defs
          /\ entries'[j].unsat = entries[j].unsat \ completed
          /\ entries'[j].state \in DoneStates <=>
               entries[j].state \in DoneStates \/ j \in completed
    BY <2>2, <2>3, CompletionSatisfies
  <2> QED BY <2>2, <2>4, EntriesComplete
<1>4. ASSUME NEW p \in Ports, VisitIssue(p)
      PROVE  /\ WaitsForOlder => WaitsForOlder'
             /\ WaitsForExactly => WaitsForExactly'
  <2>1. PICK i \in Slots : i = SlotAt(scan)
    BY <1>0
  <2> QED BY <1>4, <2>1, StateChanges DEF VisitIssue, CoreIssue, DoneStates
<1>5. ASSUME SendForRetirement
      PROVE  /\ WaitsForOlder => WaitsForOlder'
             /\ WaitsForExactly => WaitsForExactly'
  <2>1. PICK i \in Slots : i = firstRetirable
    BY DEF TypeOK, CoreTypeOK
  <2> QED BY <1>5, <2>1, StateChanges
          DEF SendForRetirement, CoreSendForRetirement, DoneStates
<1>6. ASSUME VisitSkip \/ NextLoop
      PROVE  /\ WaitsForOlder => WaitsForOlder'
             /\ WaitsForExactly => WaitsForExactly'
  <2>1. /\ UNCHANGED <<firstEmpty, numEmpty, renamed, inFlightDefs>>
        /\ entries' = entries
    BY <1>6 DEF VisitSkip, NextLoop, robVars, envVars
  <2>2. PICK completed \in SUBSET Slots : completed = {}
    OBVIOUS
  <2>3. \A j \in Slots :
          /\ entries'[j].defs = entries[j].defs
          /\ entries'[j].unsat = entries[j].unsat \ completed
          /\ entries'[j].state \in DoneStates <=>
               entries[j].state \in DoneStates \/ j \in completed
    BY <2>1, <2>2
  <2> QED BY <2>1, <2>3, EntriesComplete
<1> QED BY <1>1, <1>2, <1>3, <1>4, <1>5, <1>6 DEF LoopStep

\* The visited entries stay executed or issued: what an execution wakes is
\* younger, hence still to be visited.
LEMMA NextScan ==
  ASSUME IInv, NoRetiredDependency, ScanLeavesNone, Next
  PROVE  ScanLeavesNone'
<1> USE DEF IInv
<1>0. /\ scan \in 0 .. NumROBEntries /\ NumLive \in 0 .. NumROBEntries
      /\ \A i \in 0 .. NumROBEntries : SlotAt(i) \in Slots
      /\ \A i, j \in 0 .. NumROBEntries - 1 : SlotAt(i) = SlotAt(j) => i = j
      /\ \A s \in Slots : \E i \in 0 .. NumROBEntries - 1 : s = SlotAt(i)
      /\ phase \in Phases
  BY TypeOKRing, RingPositions DEF TypeOK
<1>1. CASE \/ DeleteRetired \/ \E u \in Arrivals : ReadNewUop(u)
           \/ \E i \in Slots : OutputsAvailable(i) \/ WrittenBack(i)
  BY <1>1 DEF ScanLeavesNone, DeleteRetired, ReadNewUop, OutputsAvailable, WrittenBack
<1>2. CASE VisitPortless
  <2>1. /\ phase = "execute" /\ phase' = phase
        /\ scan < NumLive /\ scan' = scan + 1
        /\ UNCHANGED <<firstEmpty, numEmpty, renamed>>
    BY <1>2 DEF VisitPortless, CoreExecuteWithoutPort, envVars
  <2>2. NumLive' = NumLive /\ \A j : SlotAt(j)' = SlotAt(j)
    BY <2>1, SameRing
  <2>3. PICK i \in Slots : i = SlotAt(scan)
    BY <1>0
  <2>4. /\ entries[i].state = "ReadyToExecute"
        /\ entries' = SatisfyDependents(
                        [entries EXCEPT ![i].state = "ReadyToRetire"], i)
    BY <1>2, <2>3 DEF VisitPortless, CoreExecuteWithoutPort
  <2>5. \A j \in Slots :
          /\ entries'[j].ports = entries[j].ports
          /\ entries'[j].state # entries[j].state => j = i \/ i \in entries[j].unsat
    BY <2>4, CompletionSatisfies
  <2>6. entries'[i].state = "ReadyToRetire"
    BY <2>4, Completion
  <2>7. ASSUME NEW j \in 0 .. scan
        PROVE  ~ Lingers(SlotAt(j))'
    <3>1. CASE j = scan
      BY <2>2, <2>3, <2>6, <3>1 DEF Lingers
    <3>2. CASE j < scan
      <4>1. /\ SlotAt(j) \in Slots /\ SlotAt(j) # i
            /\ ~ Lingers(SlotAt(j)) /\ j \in 0 .. NumLive - 1
        BY <3>2, <1>0, <2>1, <2>3 DEF ScanLeavesNone
      <4>2. i \notin entries[SlotAt(j)].unsat
        <5> DEFINE k == NumReleased + 1 + j
                   m == NumReleased + 1 + scan
        <5>1. NumReleased \in Nat /\ scan \in 0 .. NumLive - 1
          BY <1>0, <2>1, Positions
        <5>2. /\ k \in LivePositions /\ SlotOf(k) = SlotAt(j)
              /\ m \in LivePositions /\ SlotOf(m) = i
              /\ \A n \in LivePositions : SlotOf(n) = i => n = m
          BY <2>3, <4>1, <5>1, Positions
        <5>3. ~ m < k
          BY <3>2, <5>1
        <5> HIDE DEF k, m
        <5> QED BY <5>2, <5>3 DEF NoRetiredDependency
      <4> QED BY <4>1, <4>2, <2>2, <2>5 DEF Lingers
    <3> QED BY <3>1, <3>2, <1>0
  <2>8. scan' - 1 = scan
    BY <2>1, <1>0
  <2> QED BY <1>0, <2>1, <2>2, <2>7, <2>8 DEF ScanLeavesNone, Lingers
<1>3. ASSUME NEW p \in Ports, VisitIssue(p)
      PROVE  ScanLeavesNone'
  <2>1. /\ phase = "execute" /\ phase' = phase
        /\ scan < NumLive /\ scan' = scan + 1
        /\ UNCHANGED <<firstEmpty, numEmpty>>
    BY <1>3 DEF VisitIssue, CoreIssue
  <2>2. NumLive' = NumLive /\ \A j : SlotAt(j)' = SlotAt(j)
    BY <2>1, SameRing
  <2>3. PICK i \in Slots : i = SlotAt(scan)
    BY <1>0
  <2>4. entries'[i].state = "Issued" /\ \A j \in Slots \ {i} : entries'[j] = entries[j]
    BY <1>3, <2>3, StateChanges DEF VisitIssue, CoreIssue, DoneStates
  <2>5. ASSUME NEW j \in 0 .. scan
        PROVE  ~ Lingers(SlotAt(j))'
    <3>1. CASE j = scan
      BY <2>2, <2>3, <2>4, <3>1 DEF Lingers
    <3>2. CASE j < scan
      <4>1. SlotAt(j) \in Slots \ {i} /\ ~ Lingers(SlotAt(j))
        BY <3>2, <1>0, <2>1, <2>3 DEF ScanLeavesNone
      <4> QED BY <4>1, <2>2, <2>4 DEF Lingers
    <3> QED BY <3>1, <3>2, <1>0
  <2>6. scan' - 1 = scan
    BY <2>1, <1>0
  <2> QED BY <1>0, <2>1, <2>2, <2>5, <2>6 DEF ScanLeavesNone, Lingers
<1>4. CASE VisitSkip
  <2>1. /\ phase = "execute" /\ phase' = phase
        /\ scan < NumLive /\ scan' = scan + 1 /\ ~ Lingers(SlotAt(scan))
        /\ UNCHANGED <<firstEmpty, numEmpty, entries>>
    BY <1>4 DEF VisitSkip, robVars, Lingers
  <2>2. NumLive' = NumLive /\ \A j : SlotAt(j)' = SlotAt(j)
    BY <2>1, SameRing
  <2>3. \A j \in 0 .. scan : ~ Lingers(SlotAt(j))
    BY <2>1, <1>0 DEF ScanLeavesNone
  <2>4. \A j \in 0 .. scan : ~ Lingers(SlotAt(j))'
    BY <2>1, <2>2, <2>3 DEF Lingers
  <2>5. scan' - 1 = scan
    BY <2>1, <1>0
  <2> QED BY <1>0, <2>1, <2>2, <2>4, <2>5 DEF ScanLeavesNone, Lingers
<1>5. CASE SendForRetirement
  <2>1. PICK i \in Slots : i = firstRetirable
    BY DEF TypeOK, CoreTypeOK
  <2>2. phase = "retire" /\ phase' = phase
    BY <1>5 DEF SendForRetirement
  <2>3. /\ entries'[i].state = "SentForRetirement"
        /\ \A j \in Slots \ {i} : entries'[j] = entries[j]
    BY <1>5, <2>1, StateChanges
       DEF SendForRetirement, CoreSendForRetirement, DoneStates
  <2> QED BY <2>2, <2>3 DEF ScanLeavesNone, Lingers
<1>6. CASE NextLoop
  <2>1. /\ phase' = NextPhase[phase] /\ scan' = 0
        /\ phase = "execute" => scan = NumLive
        /\ entries' = entries /\ UNCHANGED <<firstEmpty, numEmpty>>
    BY <1>6 DEF NextLoop, robVars
  <2>2. NumLive' = NumLive
    BY <2>1, SameRing
  <2>3. ASSUME phase' = "retire", NEW s \in Slots
        PROVE  ~ Lingers(s)
    <3>1. phase = "execute" /\ scan = NumLive
      BY <2>1, <2>3, <1>0 DEF Phases, NextPhase
    <3>2. PICK j \in 0 .. NumROBEntries - 1 : s = SlotAt(j)
      BY <1>0
    <3>3. CASE j < NumLive
      BY <3>1, <3>2, <3>3, <1>0 DEF ScanLeavesNone
    <3>4. CASE j >= NumLive
      <4>1. entries[s].state = "Empty"
        BY <3>2, <3>4, <1>0 DEF LiveWindow
      <4> QED BY <4>1 DEF Lingers
    <3> QED BY <3>3, <3>4, <1>0
  <2> QED BY <1>0, <2>1, <2>2, <2>3 DEF ScanLeavesNone, Lingers
<1> QED BY <1>1, <1>2, <1>3, <1>4, <1>5, <1>6 DEF Next, LoopStep

-----------------------------------------------------------------------------
(* The invariants.                                                         *)

LEMMA InitProducerInv == Init => ProducerInv
<1> SUFFICES ASSUME Init PROVE ProducerInv
  OBVIOUS
<1>1. IInv
  BY InitIInv
<1>2. /\ renamed = << >> /\ LivePositions = {} /\ phase = "delete"
      /\ inFlightDefs = [r \in Regs |-> NoEntry]
  BY DEF Init, CoreInit, LivePositions, NumReleased, NumLive
<1>3. WaitsForOlder
  BY <1>2 DEF WaitsForOlder, DefsOfUops, InFlightDefsAreLive, NoRetiredDependency
<1>4. ScanLeavesNone
  BY <1>2 DEF ScanLeavesNone
<1>5. WaitsForExactly
  BY <1>2 DEF WaitsForExactly, UniqueDefs, InFlightDefsAreComplete,
              UnsatisfiedAreProducers
<1> QED BY <1>1, <1>3, <1>4, <1>5 DEF ProducerInv, OlderInv

LEMMA StutterKeeps ==
  ASSUME UNCHANGED vars
  PROVE  /\ OlderInv => OlderInv'
         /\ ProducerInv => ProducerInv'
<1>1. UNCHANGED <<entries, firstEmpty, numEmpty, firstRetirable, inFlightDefs,
                  phase, scan, renamed>>
  BY DEF vars, robVars, envVars
<1>2. /\ LivePositions' = LivePositions
      /\ \A k : SlotOf(k)' = SlotOf(k)
      /\ \A k : Machine!Producers(k)' = Machine!Producers(k)
      /\ NumLive' = NumLive /\ \A i : SlotAt(i)' = SlotAt(i)
  BY <1>1, SamePositions, SameRing
<1>3. \A k : HasOutputs(k)' <=> HasOutputs(k)
  BY <1>1, <1>2 DEF HasOutputs, StateOf
<1>4. WaitsForOlder => WaitsForOlder'
  BY <1>1, <1>2, <1>3
     DEF WaitsForOlder, DefsOfUops, InFlightDefsAreLive, NoRetiredDependency
<1>5. ScanLeavesNone => ScanLeavesNone'
  BY <1>1, <1>2 DEF ScanLeavesNone, Lingers
<1>6. WaitsForExactly => WaitsForExactly'
  BY <1>1, <1>2, <1>3
     DEF WaitsForExactly, UniqueDefs, InFlightDefsAreComplete, UnsatisfiedAreProducers
<1>7. IInv => IInv'
  BY NextIInv
<1> QED BY <1>4, <1>5, <1>6, <1>7 DEF OlderInv, ProducerInv

LEMMA NextOlderInv ==
  ASSUME PromptUops, OlderInv, [Next]_vars
  PROVE  OlderInv'
<1> USE DEF OlderInv
<1>1. CASE UNCHANGED vars
  BY <1>1, StutterKeeps
<1>2. CASE Next
  <2>1. IInv'
    BY NextIInv
  <2>2. ScanLeavesNone'
    BY <1>2, NextScan DEF WaitsForOlder
  <2>3. WaitsForOlder'
    BY <1>2, ReadNewUopOlder, DeleteRetiredWaits, LoopStepWaits DEF Next
  <2> QED BY <2>1, <2>2, <2>3
<1> QED BY <1>1, <1>2

LEMMA NextProducerInv ==
  ASSUME PromptUops, DistinctDefs, ProducerInv, [Next]_vars
  PROVE  ProducerInv'
<1> USE DEF ProducerInv, OlderInv
<1>1. CASE UNCHANGED vars
  BY <1>1, StutterKeeps
<1>2. CASE Next
  <2>1. OlderInv'
    BY NextOlderInv
  <2>2. WaitsForExactly'
    BY <1>2, ReadNewUopExact, DeleteRetiredWaits, LoopStepWaits DEF Next
  <2> QED BY <2>1, <2>2
<1> QED BY <1>1, <1>2

\* When the uops of an instruction come one after the other, an entry waits
\* only for older uops that are in the buffer and have no outputs yet.
THEOREM WaitsForNoRetiredUop ==
  ASSUME PromptUops
  PROVE  Spec => []NoRetiredDependency
<1>1. Init => OlderInv
  BY InitProducerInv DEF ProducerInv
<1>2. OlderInv /\ [Next]_vars => OlderInv'
  BY NextOlderInv
<1>3. OlderInv => NoRetiredDependency
  BY DEF OlderInv, WaitsForOlder
<1> QED BY <1>1, <1>2, <1>3, PTL DEF Spec

\* A uop that needs no port is executed in the tick in which its inputs
\* become ready.
THEOREM PortlessInOneTick ==
  ASSUME PromptUops
  PROVE  Spec => []PortlessUopsNeverLinger
<1>1. Init => OlderInv
  BY InitProducerInv DEF ProducerInv
<1>2. OlderInv /\ [Next]_vars => OlderInv'
  BY NextOlderInv
<1>3. OlderInv => PortlessUopsNeverLinger
  BY DEF OlderInv, ScanLeavesNone, Lingers, PortlessUopsNeverLinger
<1> QED BY <1>1, <1>2, <1>3, PTL DEF Spec

\* What unsatisfied dependencies mean to the abstract machine: a live uop has
\* none exactly when its producers have their outputs.
LEMMA WaitingMeansProducers ==
  ASSUME ProducerInv, NEW k \in LivePositions
  PROVE  /\ StateOf(k) = "WaitingForInputs" <=>
              \E m \in Machine!Producers(k) : ~ HasOutputs(m)
         /\ k \in 1 .. Len(renamed) /\ SlotOf(k) \in Slots
<1> USE DEF ProducerInv, OlderInv, IInv
<1>1. SlotOf(k) \in Slots /\ k \in 1 .. Len(renamed)
  BY Positions
<1>2. StateOf(k) = "WaitingForInputs" <=> entries[SlotOf(k)].unsat # {}
  BY <1>1 DEF StateOf, DependencyGraph
<1>3. ASSUME NEW d \in entries[SlotOf(k)].unsat
      PROVE  \E m \in Machine!Producers(k) : ~ HasOutputs(m)
  <2>1. PICK m \in LivePositions : SlotOf(m) = d
    BY DEF WaitsForOlder, NoRetiredDependency
  <2> QED BY <2>1 DEF WaitsForExactly, UnsatisfiedAreProducers
<1>4. ASSUME NEW m \in Machine!Producers(k), ~ HasOutputs(m)
      PROVE  entries[SlotOf(k)].unsat # {}
  <2>1. m \in LivePositions
    BY <1>4 DEF HasOutputs
  <2> QED BY <2>1, <1>4 DEF WaitsForExactly, UnsatisfiedAreProducers
<1> QED BY <1>1, <1>2, <1>3, <1>4

\* When no register is defined twice either, a uop waits exactly while a uop
\* that produces one of its inputs has no outputs.
THEOREM WaitsExactlyForProducers ==
  ASSUME PromptUops, DistinctDefs
  PROVE  Spec => []WaitsForProducers
<1>1. ProducerInv /\ [Next]_vars => ProducerInv'
  BY NextProducerInv
<1>2. ProducerInv => WaitsForProducers
  BY WaitingMeansProducers DEF WaitsForProducers
<1> QED BY <1>1, <1>2, InitProducerInv, PTL DEF Spec

-----------------------------------------------------------------------------
(* The reorder buffer implements the abstract machine.                     *)

Stage == [k \in 1 .. Len(renamed) |-> AbstractStage(k)]

LEMMA StageOfState ==
  ASSUME NEW k
  PROVE  /\ k \notin LivePositions => AbstractStage(k) = "done"
         /\ k \in LivePositions =>
              /\ StateOf(k) \in {"WaitingForInputs", "ReadyToExecute"} =>
                   AbstractStage(k) = "waiting"
              /\ StateOf(k) = "Issued" => AbstractStage(k) = "executing"
              /\ StateOf(k) = "OutputsAvailable" => AbstractStage(k) = "available"
              /\ StateOf(k) \in {"ReadyToRetire", "SentForRetirement"} =>
                   AbstractStage(k) = "done"
BY DEF AbstractStage

\* The abstract stage after a step, from the state after it.
LEMMA NextStageOfState ==
  ASSUME NEW k
  PROVE  /\ k \notin LivePositions' => AbstractStage(k)' = "done"
         /\ k \in LivePositions' =>
              /\ StateOf(k)' \in {"WaitingForInputs", "ReadyToExecute"} =>
                   AbstractStage(k)' = "waiting"
              /\ StateOf(k)' = "Issued" => AbstractStage(k)' = "executing"
              /\ StateOf(k)' = "OutputsAvailable" => AbstractStage(k)' = "available"
              /\ StateOf(k)' \in {"ReadyToRetire", "SentForRetirement"} =>
                   AbstractStage(k)' = "done"
BY DEF AbstractStage

\* A step that changes the stage of one uop, the one in entry i, ...
LEMMA OneStage ==
  ASSUME TypeOK, LiveWindow, TypeOK',
         UNCHANGED <<firstEmpty, numEmpty, renamed>>,
         NEW k \in LivePositions,
         \A j \in Slots \ {SlotOf(k)} :
           \/ entries'[j].state = entries[j].state
           \/ /\ entries[j].state = "WaitingForInputs"
              /\ entries'[j].state = "ReadyToExecute"
  PROVE  /\ Stage' = [Stage EXCEPT ![k] = AbstractStage(k)']
         /\ NumReleased' = NumReleased
         /\ k \in 1 .. Len(renamed) /\ k \in LivePositions'
         /\ StateOf(k)' = entries'[SlotOf(k)].state
<1>1. /\ NumReleased' = NumReleased /\ LivePositions' = LivePositions
      /\ \A m : SlotOf(m)' = SlotOf(m)
  BY SamePositions
<1>2. /\ \A m \in LivePositions : SlotOf(m) \in Slots
      /\ \A m, n \in LivePositions : SlotOf(m) = SlotOf(n) => m = n
      /\ k \in 1 .. Len(renamed)
  BY Positions
<1>3. ASSUME NEW m \in 1 .. Len(renamed), m # k
      PROVE  AbstractStage(m)' = AbstractStage(m)
  <2>1. CASE m \notin LivePositions
    BY <2>1, <1>1, StageOfState, NextStageOfState
  <2>2. CASE m \in LivePositions
    <3>1. SlotOf(m) \in Slots \ {SlotOf(k)}
      BY <2>2, <1>2, <1>3
    <3>2. \/ StateOf(m)' = StateOf(m)
          \/ /\ StateOf(m) = "WaitingForInputs"
             /\ StateOf(m)' = "ReadyToExecute"
      BY <3>1, <1>1 DEF StateOf
    <3>3. CASE StateOf(m)' = StateOf(m)
      BY <2>2, <3>3, <1>1 DEF AbstractStage
    <3>4. CASE StateOf(m) = "WaitingForInputs" /\ StateOf(m)' = "ReadyToExecute"
      BY <2>2, <3>4, <1>1, StageOfState, NextStageOfState
    <3> QED BY <3>2, <3>3, <3>4
  <2> QED BY <2>1, <2>2
<1>4. Stage' = [m \in 1 .. Len(renamed) |-> AbstractStage(m)']
  BY DEF Stage
<1>5. [Stage EXCEPT ![k] = AbstractStage(k)'] =
        [m \in 1 .. Len(renamed) |-> IF m = k THEN AbstractStage(k)' ELSE AbstractStage(m)]
  BY <1>2 DEF Stage
<1>6. Stage' = [Stage EXCEPT ![k] = AbstractStage(k)']
  BY <1>3, <1>4, <1>5
<1> QED BY <1>1, <1>2, <1>6 DEF StateOf

\* ... or none.
LEMMA NoStage ==
  ASSUME UNCHANGED <<firstEmpty, numEmpty, renamed>>, TypeOK, LiveWindow,
         \A j \in Slots :
           \/ entries'[j].state = entries[j].state
           \/ /\ entries[j].state \in {"ReadyToRetire", "SentForRetirement"}
              /\ entries'[j].state \in {"ReadyToRetire", "SentForRetirement"}
  PROVE  UNCHANGED Machine!vars
<1>1. /\ NumReleased' = NumReleased /\ LivePositions' = LivePositions
      /\ \A m : SlotOf(m)' = SlotOf(m)
  BY SamePositions
<1>2. \A m \in LivePositions : SlotOf(m) \in Slots
  BY Positions
<1>3. ASSUME NEW m
      PROVE  AbstractStage(m)' = AbstractStage(m)
  <2>1. CASE m \notin LivePositions
    BY <2>1, <1>1, StageOfState, NextStageOfState
  <2>2. CASE m \in LivePositions
    <3>1. CASE StateOf(m)' = StateOf(m)
      BY <2>2, <3>1, <1>1 DEF AbstractStage
    <3>2. CASE StateOf(m)' # StateOf(m)
      <4>1. /\ StateOf(m) \in {"ReadyToRetire", "SentForRetirement"}
            /\ StateOf(m)' \in {"ReadyToRetire", "SentForRetirement"}
        BY <2>2, <3>2, <1>1, <1>2 DEF StateOf
      <4> QED BY <4>1, <2>2, <1>1, StageOfState, NextStageOfState
    <3> QED BY <3>1, <3>2
  <2> QED BY <2>1, <2>2
<1> QED BY <1>1, <1>3 DEF Machine!vars

LEMMA ReadyHasInputs ==
  ASSUME ProducerInv, NEW k \in LivePositions, StateOf(k) = "ReadyToExecute"
  PROVE  Machine!InputsReady(k)
<1>1. \A m \in Machine!Producers(k) : HasOutputs(m)
  BY WaitingMeansProducers
<1>2. Len(renamed) \in Nat /\ k \in 1 .. Len(renamed)
  BY Positions DEF ProducerInv, OlderInv, IInv
<1>3. ASSUME NEW m \in Machine!Producers(k)
      PROVE  m \in 1 .. Len(renamed) /\ AbstractStage(m) \in {"available", "done"}
  <2>1. m \in 1 .. Len(renamed)
    BY <1>2 DEF Machine!Producers
  <2>2. HasOutputs(m)
    BY <1>1
  <2> QED BY <2>1, <2>2, StageOfState DEF HasOutputs, DoneStates
<1> QED BY <1>3 DEF Machine!InputsReady

LEMMA CompletionRefines ==
  ASSUME ProducerInv, TypeOK', NEW k \in LivePositions,
         UNCHANGED <<firstEmpty, numEmpty, renamed>>,
         \/ /\ StateOf(k) = "Issued"
            /\ entries' = SatisfyDependents(
                 [entries EXCEPT ![SlotOf(k)].state = "OutputsAvailable"], SlotOf(k))
         \/ /\ StateOf(k) = "ReadyToExecute"
            /\ entries' = SatisfyDependents(
                 [entries EXCEPT ![SlotOf(k)].state = "ReadyToRetire"], SlotOf(k))
  PROVE  Machine!Next
<1> USE DEF ProducerInv, OlderInv, IInv
<1>1. PICK i \in Slots : i = SlotOf(k)
  BY Positions
<1>2. \A j \in Slots \ {i} :
        \/ entries'[j].state = entries[j].state
        \/ /\ entries[j].state = "WaitingForInputs"
           /\ entries'[j].state = "ReadyToExecute"
  BY <1>1, Completion DEF StateOf
<1>3. /\ Stage' = [Stage EXCEPT ![k] = AbstractStage(k)']
      /\ NumReleased' = NumReleased
      /\ k \in 1 .. Len(renamed) /\ k \in LivePositions'
      /\ StateOf(k)' = entries'[i].state
  BY <1>1, <1>2, OneStage
<1>4. Stage[k] = AbstractStage(k) /\ k \in DOMAIN renamed
  BY <1>3 DEF Stage, TypeOK
<1>5. CASE StateOf(k) = "Issued"
  <2>1. entries'[i].state = "OutputsAvailable"
    BY <1>1, <1>5, Completion DEF StateOf
  <2>2. Stage[k] = "executing" /\ Stage' = [Stage EXCEPT ![k] = "available"]
    BY <2>1, <1>3, <1>4, <1>5, StageOfState, NextStageOfState
  <2>3. Machine!ProduceOutputs(k)
    BY <2>2, <1>3 DEF Machine!ProduceOutputs, Stage
  <2> QED BY <2>3, <1>4 DEF Machine!Next
<1>6. CASE StateOf(k) = "ReadyToExecute"
  <2>1. entries'[i].state = "ReadyToRetire"
    BY <1>1, <1>6, Completion DEF StateOf
  <2>2. Stage[k] = "waiting" /\ Stage' = [Stage EXCEPT ![k] = "done"]
    BY <2>1, <1>3, <1>4, <1>6, StageOfState, NextStageOfState
  <2>3. Machine!Execute(k)
    BY <2>2, <1>3, <1>6, ReadyHasInputs DEF Machine!Execute, Stage
  <2> QED BY <2>3, <1>4 DEF Machine!Next
<1> QED BY <1>5, <1>6

LEMMA StateChangeRefines ==
  ASSUME ProducerInv, TypeOK', NEW k \in LivePositions,
         UNCHANGED <<firstEmpty, numEmpty, renamed, inFlightDefs>>,
         \/ /\ StateOf(k) = "OutputsAvailable"
            /\ entries' = [entries EXCEPT ![SlotOf(k)].state = "ReadyToRetire"]
         \/ /\ StateOf(k) = "ReadyToExecute"
            /\ entries' = [entries EXCEPT ![SlotOf(k)].state = "Issued"]
  PROVE  Machine!Next
<1> USE DEF ProducerInv, OlderInv, IInv
<1>1. PICK i \in Slots : i = SlotOf(k)
  BY Positions
<1>2. \A j \in Slots \ {i} : entries'[j] = entries[j]
  BY <1>1, StateChanges DEF StateOf, DoneStates
<1>3. /\ Stage' = [Stage EXCEPT ![k] = AbstractStage(k)']
      /\ NumReleased' = NumReleased
      /\ k \in 1 .. Len(renamed) /\ k \in LivePositions'
      /\ StateOf(k)' = entries'[i].state
  BY <1>1, <1>2, OneStage
<1>4. Stage[k] = AbstractStage(k) /\ k \in DOMAIN renamed
  BY <1>3 DEF Stage, TypeOK
<1>5. CASE StateOf(k) = "OutputsAvailable"
  <2>1. entries'[i].state = "ReadyToRetire"
    BY <1>1, <1>5, StateChanges DEF StateOf, DoneStates
  <2>2. Stage[k] = "available" /\ Stage' = [Stage EXCEPT ![k] = "done"]
    BY <2>1, <1>3, <1>4, <1>5, StageOfState, NextStageOfState
  <2>3. Machine!Finish(k)
    BY <2>2, <1>3 DEF Machine!Finish, Stage
  <2> QED BY <2>3, <1>4 DEF Machine!Next
<1>6. CASE StateOf(k) = "ReadyToExecute"
  <2>1. entries'[i].state = "Issued"
    BY <1>1, <1>6, StateChanges DEF StateOf, DoneStates
  <2>2. Stage[k] = "waiting" /\ Stage' = [Stage EXCEPT ![k] = "executing"]
    BY <2>1, <1>3, <1>4, <1>6, StageOfState, NextStageOfState
  <2>3. Machine!Execute(k)
    BY <2>2, <1>3, <1>6, ReadyHasInputs DEF Machine!Execute, Stage
  <2> QED BY <2>3, <1>4 DEF Machine!Next
<1> QED BY <1>5, <1>6

LEMMA ReadNewUopRefines ==
  ASSUME ProducerInv, IInv', PromptUops, NEW u \in Arrivals, ReadNewUop(u)
  PROVE  Machine!Enter
<1> USE DEF ProducerInv, OlderInv
<1>0. PICK last \in Nat : last = Len(renamed) + 1
  BY Positions DEF IInv
<1>1. /\ u \in RenamedUops
      /\ numEmpty > 0 /\ numEmpty' = numEmpty - 1
      /\ firstEmpty' = NextSlot(firstEmpty)
      /\ renamed' = Append(renamed, u)
      /\ renamed \in Seq(RenamedUops)
  BY ReadNewUopEffect DEF IInv, TypeOK
<1>2. /\ NumReleased' = NumReleased
      /\ LivePositions' = LivePositions \cup {last}
      /\ last \notin LivePositions
      /\ SlotOf(last)' = firstEmpty
      /\ Len(renamed') = last
  BY <1>0, <1>1, ReadPositions DEF IInv
<1>3. \A k \in LivePositions : SlotOf(k)' = SlotOf(k) /\ StateOf(k)' = StateOf(k)
  BY ReadNewUopOlder
<1>4. StateOf(last)' \in {"WaitingForInputs", "ReadyToExecute"}
  <2>1. firstEmpty \in Slots
    BY DEF IInv, TypeOK, CoreTypeOK
  <2>2. entries'[firstEmpty].state \in {"WaitingForInputs", "ReadyToExecute"}
    BY <2>1 DEF ReadNewUop, CoreReadNewUop
  <2> QED BY <2>2, <1>2 DEF StateOf
<1>5. AbstractStage(last)' = "waiting"
  BY <1>2, <1>4, NextStageOfState
<1>6. ASSUME NEW k \in 1 .. Len(renamed)
      PROVE  AbstractStage(k)' = AbstractStage(k)
  <2>1. k \in LivePositions' <=> k \in LivePositions
    BY <1>0, <1>2
  <2>2. CASE k \in LivePositions
    BY <2>1, <2>2, <1>3 DEF AbstractStage
  <2>3. CASE k \notin LivePositions
    BY <2>1, <2>3 DEF AbstractStage
  <2> QED BY <2>2, <2>3
<1>7. Stage' = Append(Stage, "waiting")
  <2>1. Stage' = [k \in 1 .. last |-> AbstractStage(k)']
    BY <1>2 DEF Stage
  <2> DEFINE S == {AbstractStage(k) : k \in 1 .. Len(renamed)} \cup {"waiting"}
  <2>2. Stage \in Seq(S) /\ Len(Stage) = Len(renamed)
    BY <1>1 DEF Stage
  <2>3. \A k \in 1 .. Len(renamed) : Stage[k] = AbstractStage(k)
    BY DEF Stage
  <2>4. /\ Append(Stage, "waiting") \in Seq(S)
        /\ Len(Append(Stage, "waiting")) = last
        /\ \A k \in 1 .. last : Append(Stage, "waiting")[k] =
             IF k = last THEN "waiting" ELSE AbstractStage(k)
    BY <1>0, <2>2, <2>3
  <2>5. \A k \in 1 .. last : Stage'[k] =
          IF k = last THEN "waiting" ELSE AbstractStage(k)
    BY <1>0, <1>5, <1>6, <2>1
  <2>6. \A k \in 1 .. last : Stage'[k] \in S
    BY <1>0, <2>5
  <2>7. Stage' \in Seq(S) /\ Len(Stage') = last
    BY <1>0, <2>1, <2>6
  <2> HIDE DEF S
  <2> QED BY <2>4, <2>5, <2>7, SeqEqual
<1>8. SubSeq(renamed', 1, Len(renamed)) = renamed
  BY <1>1
<1>9. Len(renamed) - NumReleased < NumROBEntries
  <2>1. NumReleased + NumLive = Len(renamed) /\ NumReleased \in Nat /\ NumLive \in Nat
    BY Positions DEF IInv
  <2>2. NumLive < NumROBEntries
    BY <1>1 DEF NumLive, IInv, TypeOK, CoreTypeOK
  <2> QED BY <2>1, <2>2
<1> QED BY <1>0, <1>2, <1>7, <1>8, <1>9 DEF Machine!Enter, Stage

LEMMA DeleteRetiredRefines ==
  ASSUME ProducerInv, DeleteRetired
  PROVE  Machine!Retire
<1> USE DEF ProducerInv, OlderInv
<1>0. PICK first \in Nat : first = NumReleased + 1
  BY Positions DEF IInv
<1>1. /\ NumLive >= 1 /\ StateOf(first) = "SentForRetirement"
      /\ firstEmpty' = firstEmpty /\ numEmpty' = numEmpty + 1 /\ renamed' = renamed
      /\ \A k \in LivePositions' : StateOf(k)' = StateOf(k)
  BY <1>0, DeleteRetiredWaits
<1>2. /\ NumReleased' = first /\ first \in LivePositions
      /\ LivePositions' = LivePositions \ {first}
  BY <1>0, <1>1, ReleasePositions DEF IInv
<1>3. NumReleased < Len(renamed) /\ first \in 1 .. Len(renamed)
  <2>1. NumReleased + NumLive = Len(renamed) /\ NumReleased \in Nat /\ NumLive \in Nat
    BY Positions DEF IInv
  <2> QED BY <2>1, <1>0, <1>1
<1>4. \A k : AbstractStage(k)' = AbstractStage(k)
  <2>1. AbstractStage(first)' = AbstractStage(first)
    BY <1>1, <1>2, StageOfState, NextStageOfState
  <2> QED BY <2>1, <1>1, <1>2 DEF AbstractStage
<1>5. Stage' = Stage
  BY <1>1, <1>4 DEF Stage
<1>6. Stage[first] = "done"
  BY <1>1, <1>2, <1>3, StageOfState DEF Stage
<1> QED BY <1>0, <1>1, <1>2, <1>3, <1>5, <1>6 DEF Machine!Retire, Stage

LEMMA NextRefines ==
  ASSUME PromptUops, ProducerInv, IInv', [Next]_vars
  PROVE  [Machine!Next]_(Machine!vars)
<1> USE DEF ProducerInv, OlderInv
<1>0. /\ TypeOK /\ LiveWindow /\ TypeOK'
      /\ scan \in 0 .. NumROBEntries /\ firstRetirable \in Slots
      /\ \A i \in 0 .. NumROBEntries : SlotAt(i) \in Slots
      /\ \A i \in Slots : entries[i].state # "Empty" =>
           \E k \in LivePositions : SlotOf(k) = i
  BY TypeOKRing, RingPositions, Positions DEF IInv, TypeOK, CoreTypeOK
<1>1. CASE DeleteRetired
  BY <1>1, DeleteRetiredRefines DEF Machine!Next
<1>2. ASSUME NEW u \in Arrivals, ReadNewUop(u)
      PROVE  Machine!Next
  BY <1>2, ReadNewUopRefines DEF Machine!Next
<1>3. ASSUME NEW i \in Slots, OutputsAvailable(i)
      PROVE  Machine!Next
  <2>1. entries[i].state = "Issued"
    BY <1>3 DEF OutputsAvailable, InFlightMatchesState, IInv
  <2>2. PICK k \in LivePositions : SlotOf(k) = i
    BY <1>0, <2>1
  <2>3. /\ StateOf(k) = "Issued"
        /\ entries' = SatisfyDependents(
             [entries EXCEPT ![SlotOf(k)].state = "OutputsAvailable"], SlotOf(k))
        /\ UNCHANGED <<firstEmpty, numEmpty, renamed>>
    BY <1>3, <2>1, <2>2 DEF OutputsAvailable, CoreOutputsAvailable, StateOf
  <2> QED BY <1>0, <2>3, CompletionRefines
<1>4. ASSUME NEW i \in Slots, WrittenBack(i)
      PROVE  Machine!Next
  <2>1. entries[i].state = "OutputsAvailable"
    BY <1>4 DEF WrittenBack, InFlightMatchesState, IInv
  <2>2. PICK k \in LivePositions : SlotOf(k) = i
    BY <1>0, <2>1
  <2>3. /\ StateOf(k) = "OutputsAvailable"
        /\ entries' = [entries EXCEPT ![SlotOf(k)].state = "ReadyToRetire"]
        /\ UNCHANGED <<firstEmpty, numEmpty, renamed, inFlightDefs>>
    BY <1>4, <2>1, <2>2 DEF WrittenBack, CoreWrittenBack, StateOf
  <2> QED BY <1>0, <2>3, StateChangeRefines
<1>5. CASE VisitPortless
  <2>1. PICK i \in Slots : i = SlotAt(scan)
    BY <1>0
  <2>2. /\ entries[i].state = "ReadyToExecute"
        /\ entries' = SatisfyDependents(
                        [entries EXCEPT ![i].state = "ReadyToRetire"], i)
        /\ UNCHANGED <<firstEmpty, numEmpty, renamed>>
    BY <1>5, <2>1 DEF VisitPortless, CoreExecuteWithoutPort, envVars
  <2>3. PICK k \in LivePositions : SlotOf(k) = i
    BY <1>0, <2>2
  <2> QED BY <1>0, <2>2, <2>3, CompletionRefines DEF StateOf
<1>6. ASSUME NEW p \in Ports, VisitIssue(p)
      PROVE  Machine!Next
  <2>1. PICK i \in Slots : i = SlotAt(scan)
    BY <1>0
  <2>2. /\ entries[i].state = "ReadyToExecute"
        /\ entries' = [entries EXCEPT ![i].state = "Issued"]
        /\ UNCHANGED <<firstEmpty, numEmpty, renamed, inFlightDefs>>
    BY <1>6, <2>1 DEF VisitIssue, CoreIssue
  <2>3. PICK k \in LivePositions : SlotOf(k) = i
    BY <1>0, <2>2
  <2> QED BY <1>0, <2>2, <2>3, StateChangeRefines DEF StateOf
<1>7. CASE VisitSkip \/ NextLoop \/ UNCHANGED vars
  <2>1. UNCHANGED <<firstEmpty, numEmpty, renamed, entries>>
    BY <1>7 DEF VisitSkip, NextLoop, vars, robVars, envVars
  <2> QED BY <1>0, <2>1, NoStage
<1>8. CASE SendForRetirement
  <2>1. PICK i \in Slots : i = firstRetirable
    BY <1>0
  <2>2. /\ entries[i].state = "ReadyToRetire"
        /\ entries' = [entries EXCEPT ![i].state = "SentForRetirement"]
        /\ UNCHANGED <<firstEmpty, numEmpty, renamed, inFlightDefs>>
    BY <1>8, <2>1 DEF SendForRetirement, CoreSendForRetirement
  <2>3. /\ entries'[i].state = "SentForRetirement"
        /\ \A j \in Slots \ {i} : entries'[j] = entries[j]
    BY <1>0, <2>2, StateChanges DEF DoneStates
  <2> QED BY <1>0, <2>2, <2>3, NoStage
<1> QED BY <1>1, <1>2, <1>3, <1>4, <1>5, <1>6, <1>7, <1>8 DEF Next, LoopStep

LEMMA InitRefines == Init => Machine!Init
<1> SUFFICES ASSUME Init PROVE Machine!Init
  OBVIOUS
<1>1. /\ renamed = << >> /\ NumReleased = 0
  BY DEF Init, CoreInit, NumReleased, NumLive
<1>2. [k \in 1 .. Len(renamed) |-> AbstractStage(k)] = << >>
  BY <1>1
<1> QED BY <1>1, <1>2 DEF Machine!Init

\* For every size of the buffer, the reorder buffer executes and retires uops
\* as the abstract machine does, in the environment that the renamer gives.
THEOREM Refinement ==
  ASSUME PromptUops, DistinctDefs
  PROVE  Spec => ImplementsDataflow
<1>1. ProducerInv /\ [Next]_vars => ProducerInv'
  BY NextProducerInv
<1>2. ProducerInv /\ ProducerInv' /\ [Next]_vars => [Machine!Next]_(Machine!vars)
  BY NextRefines DEF ProducerInv, OlderInv
<1> QED BY <1>1, <1>2, InitProducerInv, InitRefines, PTL
        DEF Spec, ImplementsDataflow, Machine!Spec

=============================================================================
