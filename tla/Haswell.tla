------------------------------- MODULE Haswell -------------------------------
(***************************************************************************)
(* The simulator that CreateHaswellSimulator wires together                *)
(* (llvm_sim/x86/haswell.cc), run by Simulator::Run                        *)
(* (llvm_sim/framework/simulator.cc).                                      *)
(*                                                                         *)
(* The program has one thread: in every cycle each component ticks once,   *)
(* in the order in which it was added, and then every buffer propagates.   *)
(* `pc' is the component whose turn it is, and each action is one          *)
(* iteration of a loop in its Tick, or the end of that loop.  The only     *)
(* choice is the order in which an execution unit or the dependency        *)
(* tracker releases elements of the same age, which std::partition leaves  *)
(* open, and the block that is simulated.                                  *)
(*                                                                         *)
(* Instruction n of the trace is instruction n % N of iteration n \div N,  *)
(* for the N instructions of the block.  Uop ids are those of ROBCore.     *)
(***************************************************************************)
EXTENDS ROBCore, RenamerCore, BufferOps, FiniteSets, SequencesExt

CONSTANTS
  Blocks,            \* records: `instrs', a sequence, and `isLoop'
  MaxNumIterations,  \* the parameter of Simulator::Run
  FetchBytes,        \* Fetcher::Config::MaxBytesPerCycle
  ParseWidth,        \* InstructionParser::Config::MaxInstructionsPerCycle
  DecodeWidth,       \* InstructionDecoder::Config::NumDecoders
  RenameWidth,       \* RegisterRenamer::Config::UopsPerCycle
  RetireWidth,       \* capacity of the link to the retirement station
  IQCapacity,        \* capacity of the instruction queue
  IDQCapacity,       \* capacity of the instruction decode queue
  PortCapacity       \* units per port

ASSUME WiringAssumption ==
  /\ IsFiniteSet(Ports) /\ Ports # {} /\ Ports = 0 .. Cardinality(Ports) - 1
  /\ Regs = 1 .. NumPhysicalRegisters
  /\ MaxNumIterations \in Nat
  /\ {FetchBytes, ParseWidth, DecodeWidth, RenameWidth, RetireWidth,
      IQCapacity, IDQCapacity, PortCapacity} \subseteq Nat \ {0}

\* The decoder has nothing to push for an instruction without uops.
ASSUME BlocksAssumption ==
  \A b \in Blocks :
    /\ b.instrs \in Seq(Range(b.instrs)) /\ b.instrs # << >>
    /\ \A instr \in Range(b.instrs) :
         /\ instr.bytes \in Nat
         /\ instr.uses \in SUBSET Units /\ instr.defs \in Seq(SUBSET Units)
         /\ instr.uops \in Seq([ports : SUBSET Ports, latency : Nat])
         /\ instr.uops # << >>

VARIABLES
  block,            \* the simulated block
  pc,               \* the component that ticks
  budget,           \* what is left of its width in this tick
  fetchIndex,       \* Fetcher::InstructionIndex_
  fetchedLink,      \* FetchedInstructionsLink
  instrQueue,       \* InstructionQueue
  decodeQueue,      \* InstructionDecodeQueue
  renamedLink,      \* RenamerToROBLink
  portLinks,        \* Ports
  retireLink,       \* UopsToRetireLink
  retiredLink,      \* RetiredUopsLink
  writebackLink,    \* ExecutedWritebackLink
  execDeps,         \* ExecDepsTracker: the sets `pending' and `ready'
  units,            \* Elements_ of the execution unit behind each port
  unit,             \* the execution unit that ticks
  portLoads,        \* LeastLoadedIssuePolicy::PortLoads_
  phase, scan,      \* the loop of ReorderBuffer::Tick, as in ReorderBuffer
  instructionSink,  \* Elems_ of the IterationCounterSink
  numIterations,    \* Result->Iterations.size()
  renamed           \* history: the uops that the reorder buffer has read

frontVars == <<fetchIndex, fetchedLink, instrQueue, decodeQueue>>
backVars == <<retireLink, retiredLink, writebackLink, execDeps, units, unit,
              portLinks, portLoads, phase, scan, renamed>>
simVars == <<block, instructionSink, numIterations>>
vars == <<robVars, renamerVars, frontVars, renamedLink, backVars, simVars,
          pc, budget>>

NumInstrs == Len(block.instrs)
InstrAt(n) == block.instrs[(n % NumInstrs) + 1]
UopAt(id) == InstrAt(id.instr).uops[id.index + 1]
LatencyOf(i) == UopAt(entries[i].uop).latency

\* The next component gets its turn.
Turn(component, width) == pc' = component /\ budget' = width

Init ==
  /\ CoreInit
  /\ RenamerInit
  /\ block \in Blocks
  /\ pc = "fetcher" /\ budget = FetchBytes
  /\ fetchIndex = [iteration |-> 0, bb |-> 0]
  /\ fetchedLink = EmptyBuffer
  /\ instrQueue = EmptyBuffer
  /\ decodeQueue = EmptyBuffer
  /\ renamedLink = EmptyBuffer
  /\ portLinks = [p \in Ports |-> EmptyBuffer]
  /\ retireLink = EmptyBuffer
  /\ retiredLink = EmptyBuffer
  /\ writebackLink = EmptyBuffer
  /\ execDeps = [pending |-> {}, ready |-> {}]
  /\ units = [p \in Ports |-> {}]
  /\ unit = 0
  /\ portLoads = [p \in Ports |-> 0]
  /\ phase = "delete" /\ scan = 0
  /\ instructionSink = << >>
  /\ numIterations = 0
  /\ renamed = << >>

-----------------------------------------------------------------------------
(* Fetcher::Tick.                                                          *)

\* An iteration of a loop starts with the tick after the previous one ended.
AtBlockEnd == fetchIndex.bb = NumInstrs
FetchNextIteration ==
  /\ pc = "fetcher"
  /\ AtBlockEnd /\ block.isLoop
  /\ budget = FetchBytes
  /\ fetchIndex' = [iteration |-> fetchIndex.iteration + 1, bb |-> 0]
  /\ UNCHANGED <<robVars, renamerVars, fetchedLink, instrQueue, decodeQueue,
                 renamedLink, backVars, simVars, pc, budget>>

CanFetch ==
  /\ budget > 0
  /\ ~ AtBlockEnd
  /\ block.instrs[fetchIndex.bb + 1].bytes <= budget
  /\ ~ fetchedLink.stalled

FetchInstruction ==
  /\ pc = "fetcher"
  /\ CanFetch
  /\ fetchedLink' = Pushed(fetchedLink,
                           <<fetchIndex.iteration * NumInstrs + fetchIndex.bb>>)
  /\ fetchIndex' = [fetchIndex EXCEPT !.bb = @ + 1]
  /\ budget' = budget - block.instrs[fetchIndex.bb + 1].bytes
  /\ UNCHANGED <<robVars, renamerVars, instrQueue, decodeQueue, renamedLink,
                 backVars, simVars, pc>>

FetchEnd ==
  /\ pc = "fetcher"
  /\ ~ (AtBlockEnd /\ block.isLoop /\ budget = FetchBytes)
  /\ ~ CanFetch
  /\ Turn("parser", ParseWidth)
  /\ UNCHANGED <<robVars, renamerVars, frontVars, renamedLink, backVars, simVars>>

-----------------------------------------------------------------------------
(* InstructionParser::Tick and InstructionDecoder::Tick.                   *)

CanParse ==
  budget > 0 /\ HasElement(fetchedLink) /\ FifoCanPush(instrQueue, 1, IQCapacity)

ParseInstruction ==
  /\ pc = "parser"
  /\ CanParse
  /\ instrQueue' = Pushed(instrQueue, <<Head(fetchedLink.fifo)>>)
  /\ fetchedLink' = Popped(fetchedLink)
  /\ budget' = budget - 1
  /\ UNCHANGED <<robVars, renamerVars, fetchIndex, decodeQueue, renamedLink,
                 backVars, simVars, pc>>

ParseEnd ==
  /\ pc = "parser"
  /\ ~ CanParse
  /\ Turn("decoder", DecodeWidth)
  /\ UNCHANGED <<robVars, renamerVars, frontVars, renamedLink, backVars, simVars>>

\* The uops of an instruction enter the decode queue together or not at all.
DecodedUops ==
  LET n == Head(instrQueue.fifo)
  IN  [k \in 1 .. Len(InstrAt(n).uops) |-> [instr |-> n, index |-> k - 1]]

CanDecode ==
  /\ budget > 0
  /\ HasElement(instrQueue)
  /\ FifoCanPush(decodeQueue, Len(DecodedUops), IDQCapacity)

DecodeInstruction ==
  /\ pc = "decoder"
  /\ CanDecode
  /\ decodeQueue' = Pushed(decodeQueue, DecodedUops)
  /\ instrQueue' = Popped(instrQueue)
  /\ budget' = budget - 1
  /\ UNCHANGED <<robVars, renamerVars, fetchIndex, fetchedLink, renamedLink,
                 backVars, simVars, pc>>

DecodeEnd ==
  /\ pc = "decoder"
  /\ ~ CanDecode
  /\ Turn("renamer", RenameWidth)
  /\ UNCHANGED <<robVars, renamerVars, frontVars, renamedLink, backVars, simVars>>

-----------------------------------------------------------------------------
(* RegisterRenamer::Tick.                                                  *)

HeadUop == Head(decodeQueue.fifo)
RenamedHead == PopulatedUop(InstrAt(HeadUop.instr), HeadUop)

FlushPending ==
  /\ pc = "renamer"
  /\ pendingUop # NoUop /\ ~ renamedLink.stalled
  /\ renamedLink' = Pushed(renamedLink, <<pendingUop>>)
  /\ pendingUop' = NoUop
  /\ UNCHANGED <<robVars, names, numAllocated, frontVars, backVars, simVars,
                 pc, budget>>

\* Mutant: a uop that the link refuses is forgotten.
RenameUopForgotten ==
  /\ pc = "renamer"
  /\ pendingUop = NoUop
  /\ budget > 0
  /\ HasElement(decodeQueue)
  /\ CorePopulateUop(InstrAt(HeadUop.instr), HeadUop)
  /\ decodeQueue' = Popped(decodeQueue)
  /\ renamedLink' = IF renamedLink.stalled THEN renamedLink
                    ELSE Pushed(renamedLink, <<RenamedHead>>)
  /\ budget' = budget - 1
  /\ UNCHANGED <<robVars, pendingUop, fetchIndex, fetchedLink, instrQueue,
                 backVars, simVars, pc>>

\* The next uop is renamed and pushed, or kept for the next tick.
RenameUop ==
  /\ pc = "renamer"
  /\ pendingUop = NoUop
  /\ budget > 0
  /\ HasElement(decodeQueue)
  /\ CorePopulateUop(InstrAt(HeadUop.instr), HeadUop)
  /\ decodeQueue' = Popped(decodeQueue)
  /\ \/ /\ ~ renamedLink.stalled
        /\ renamedLink' = Pushed(renamedLink, <<RenamedHead>>)
        /\ budget' = budget - 1
        /\ UNCHANGED <<pendingUop, pc>>
     \/ /\ renamedLink.stalled
        /\ pendingUop' = RenamedHead
        /\ Turn("rob", 0)
        /\ UNCHANGED renamedLink
  /\ UNCHANGED <<robVars, fetchIndex, fetchedLink, instrQueue, backVars, simVars>>

RenameEnd ==
  /\ pc = "renamer"
  /\ IF pendingUop # NoUop THEN renamedLink.stalled
     ELSE budget > 0 /\ HasElement(decodeQueue) =>
            ~ CanPopulate(InstrAt(HeadUop.instr), HeadUop)
  /\ Turn("rob", 0)
  /\ UNCHANGED <<robVars, renamerVars, frontVars, renamedLink, backVars, simVars>>

-----------------------------------------------------------------------------
(* ReorderBuffer::Tick.                                                    *)

\* What all its steps leave alone: the front end and the renamer, the units
\* and the retirement station, the simulator.
outsideROB == <<renamerVars, frontVars, units, unit, simVars>>

InLoop(p) == pc = "rob" /\ phase = p

DeleteRetired ==
  /\ InLoop("delete")
  /\ HasElement(retiredLink)
  /\ CoreDeleteRetired(Head(retiredLink.fifo).slot)
  /\ retiredLink' = Popped(retiredLink)
  /\ UNCHANGED <<outsideROB, renamedLink, retireLink, writebackLink, execDeps,
                 portLinks, portLoads, phase, scan, renamed, pc, budget>>

ReadNewUop ==
  /\ InLoop("read")
  /\ HasElement(renamedLink)
  /\ CoreReadNewUop(Head(renamedLink.fifo))
  /\ renamedLink' = Popped(renamedLink)
  /\ renamed' = Append(renamed, Head(renamedLink.fifo))
  /\ UNCHANGED <<outsideROB, retireLink, retiredLink, writebackLink, execDeps,
                 portLinks, portLoads, phase, scan, pc, budget>>

OutputsAvailable ==
  /\ InLoop("deps")
  /\ \E e \in execDeps.ready :
       /\ CoreOutputsAvailable(e.slot)
       /\ execDeps' = [execDeps EXCEPT !.ready = @ \ {e}]
  /\ UNCHANGED <<outsideROB, renamedLink, retireLink, retiredLink,
                 writebackLink, portLinks, portLoads, phase, scan, renamed, pc,
                 budget>>

WrittenBack ==
  /\ InLoop("writeback")
  /\ HasElement(writebackLink)
  /\ CoreWrittenBack(Head(writebackLink.fifo).slot)
  /\ writebackLink' = Popped(writebackLink)
  /\ UNCHANGED <<outsideROB, renamedLink, retireLink, retiredLink, execDeps,
                 portLinks, portLoads, phase, scan, renamed, pc, budget>>

Visited == SlotAt(scan)
IsVisiting == InLoop("execute") /\ scan < NumLive
AcceptingPorts ==
  {p \in entries[Visited].ports : LinkCanPush(portLinks[p], 1, PortCapacity)}

\* LeastLoadedIssuePolicy: the sort is stable, so the ports with the same
\* load stay in the order in which the entry lists them.
BeforeInOrder(p, q) ==
  portLoads[p] < portLoads[q] \/ (portLoads[p] = portLoads[q] /\ p < q)

VisitPortless ==
  /\ IsVisiting
  /\ CoreExecuteWithoutPort(Visited)
  /\ scan' = scan + 1
  /\ UNCHANGED <<outsideROB, renamedLink, retireLink, retiredLink,
                 writebackLink, execDeps, portLinks, portLoads, phase, renamed,
                 pc, budget>>

VisitIssue ==
  /\ IsVisiting
  /\ \E p \in AcceptingPorts :
       /\ \A q \in AcceptingPorts \ {p} : BeforeInOrder(p, q)
       /\ CoreIssue(Visited, p)
       /\ LET e == [slot |-> Visited, latency |-> LatencyOf(Visited)] IN
          /\ portLinks' = [portLinks EXCEPT ![p] = Pushed(@, <<e>>)]
          /\ execDeps' = [execDeps EXCEPT !.pending = @ \cup {e}]
       /\ portLoads' = [portLoads EXCEPT ![p] = @ + 1]
  /\ scan' = scan + 1
  /\ UNCHANGED <<outsideROB, renamedLink, retireLink, retiredLink,
                 writebackLink, phase, renamed, pc, budget>>

VisitSkip ==
  /\ IsVisiting
  /\ entries[Visited].state = "ReadyToExecute" =>
       entries[Visited].ports # {} /\ AcceptingPorts = {}
  /\ scan' = scan + 1
  /\ UNCHANGED <<robVars, outsideROB, renamedLink, retireLink, retiredLink,
                 writebackLink, execDeps, portLinks, portLoads, phase, renamed,
                 pc, budget>>

SendForRetirement ==
  /\ InLoop("retire")
  /\ LinkCanPush(retireLink, 1, RetireWidth)
  /\ CoreSendForRetirement
  /\ retireLink' = Pushed(retireLink, <<[slot |-> firstRetirable,
                                         uop |-> entries[firstRetirable].uop]>>)
  /\ UNCHANGED <<outsideROB, renamedLink, retiredLink, writebackLink, execDeps,
                 portLinks, portLoads, phase, scan, renamed, pc, budget>>

\* A loop of the tick ends when its source is empty, its sink refuses, the
\* reorder buffer is full or every entry was visited.
LoopIsOver ==
  CASE phase = "delete" -> ~ HasElement(retiredLink)
    [] phase = "read" -> ~ HasElement(renamedLink) \/ numEmpty = 0
    [] phase = "deps" -> execDeps.ready = {}
    [] phase = "writeback" -> ~ HasElement(writebackLink)
    [] phase = "execute" -> scan = NumLive
    [] phase = "retire" -> \/ entries[firstRetirable].state # "ReadyToRetire"
                           \/ ~ LinkCanPush(retireLink, 1, RetireWidth)

NextPhase == [delete |-> "read", read |-> "deps", deps |-> "writeback",
              writeback |-> "execute", execute |-> "retire",
              retire |-> "delete"]

NextLoop ==
  /\ pc = "rob"
  /\ LoopIsOver
  /\ phase' = NextPhase[phase]
  /\ scan' = 0
  /\ IF phase = "retire" THEN Turn("unitsRead", 0) /\ unit' = 0
                         ELSE UNCHANGED <<pc, budget, unit>>
  /\ UNCHANGED <<robVars, renamerVars, frontVars, units, simVars, renamedLink,
                 retireLink, retiredLink, writebackLink, execDeps, portLinks,
                 portLoads, renamed>>

-----------------------------------------------------------------------------
(* SimplifiedExecutionUnits::Tick and Retirer::Tick.                       *)

\* DecreaseLatencies.
Aged(elems) ==
  {[e EXCEPT !.latency = IF @ > 0 THEN @ - 1 ELSE 0] : e \in elems}

Executed(elems) == {e \in elems : e.latency = 0}

UnitRead ==
  /\ pc = "unitsRead"
  /\ units' = [units EXCEPT ![unit] = Aged(@ \cup Range(portLinks[unit].fifo))]
  /\ portLinks' = [portLinks EXCEPT ![unit].fifo = << >>]
  /\ Turn("unitsWrite", 0)
  /\ UNCHANGED <<robVars, renamerVars, frontVars, renamedLink, simVars,
                 retireLink, retiredLink, writebackLink, execDeps, unit,
                 portLoads, phase, scan, renamed>>

UnitWriteBack ==
  /\ pc = "unitsWrite"
  /\ ~ writebackLink.stalled
  /\ \E e \in Executed(units[unit]) :
       /\ writebackLink' = Pushed(writebackLink, <<e>>)
       /\ units' = [units EXCEPT ![unit] = @ \ {e}]
  /\ UNCHANGED <<robVars, renamerVars, frontVars, renamedLink, simVars,
                 retireLink, retiredLink, execDeps, unit, portLinks, portLoads,
                 phase, scan, renamed, pc, budget>>

UnitEnd ==
  /\ pc = "unitsWrite"
  /\ Executed(units[unit]) = {} \/ writebackLink.stalled
  /\ IF unit + 1 \in Ports THEN Turn("unitsRead", 0) /\ unit' = unit + 1
                           ELSE Turn("retirer", 0) /\ unit' = 0
  /\ UNCHANGED <<robVars, renamerVars, frontVars, renamedLink, simVars,
                 retireLink, retiredLink, writebackLink, execDeps, units,
                 portLinks, portLoads, phase, scan, renamed>>

\* The last uop of an instruction retires the instruction.
RetireUop ==
  /\ pc = "retirer"
  /\ HasElement(retireLink) /\ ~ retiredLink.stalled
  /\ LET e == Head(retireLink.fifo) IN
     /\ retiredLink' = Pushed(retiredLink, <<e>>)
     /\ instructionSink' =
          IF IsLastUop(InstrAt(e.uop.instr), e.uop)
          THEN Append(instructionSink, e.uop.instr) ELSE instructionSink
  /\ retireLink' = Popped(retireLink)
  /\ UNCHANGED <<robVars, renamerVars, frontVars, renamedLink, block,
                 numIterations, writebackLink, execDeps, units, unit, portLinks,
                 portLoads, phase, scan, renamed, pc, budget>>

RetireEnd ==
  /\ pc = "retirer"
  /\ ~ HasElement(retireLink) \/ retiredLink.stalled
  /\ Turn("propagate", 0)
  /\ UNCHANGED <<robVars, renamerVars, frontVars, renamedLink, backVars, simVars>>

-----------------------------------------------------------------------------
(* The end of a cycle in Simulator::Run.                                   *)

EndsIteration(n) == n % NumInstrs = NumInstrs - 1

\* Where the sink has the last instruction of an iteration: the iterations
\* that finish in this cycle, before the k-th element and in all.
FinishedBefore(k) == {j \in 1 .. k - 1 : EndsIteration(instructionSink[j])}
Finished == FinishedBefore(Len(instructionSink) + 1)

ReachedLimit ==
  MaxNumIterations > 0 /\ \E k \in Finished :
                            instructionSink[k] \div NumInstrs + 1 >= MaxNumIterations

EndCycle ==
  /\ pc = "propagate"
  /\ fetchedLink' = LinkPropagated(fetchedLink)
  /\ instrQueue' = FifoPropagated(instrQueue)
  /\ decodeQueue' = FifoPropagated(decodeQueue)
  /\ portLinks' = [p \in Ports |-> LinkPropagated(portLinks[p])]
  /\ renamedLink' = LinkPropagated(renamedLink)
  /\ retireLink' = LinkPropagated(retireLink)
  /\ writebackLink' = LinkPropagated(writebackLink)
  /\ execDeps' =
       LET aged == Aged(execDeps.pending)
       IN  [pending |-> aged \ Executed(aged),
            ready |-> execDeps.ready \cup Executed(aged)]
  /\ retiredLink' = LinkPropagated(retiredLink)
  /\ instructionSink' = << >>
  /\ IF ReachedLimit
     THEN numIterations' = MaxNumIterations /\ Turn("done", 0)
     ELSE /\ numIterations' = numIterations + Cardinality(Finished)
          /\ Turn("fetcher", FetchBytes)
  /\ UNCHANGED <<robVars, renamerVars, fetchIndex, units, unit, portLoads,
                 phase, scan, renamed, block>>

\* Simulator::Run has returned.
Done == pc = "done" /\ UNCHANGED vars

Next ==
  \/ FetchNextIteration \/ FetchInstruction \/ FetchEnd
  \/ ParseInstruction \/ ParseEnd
  \/ DecodeInstruction \/ DecodeEnd
  \/ FlushPending \/ RenameUop \/ RenameEnd
  \/ DeleteRetired \/ ReadNewUop \/ OutputsAvailable \/ WrittenBack
  \/ VisitPortless \/ VisitIssue \/ VisitSkip
  \/ SendForRetirement \/ NextLoop
  \/ UnitRead \/ UnitWriteBack \/ UnitEnd
  \/ RetireUop \/ RetireEnd
  \/ EndCycle
  \/ Done

\* One thread runs the simulation, and it is never preempted for good.
Spec == Init /\ [][Next]_vars /\ WF_vars(Next)

-----------------------------------------------------------------------------
(* The reorder buffer in its place.                                        *)

SlotsOf(elems) == [k \in DOMAIN elems |-> elems[k].slot]
SlotSet(elems) == {e.slot : e \in elems}

\* The uops in the ports and the execution units.
Executing == UNION {Range(Contents(portLinks[p])) \cup units[p] : p \in Ports}

ROB == INSTANCE ReorderBuffer
  WITH MaxUops <- 0, DistinctDefs <- TRUE, PromptUops <- TRUE,
       retiring <- SlotsOf(Contents(retiredLink)) \o SlotsOf(Contents(retireLink)),
       awaitingDeps <- SlotSet(execDeps.pending \cup execDeps.ready),
       awaitingWriteback <-
         SlotSet(Executing \cup Range(Contents(writebackLink)))

-----------------------------------------------------------------------------
(* Properties.                                                             *)

\* The wiring keeps the contract under which the reorder buffer was checked
\* on its own: the step of every component is a step of ReorderBuffer.
KeepsROBContract ==
  /\ ROB!Init
  /\ [][\/ ROB!LoopStep
        \/ Len(renamed') > Len(renamed) /\ ROB!ReadNewUop(Last(renamed'))]_(ROB!vars)

\* NoRetiredDependency of ReorderBuffer, in the wired simulator.
NoRetiredDependency == ROB!NoRetiredDependency

\* What is on its way from the fetcher to the reorder buffer, read from the
\* back of the pipeline to its front.
UopsInFlight ==
  [k \in DOMAIN renamed |-> renamed[k].id]
    \o [k \in DOMAIN Contents(renamedLink) |-> Contents(renamedLink)[k].id]
    \o (IF pendingUop = NoUop THEN << >> ELSE <<pendingUop.id>>)
    \o Contents(decodeQueue)
InstrsInFlight == Contents(instrQueue) \o Contents(fetchedLink)

FollowsInTrace(id, next) ==
  IF IsLastUop(InstrAt(id.instr), id)
  THEN next = [instr |-> id.instr + 1, index |-> 0]
  ELSE next = [id EXCEPT !.index = @ + 1]

\* The assertion of Simulator::Run on the iterations that finish: "Simulation is
\* not in order".
IterationsInOrder ==
  \A k \in Finished :
    instructionSink[k] \div NumInstrs = numIterations + Cardinality(FinishedBefore(k))

\* No uop or instruction is lost, duplicated or reordered: from the retirement
\* station back to the fetcher, the trace is gapless.
GaplessTrace ==
  LET u == UopsInFlight
      decoded == IF u = << >> THEN 0 ELSE Last(u).instr + 1
  IN  /\ u # << >> => Head(u) = [instr |-> 0, index |-> 0]
      /\ \A k \in 1 .. Len(u) - 1 : FollowsInTrace(u[k], u[k + 1])
      /\ u # << >> => IsLastUop(InstrAt(Last(u).instr), Last(u))
      /\ \A k \in DOMAIN InstrsInFlight : InstrsInFlight[k] = decoded + k - 1
      /\ fetchIndex.iteration * NumInstrs + fetchIndex.bb =
           decoded + Len(InstrsInFlight)
      /\ IterationsInOrder

\* The simulation of a loop ends: no component waits for ever.
Terminates == block.isLoop => <>(pc = "done")

=============================================================================
