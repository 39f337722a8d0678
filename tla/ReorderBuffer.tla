---------------------------- MODULE ReorderBuffer ----------------------------
(***************************************************************************)
(* ReorderBuffer::Tick (llvm_sim/components/reorder_buffer.cc) in any      *)
(* environment that keeps the contract of its sources and sinks.           *)
(*                                                                         *)
(* A tick runs six loops in a fixed order; `phase' says which one is       *)
(* running.  The environment decides how many elements a source has (a     *)
(* loop may stop at any time) and which pushes a sink accepts.  What it    *)
(* may not do is the contract below: a uop becomes available, is written   *)
(* back and is retired once, after it was issued, made available or sent   *)
(* for retirement, and retired uops come back in the order they were sent. *)
(* The Haswell wiring keeps this contract: module Haswell.                 *)
(***************************************************************************)
EXTENDS ROBCore, Sequences

CONSTANTS
  MaxUops,       \* bound: how many uops the environment renames
  DistinctDefs,  \* TRUE: no register is defined twice (RegisterRenamer)
  PromptUops     \* TRUE: uop k + 1 arrives while uop k is in the ROB

ASSUME ContractAssumption == DistinctDefs \in BOOLEAN /\ PromptUops \in BOOLEAN

VARIABLES
  phase,              \* the loop of Tick that is running
  scan,               \* how many entries SendUopsForExecution has visited
  renamed,            \* history: the uops read so far, in program order
  retiring,           \* entries on their way through the retirement station
  awaitingDeps,       \* issued entries whose outputs are not yet available
  awaitingWriteback   \* issued entries that are not yet written back

envVars == <<renamed, retiring, awaitingDeps, awaitingWriteback>>
vars == <<robVars, phase, scan, envVars>>

Phases == {"delete", "read", "deps", "writeback", "execute", "retire"}

NextPhase == [delete |-> "read", read |-> "deps", deps |-> "writeback",
              writeback |-> "execute", execute |-> "retire",
              retire |-> "delete"]

Init ==
  /\ CoreInit
  /\ phase = "delete"
  /\ scan = 0
  /\ renamed = << >>
  /\ retiring = << >>
  /\ awaitingDeps = {}
  /\ awaitingWriteback = {}

-----------------------------------------------------------------------------
(* What the renamer may send.                                              *)

DefinedRegs == UNION {renamed[k].defs : k \in DOMAIN renamed}

\* The next uop of the instruction that came last, or the first of the next.
InProgramOrder(id) ==
  IF renamed = << >> THEN id = [instr |-> 0, index |-> 0]
  ELSE LET last == renamed[Len(renamed)].id
       IN  \/ id = [last EXCEPT !.index = @ + 1]
           \/ id = [instr |-> last.instr + 1, index |-> 0]

\* RegisterRenamer gives the uses of an instruction to its first uop, and
\* names only registers that an earlier uop defined.
MayArrive(u) ==
  /\ InProgramOrder(u.id)
  /\ u.uses \subseteq (IF u.id.index = 0 THEN DefinedRegs ELSE {})
  /\ DistinctDefs => u.defs \cap DefinedRegs = {}
  /\ PromptUops /\ u.id.index # 0 => numEmpty < NumROBEntries

Arrivals ==
  LET instrs == IF renamed = << >> THEN {0}
                ELSE {renamed[Len(renamed)].id.instr,
                      renamed[Len(renamed)].id.instr + 1}
      indices == IF renamed = << >> THEN {0}
                 ELSE {0, renamed[Len(renamed)].id.index + 1}
  IN  [id : [instr : instrs, index : indices], uses : SUBSET Regs,
       defs : SUBSET Regs, ports : SUBSET Ports]

-----------------------------------------------------------------------------
(* The loops.                                                              *)

\* DeleteRetiredUops: one element of RetiredSource_.
DeleteRetired ==
  /\ phase = "delete"
  /\ retiring # << >>
  /\ CoreDeleteRetired(Head(retiring))
  /\ retiring' = Tail(retiring)
  /\ UNCHANGED <<phase, scan, renamed, awaitingDeps, awaitingWriteback>>

\* ReadNewUops: one element of UopSource_.
ReadNewUop(u) ==
  /\ phase = "read"
  /\ MayArrive(u)
  /\ CoreReadNewUop(u)
  /\ renamed' = Append(renamed, u)
  /\ UNCHANGED <<phase, scan, retiring, awaitingDeps, awaitingWriteback>>

\* UpdateDataDependencies: one element of AvailableDepsSource_.
OutputsAvailable(i) ==
  /\ phase = "deps"
  /\ i \in awaitingDeps
  /\ CoreOutputsAvailable(i)
  /\ awaitingDeps' = awaitingDeps \ {i}
  /\ UNCHANGED <<phase, scan, renamed, retiring, awaitingWriteback>>

\* UpdateWrittenBackUops: one element of WritebackSource_, which never is
\* ahead of AvailableDepsSource_.
WrittenBack(i) ==
  /\ phase = "writeback"
  /\ i \in awaitingWriteback \ awaitingDeps
  /\ CoreWrittenBack(i)
  /\ awaitingWriteback' = awaitingWriteback \ {i}
  /\ UNCHANGED <<phase, scan, renamed, retiring, awaitingDeps>>

\* SendUopsForExecution visits the live entries from the oldest to the
\* youngest: it executes an entry that needs no port at once,
VisitPortless ==
  /\ phase = "execute"
  /\ scan < NumLive
  /\ CoreExecuteWithoutPort(SlotAt(scan))
  /\ scan' = scan + 1
  /\ UNCHANGED <<phase, envVars>>

\* issues a ready entry to one of its ports that accepts it,
VisitIssue(p) ==
  /\ phase = "execute"
  /\ scan < NumLive
  /\ CoreIssue(SlotAt(scan), p)
  /\ scan' = scan + 1
  /\ awaitingDeps' = awaitingDeps \cup {SlotAt(scan)}
  /\ awaitingWriteback' = awaitingWriteback \cup {SlotAt(scan)}
  /\ UNCHANGED <<phase, renamed, retiring>>

\* and leaves an entry that is not ready, or that no port accepts, as it is.
VisitSkip ==
  /\ phase = "execute"
  /\ scan < NumLive
  /\ ~ (/\ entries[SlotAt(scan)].state = "ReadyToExecute"
        /\ entries[SlotAt(scan)].ports = {})
  /\ scan' = scan + 1
  /\ UNCHANGED <<robVars, phase, envVars>>

\* SendUopsForRetirement: one entry that RetirementSink_ accepts.
SendForRetirement ==
  /\ phase = "retire"
  /\ CoreSendForRetirement
  /\ retiring' = Append(retiring, firstRetirable)
  /\ UNCHANGED <<phase, scan, renamed, awaitingDeps, awaitingWriteback>>

\* A loop ends: its source is empty, its sink is full, or all is visited.
NextLoop ==
  /\ phase = "execute" => scan = NumLive
  /\ phase' = NextPhase[phase]
  /\ scan' = 0
  /\ UNCHANGED <<robVars, envVars>>

LoopStep ==
  \/ DeleteRetired
  \/ \E i \in Slots : OutputsAvailable(i)
  \/ \E i \in Slots : WrittenBack(i)
  \/ VisitPortless
  \/ \E p \in Ports : VisitIssue(p)
  \/ VisitSkip
  \/ SendForRetirement
  \/ NextLoop

\* The bound on the uops is the environment's, not the buffer's.
Next ==
  \/ LoopStep
  \/ Len(renamed) < MaxUops /\ \E u \in Arrivals : ReadNewUop(u)

Spec == Init /\ [][Next]_vars

-----------------------------------------------------------------------------
(* Uops by their position in program order, 1 .. Len(renamed).             *)

NumReleased == Len(renamed) - NumLive
LivePositions == NumReleased + 1 .. Len(renamed)
SlotOf(k) == SlotAt(k - NumReleased - 1)
StateOf(k) == entries[SlotOf(k)].state

HasOutputs(k) == k \in LivePositions => StateOf(k) \in DoneStates

\* The abstract machine that the reorder buffer implements.
AbstractStage(k) ==
  IF k \notin LivePositions THEN "done"
  ELSE CASE StateOf(k) \in {"WaitingForInputs", "ReadyToExecute"} -> "waiting"
         [] StateOf(k) = "Issued" -> "executing"
         [] StateOf(k) = "OutputsAvailable" -> "available"
         [] OTHER -> "done"

Machine == INSTANCE Dataflow
  WITH Capacity <- NumROBEntries, uops <- renamed,
       stage <- [k \in 1 .. Len(renamed) |-> AbstractStage(k)],
       numRetired <- NumReleased

-----------------------------------------------------------------------------
(* Properties.                                                             *)

\* Every variable keeps its type.
TypeOK ==
  /\ CoreTypeOK
  /\ phase \in Phases
  /\ scan \in 0 .. NumROBEntries
  /\ renamed \in Seq(RenamedUops)
  /\ retiring \in Seq(Slots)
  /\ awaitingDeps \in SUBSET Slots
  /\ awaitingWriteback \in SUBSET Slots

\* The circular buffer holds exactly the youngest NumLive uops, in program
\* order from the oldest entry on, and everything outside that window is
\* empty (the asserts on kEmpty in ReserveEntry and kRetired in
\* ReleaseOldestEntry; no uop is lost or overwritten when indices wrap).
LiveWindow ==
  /\ NumLive <= Len(renamed)
  /\ \A i \in 0 .. NumLive - 1 :
       /\ entries[SlotAt(i)].state \notin {"Empty", "Retired"}
       /\ entries[SlotAt(i)].uop = renamed[NumReleased + 1 + i].id
  /\ \A i \in NumLive .. NumROBEntries - 1 :
       entries[SlotAt(i)].state = "Empty"

\* The entries under retirement are the oldest ones, in order, so that the
\* entry that ReleaseOldestEntry frees is the one that just retired, and
\* FirstRetirableEntryIndex_ is the entry behind them.
InOrderRetirement ==
  /\ Len(retiring) <= NumLive
  /\ \A k \in 1 .. Len(retiring) : retiring[k] = SlotAt(k - 1)
  /\ \A i \in 0 .. NumLive - 1 :
       entries[SlotAt(i)].state = "SentForRetirement" <=> i < Len(retiring)
  /\ firstRetirable = SlotAt(Len(retiring))

\* An entry is in flight in the execution units exactly while its state says
\* so: the asserts of UpdateDataDependencies and UpdateWrittenBackUops.
InFlightMatchesState ==
  \A i \in Slots :
    /\ i \in awaitingDeps <=> entries[i].state = "Issued"
    /\ i \in awaitingWriteback <=>
         entries[i].state \in {"Issued", "OutputsAvailable"}

\* The two directions of a dependency agree: i lists j as a dependent that it
\* still has to wake exactly while j waits for i, and only waiting entries
\* have unsatisfied dependencies (the asserts of UpdateDependentEntries).
DependencyGraph ==
  \A j \in Slots :
    /\ entries[j].unsat # {} <=> entries[j].state = "WaitingForInputs"
    /\ \A i \in Slots :
         i \in entries[j].unsat <=>
           /\ j \in entries[i].dependents
           /\ entries[i].state \notin DoneStates

\* An entry only waits for older uops that are still in the buffer and not
\* done: "this does not include uops that have already retired"
\* (reorder_buffer.h).
NoRetiredDependency ==
  \A k \in LivePositions : \A d \in entries[SlotOf(k)].unsat :
    \E m \in LivePositions : m < k /\ SlotOf(m) = d /\ ~ HasOutputs(m)

\* Data flow: a uop waits exactly while a uop that produces one of its inputs
\* has no outputs yet.  It is never sent to a port before its inputs exist,
\* and never kept waiting after they do.
WaitsForProducers ==
  \A k \in LivePositions :
    StateOf(k) = "WaitingForInputs" <=> \E m \in Machine!Producers(k) : ~ HasOutputs(m)

\* A uop that needs no port is executed in the tick in which its inputs
\* become ready, even when they come from another such uop in that tick:
\* SendUopsForExecution meets producers before consumers.
PortlessUopsNeverLinger ==
  phase = "retire" => \A i \in Slots : ~ (/\ entries[i].state = "ReadyToExecute"
                                          /\ entries[i].ports = {})

\* The reorder buffer executes and retires uops as the abstract machine does.
ImplementsDataflow == Machine!Spec

=============================================================================
