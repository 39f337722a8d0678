------------------------------ MODULE ROBCore ------------------------------
(***************************************************************************)
(* The state of llvm_sim's ReorderBuffer and what each of its elementary   *)
(* operations does to that state (llvm_sim/components/reorder_buffer.cc).  *)
(*                                                                         *)
(* The ROB is a circular buffer of NumROBEntries entries.  This module     *)
(* only has the part of each loop body that touches the ROB itself;        *)
(* ReorderBuffer puts it in an arbitrary environment and Haswell wires it  *)
(* to the buffers and components of the simulated pipeline.                *)
(*                                                                         *)
(* Abstractions: the vectors and sets of an entry are sets (the order in   *)
(* which dependencies are added or resolved is never observable), and a    *)
(* uop carries the ports that its decomposition allows, {} for a uop that  *)
(* needs no execution unit.                                                *)
(***************************************************************************)
EXTENDS Integers

CONSTANTS
  NumROBEntries,  \* Config::NumROBEntries
  Regs,           \* microarchitectural register names handed out by the renamer
  Ports           \* indices into PortSinks_

ASSUME NumROBEntriesAssumption == NumROBEntries \in Nat \ {0}

VARIABLES
  entries,         \* Entries_.Entries_
  firstEmpty,      \* Entries_.FirstEmptyEntryIndex_
  numEmpty,        \* Entries_.NumEmptyEntries_
  firstRetirable,  \* Entries_.FirstRetirableEntryIndex_
  inFlightDefs     \* InFlightRegisterDefs_, NoEntry where there is no key

robVars == <<entries, firstEmpty, numEmpty, firstRetirable, inFlightDefs>>

Slots == 0 .. NumROBEntries - 1
NoEntry == NumROBEntries

UopIds == [instr : Nat, index : Nat]
RenamedUops == [id : UopIds, uses : SUBSET Regs, defs : SUBSET Regs,
                ports : SUBSET Ports]

States == {"Empty", "WaitingForInputs", "ReadyToExecute", "Issued",
           "OutputsAvailable", "ReadyToRetire", "SentForRetirement", "Retired"}

ROBEntries == [state : States, uop : UopIds, defs : SUBSET Regs,
               ports : SUBSET Ports, unsat : SUBSET Slots,
               dependents : SUBSET Slots]

CoreTypeOK ==
  /\ entries \in [Slots -> ROBEntries]
  /\ firstEmpty \in Slots
  /\ numEmpty \in 0 .. NumROBEntries
  /\ firstRetirable \in Slots
  /\ inFlightDefs \in [Regs -> Slots \cup {NoEntry}]

-----------------------------------------------------------------------------
(* The circular buffer.                                                    *)

NextSlot(i) == IF i + 1 = NumROBEntries THEN 0 ELSE i + 1
PrevSlot(i) == IF i = 0 THEN NumROBEntries - 1 ELSE i - 1

OldestEntry ==
  LET index == firstEmpty + numEmpty
  IN  IF index >= NumROBEntries THEN index - NumROBEntries ELSE index

\* Mutant: the loop runs over the vector instead of the ring.
SlotAtVectorOrder(i) == i

\* The i-th entry of the range-based loop over the buffer, from i = 0.
SlotAt(i) ==
  IF OldestEntry + i >= NumROBEntries THEN OldestEntry + i - NumROBEntries
                                      ELSE OldestEntry + i

NumLive == NumROBEntries - numEmpty

EmptyEntry == [state |-> "Empty", uop |-> [instr |-> 0, index |-> 0],
               defs |-> {}, ports |-> {}, unsat |-> {}, dependents |-> {}]

\* ROBEntry::Clear leaves UnsatisfiedDependencies as it is: `empty()` only
\* asks whether the set is empty.  The uop stays in the entry as well.
Cleared(e) == [e EXCEPT !.state = "Empty", !.defs = {}, !.ports = {},
                        !.dependents = {}]

CoreInit ==
  /\ entries = [i \in Slots |-> EmptyEntry]
  /\ firstEmpty = 0
  /\ numEmpty = NumROBEntries
  /\ firstRetirable = 0
  /\ inFlightDefs = [r \in Regs |-> NoEntry]

-----------------------------------------------------------------------------
(* Data dependencies.                                                      *)

\* The states in which the outputs of a uop can be consumed.
DoneStates == {"OutputsAvailable", "ReadyToRetire", "SentForRetirement"}

\* Mutant: definers that are already done are not skipped.
UseDependenciesNoDoneCheck(u) ==
  {inFlightDefs[r] : r \in {s \in u.uses : inFlightDefs[s] # NoEntry}}

\* The entries that SetInputDependencies adds for the registers uop `u' uses.
UseDependencies(u) ==
  {inFlightDefs[r] : r \in
    {s \in u.uses : /\ inFlightDefs[s] # NoEntry
                    /\ entries[inFlightDefs[s]].state \notin DoneStates}}

\* Mutant: every uop is taken for the first of its instruction.
PrevDependencyNever(u) == {}

\* Every uop but the first of an instruction also depends on the uop before it.
PrevDependency(u) ==
  IF u.id.index # 0 /\ entries[PrevSlot(firstEmpty)].state \notin DoneStates
  THEN {PrevSlot(firstEmpty)} ELSE {}

InputDependencies(u) == UseDependencies(u) \cup PrevDependency(u)

\* UpdateDependentEntries, on the array es.
SatisfyDependents(es, i) ==
  [j \in Slots |->
    IF j \in es[i].dependents
    THEN [es[j] EXCEPT !.unsat = @ \ {i},
                       !.state = IF es[j].unsat \subseteq {i}
                                 THEN "ReadyToExecute" ELSE @]
    ELSE es[j]]

-----------------------------------------------------------------------------
(* The loop bodies of Tick.                                                *)

\* DeleteRetiredUops, for the head i of RetiredSource_.
CoreDeleteRetired(i) ==
  /\ inFlightDefs' = [r \in Regs |-> IF r \in entries[i].defs THEN NoEntry
                                     ELSE inFlightDefs[r]]
  /\ LET retired == [entries EXCEPT ![i].state = "Retired"]
     IN  entries' = [retired EXCEPT ![OldestEntry] = Cleared(@)]
  /\ numEmpty' = numEmpty + 1
  /\ UNCHANGED <<firstEmpty, firstRetirable>>

\* ReadNewUops, for the head u of UopSource_.  `emplace' does not replace the
\* definition of a register that has one already.
CoreReadNewUop(u) ==
  LET deps == InputDependencies(u)
      new  == firstEmpty
      unsat == entries[new].unsat \cup deps
  IN
  /\ numEmpty > 0
  /\ entries' = [i \in Slots |->
       IF i = new
       THEN [state |-> IF unsat = {} THEN "ReadyToExecute"
                                     ELSE "WaitingForInputs",
             uop |-> u.id, defs |-> u.defs,
             ports |-> entries[i].ports \cup u.ports, unsat |-> unsat,
             dependents |-> entries[i].dependents \cup (deps \cap {i})]
       ELSE IF i \in deps
       THEN [entries[i] EXCEPT !.dependents = @ \cup {new}]
       ELSE entries[i]]
  /\ inFlightDefs' = [r \in Regs |->
       IF r \in u.defs /\ inFlightDefs[r] = NoEntry THEN new
                                                    ELSE inFlightDefs[r]]
  /\ numEmpty' = numEmpty - 1
  /\ firstEmpty' = NextSlot(firstEmpty)
  /\ UNCHANGED firstRetirable

\* Mutant: the entry does not wait for its writeback.
CoreOutputsAvailableReady(i) ==
  /\ entries' = SatisfyDependents(
       [entries EXCEPT ![i].state = "ReadyToRetire"], i)
  /\ UNCHANGED <<firstEmpty, numEmpty, firstRetirable, inFlightDefs>>

\* UpdateDataDependencies, for the head i of AvailableDepsSource_.
CoreOutputsAvailable(i) ==
  /\ entries' = SatisfyDependents(
       [entries EXCEPT ![i].state = "OutputsAvailable"], i)
  /\ UNCHANGED <<firstEmpty, numEmpty, firstRetirable, inFlightDefs>>

\* UpdateWrittenBackUops, for the head i of WritebackSource_.
CoreWrittenBack(i) ==
  /\ entries' = [entries EXCEPT ![i].state = "ReadyToRetire"]
  /\ UNCHANGED <<firstEmpty, numEmpty, firstRetirable, inFlightDefs>>

\* SendUopsForExecution, for a ready entry without ports ...
CoreExecuteWithoutPort(i) ==
  /\ entries[i].state = "ReadyToExecute"
  /\ entries[i].ports = {}
  /\ entries' = SatisfyDependents(
       [entries EXCEPT ![i].state = "ReadyToRetire"], i)
  /\ UNCHANGED <<firstEmpty, numEmpty, firstRetirable, inFlightDefs>>

\* Mutant: an entry is issued although it waits for inputs.
CoreIssueEarly(i, p) ==
  /\ entries[i].state \in {"WaitingForInputs", "ReadyToExecute"}
  /\ p \in entries[i].ports
  /\ entries' = [entries EXCEPT ![i].state = "Issued"]
  /\ UNCHANGED <<firstEmpty, numEmpty, firstRetirable, inFlightDefs>>

\* ... and for a ready entry that port p has accepted.
CoreIssue(i, p) ==
  /\ entries[i].state = "ReadyToExecute"
  /\ p \in entries[i].ports
  /\ entries' = [entries EXCEPT ![i].state = "Issued"]
  /\ UNCHANGED <<firstEmpty, numEmpty, firstRetirable, inFlightDefs>>

\* Mutant: an entry is retired as soon as its outputs are available.
CoreSendForRetirementEarly ==
  /\ entries[firstRetirable].state \in {"OutputsAvailable", "ReadyToRetire"}
  /\ entries' = [entries EXCEPT ![firstRetirable].state = "SentForRetirement"]
  /\ firstRetirable' = NextSlot(firstRetirable)
  /\ UNCHANGED <<firstEmpty, numEmpty, inFlightDefs>>

\* SendUopsForRetirement, once RetirementSink_ has accepted the entry.
CoreSendForRetirement ==
  /\ entries[firstRetirable].state = "ReadyToRetire"
  /\ entries' = [entries EXCEPT ![firstRetirable].state = "SentForRetirement"]
  /\ firstRetirable' = NextSlot(firstRetirable)
  /\ UNCHANGED <<firstEmpty, numEmpty, inFlightDefs>>

=============================================================================
