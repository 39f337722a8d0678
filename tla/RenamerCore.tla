---------------------------- MODULE RenamerCore ----------------------------
(***************************************************************************)
(* The state of RegisterRenamer and what renaming one uop does to it       *)
(* (llvm_sim/components/register_renamer.cc).                              *)
(*                                                                         *)
(* A register is the set of its register units.  An instruction is a       *)
(* record: `uops' is its decomposition (the ports and the latency of each  *)
(* uop), `uses' the units of the registers that it reads, `defs' the       *)
(* registers that it writes, in order, and `bytes' its encoded size.       *)
(* PhysicalRegistersFreelist_ stays empty, for nothing ever calls          *)
(* ReleasePhysicalRegisterId, and is left out; names are counted from 1.   *)
(***************************************************************************)
EXTENDS Integers, Sequences

CONSTANTS
  Units,                 \* register units
  NumPhysicalRegisters,  \* Config::NumPhysicalRegisters
  NoUop                  \* no pending uop

ASSUME RenamerAssumption == NumPhysicalRegisters \in Nat

VARIABLES
  names,         \* RegisterNameTrackerImpl::Names_, 0 for no active name
  numAllocated,  \* NumAllocatedPhysicalRegisters_
  pendingUop     \* RenamedUop_ while HasPendingUop_, else NoUop

renamerVars == <<names, numAllocated, pendingUop>>

RenamerInit ==
  /\ names = [x \in Units |-> 0]
  /\ numAllocated = 0
  /\ pendingUop = NoUop

\* RegisterNameTracker::GetNameDeps.
NameDeps(units) == {names[x] : x \in units} \ {0}

HasAtLeastFreePhysicalRegisterIds(n) == numAllocated + n < NumPhysicalRegisters

IsLastUop(instr, id) == id.index + 1 = Len(instr.uops)

\* The number of physical registers that uop `id' of `instr' needs.
NumRenames(instr, id) == IF IsLastUop(instr, id) THEN Len(instr.defs) ELSE 0

\* PopulateUop succeeds; nothing has changed when it does not.
CanPopulate(instr, id) ==
  IsLastUop(instr, id) => HasAtLeastFreePhysicalRegisterIds(Len(instr.defs))

NewName(d) == numAllocated + d

\* Mutant: every uop reads the uses of its instruction.
PopulatedUopAllUse(instr, id) ==
  [id |-> id, uses |-> NameDeps(instr.uses),
   defs |-> {NewName(d) : d \in 1 .. NumRenames(instr, id)},
   ports |-> instr.uops[id.index + 1].ports]

\* PopulateUop: the first uop reads all the uses of the instruction, the last
\* one writes all its defs.
PopulatedUop(instr, id) ==
  [id |-> id,
   uses |-> IF id.index = 0 THEN NameDeps(instr.uses) ELSE {},
   defs |-> {NewName(d) : d \in 1 .. NumRenames(instr, id)},
   ports |-> instr.uops[id.index + 1].ports]

\* Mutants: one register is allocated for all the defs; the first SetName of
\* a unit counts.
CorePopulateUopOneRegister(instr, id) ==
  /\ CanPopulate(instr, id)
  /\ numAllocated' = IF NumRenames(instr, id) = 0 THEN numAllocated
                                                  ELSE numAllocated + 1
  /\ UNCHANGED names
CorePopulateUopFirstWins(instr, id) ==
  /\ CanPopulate(instr, id)
  /\ numAllocated' = numAllocated + NumRenames(instr, id)
  /\ names' = [x \in Units |->
       LET setters == {d \in 1 .. NumRenames(instr, id) : x \in instr.defs[d]}
       IN  IF setters = {} THEN names[x]
           ELSE NewName(CHOOSE d \in setters : \A e \in setters : d <= e)]

\* The effect of PopulateUop on the tracker.  When the registers that an
\* instruction defines overlap, the last SetName of a unit counts.
CorePopulateUop(instr, id) ==
  /\ CanPopulate(instr, id)
  /\ numAllocated' = numAllocated + NumRenames(instr, id)
  /\ names' = [x \in Units |->
       LET setters == {d \in 1 .. NumRenames(instr, id) : x \in instr.defs[d]}
       IN  IF setters = {} THEN names[x]
           ELSE NewName(CHOOSE d \in setters : \A e \in setters : e <= d)]

=============================================================================
