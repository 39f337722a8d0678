----------------------------- MODULE Itineraries -----------------------------
(***************************************************************************)
(* ComputeItineraries (src/exegesis/itineraries/compute_itineraries.cc):   *)
(* every instruction is measured in a loop on the host, the measurement is *)
(* decomposed into micro-operations, and the micro-operations of the code  *)
(* that moves RSI on are taken out again when the instruction touches      *)
(* memory.                                                                 *)
(*                                                                         *)
(* An instruction is what the program asks of it: whether the CPU supports *)
(* it, whether it assembles, its operands, and `uops', what the CPU really *)
(* runs for it (a sequence of port mask indices that only the measurement  *)
(* sees), with or without an even load on the ports of a mask.  An         *)
(* evaluation can fail: the code does not compile, or nothing is counted   *)
(* because the counters are not permitted.                                 *)
(***************************************************************************)
EXTENDS Decomposition, Bags

CONSTANTS
  InstructionSets,  \* the instruction sets the tool may be given
  UpdateCodeUops,   \* the micro-operations of ADD RSI,16
  PortEvents        \* the port events of the microarchitecture: the ports each one counts

ASSUME ItinerariesAssumption ==
  /\ UpdateCodeUops \in Seq(MaskIndices)
  /\ PortEvents \subseteq SUBSET Ports
  /\ \A set \in InstructionSets :
       /\ set \in Seq(Range(set))
       /\ \A i \in DOMAIN set : set[i].uops \in Seq(MaskIndices)

VARIABLES
  instruction_set,        \* instruction_set.instructions
  itineraries,            \* itineraries, one per instruction
  update_code_micro_ops,  \* the bag of port masks of the update code
  stats,                  \* Stats
  global_status,          \* the status that is returned
  current,                \* the loop: the index of the instruction, its stage
  outcomes                \* ghost: how each instruction has ended

programVars == <<instruction_set, itineraries, update_code_micro_ops, stats,
          global_status, current, outcomes>>

\* The micro-operations an itinerary holds before it is computed: whatever an
\* earlier computation has left in it.
Earlier == <<[portMask |-> {}, latency |-> 0]>>

NoStats == [num_instructions |-> 0, num_unsolved_mips |-> 0, num_assembly_errors |-> 0,
            num_decode_stalls |-> 0, num_instructions_with_unique_order |-> 0,
            num_subtract_update_code_errors |-> 0]

ProgramInit ==
  /\ instruction_set \in InstructionSets
  /\ itineraries = [i \in DOMAIN instruction_set |-> [observed |-> FALSE, microOps |-> Earlier]]
  /\ update_code_micro_ops = EmptyBag
  /\ stats = NoStats
  /\ global_status = "ok"
  /\ current = [index |-> 0, stage |-> "host"]
  /\ outcomes = [i \in DOMAIN instruction_set |-> "pending"]

-----------------------------------------------------------------------------
\* The load that micro-operations put on the ports (external): the CPU
\* spreads a micro-operation evenly over the ports of its mask, or runs it on
\* the same one every time.
Share(mask, balanced, port) ==
  IF port \notin PortMasks[mask] THEN 0
  ELSE IF balanced THEN Unit \div Cardinality(PortMasks[mask])
  ELSE IF \A other \in PortMasks[mask] : port <= other THEN Unit ELSE 0

Load(uops, balanced) ==
  [port \in Ports |->
     FoldLeft(+, 0, [i \in DOMAIN uops |-> Share(uops[i], balanced, port)])]

\* CreateObservationVector and DecompositionSolver::Run(ObservationVector):
\* the events are renamed to those of Haswell, and a port is read from the
\* event that has its number; a port without such an event reads 0.
Observe(loads) ==
  [port \in Ports |-> IF {port} \in PortEvents THEN loads[port] ELSE 0]

Decompose(uops, balanced) == Run(Observe(Load(uops, balanced)), Len(uops))

\* The bag of the port masks of micro-operations.
PortMaskCount(microOps) ==
  FoldLeft(LAMBDA bag, op : bag (+) SetToBag({op.portMask}), EmptyBag, microOps)

TouchesMemory(instruction) ==
  instruction.operands \cap {"INDIRECT_ADDRESSING", "ANY_ADDRESSING_WITH_FIXED_REGISTERS"} # {}

\* A plausible bug: the micro-operations of the update code are taken to be
\* the first ones.
SubtractsPrefix(rhs, lhs) ==
  LET n == BagCardinality(rhs) IN
  IF n <= Len(lhs) THEN [microOps |-> SubSeq(lhs, n + 1, Len(lhs)), ok |-> TRUE]
  ELSE [microOps |-> lhs, ok |-> FALSE]

\* SubtractMicroOpsFrom: one pass over the micro-operations removes those the
\* update code still has to its credit.  Whatever was removed stays removed
\* when it turns out that some of the update code is missing.
SubtractMicroOpsFrom(rhs, lhs) ==
  LET Subtract(acc, op) ==
        IF BagIn(op.portMask, acc.rhs)
        THEN [acc EXCEPT !.rhs = @ (-) SetToBag({op.portMask})]
        ELSE [acc EXCEPT !.lhs = Append(@, op)]
      last == FoldLeft(Subtract, [rhs |-> rhs, lhs |-> << >>], lhs)
  IN [microOps |-> last.lhs, ok |-> last.rhs = EmptyBag]

-----------------------------------------------------------------------------
this == instruction_set[current.index]

\* The head of the loop over the instructions.
Iteration(i) == IF i <= Len(instruction_set) THEN [index |-> i, stage |-> "check"]
                ELSE [index |-> 0, stage |-> "done"]

\* A plausible bug: the status of the last instruction is returned.
ReturnsLast(status) ==
  /\ outcomes' = [outcomes EXCEPT ![current.index] = status]
  /\ global_status' = IF status = "skipped" THEN "ok" ELSE status
  /\ current' = Iteration(current.index + 1)

\* The loop of ComputeItineraries takes the status of ComputeOneItinerary,
\* keeps it if it is an error, and goes on to the next instruction.
Return(status) ==
  /\ outcomes' = [outcomes EXCEPT ![current.index] = status]
  /\ global_status' = IF status \in {"ok", "skipped"} THEN global_status ELSE status
  /\ current' = Iteration(current.index + 1)

\* ComputeItineraries: the host must be of a known microarchitecture, and the
\* one the itineraries are for.
CheckHost ==
  /\ current.stage = "host"
  /\ \/ current' = [index |-> 0, stage |-> "update code"] /\ UNCHANGED global_status
     \/ current' = [index |-> 0, stage |-> "done"] /\ global_status' = "wrong host"
  /\ UNCHANGED <<instruction_set, itineraries, update_code_micro_ops, stats, outcomes>>

\* ComputeUpdateCodeMicroOps: the update code is measured on its own first.
\* Without its micro-operations nothing is computed.
ComputeUpdateCodeMicroOps ==
  /\ current.stage = "update code"
  /\ \/ \E result \in Decompose(UpdateCodeUops, TRUE) :
          /\ result.status = "ok"
          /\ update_code_micro_ops' = PortMaskCount(result.microOps)
          /\ current' = Iteration(1)
          /\ UNCHANGED global_status
     \/ \* it does not compile, does not count, or does not decompose
        /\ current' = [index |-> 0, stage |-> "done"]
        /\ global_status' = "update code"
        /\ UNCHANGED update_code_micro_ops
  /\ UNCHANGED <<instruction_set, itineraries, stats, outcomes>>

\* Instructions that cannot be repeated in a loop without a fault, a jump or
\* a special state.
kExcludedInstructions ==
  {"DIV", "IDIV", "INT3", "INT", "IRET", "IRETD", "IRETQ", "FLDENV", "FLDCW",
   "FXRSTOR", "FXRSTOR64", "LDMXCSR", "VLDMXCSR", "LFS", "LGS", "LSL", "LSS",
   "LOCK", "MONITOR", "POP", "POPF", "POPFQ", "PUSH", "PUSHF", "PUSHFQ", "UD2",
   "VMOVAPD", "VMOVAPS", "VMOVDQA", "VMOVNTDQ", "VMOVNTDQA", "VMOVNTPD",
   "VMOVNTPS", "VPGATHERDD", "VGATHERDPS", "XGETBV", "XSETBV", "XRSTOR",
   "XRSTOR64", "XSAVE", "XSAVE64", "XSAVEC", "XSAVEC64", "XSAVEOPT",
   "XSAVEOPT64", "XSAVES", "XSAVES64", "SYSCALL", "SYSENTER", "SYSEXIT",
   "SYSRET", "CALL", "JMP", "ENTER", "LEAVE", "RET", "JA", "JAE", "JB", "JBE",
   "JC", "JE", "JG", "JGE", "JL", "JLE", "JNA", "JNAE", "JNB", "JNBE", "JNC",
   "JNE", "JNG", "JNGE", "JNL", "JNLE", "JNO", "JNP", "JNS", "JNZ", "JO", "JP",
   "JPE", "JPO", "JS", "JZ", "JCXZ", "JECXZ", "JRCXZ", "LOOP", "LOOPE",
   "LOOPNE"}

kExcludedMovOperands == {"CR0-CR7", "DR0-DR7"}

\* The reasons for which ComputeOneItinerary leaves an instruction alone.
IsSkipped(instruction) ==
  \/ ~instruction.supported
  \/ ~instruction.available_in_64_bit
  \/ instruction.protected
  \/ instruction.mnemonic \in kExcludedInstructions
  \/ /\ instruction.mnemonic = "MOV"
     /\ \/ \E i \in 1 .. 2 : instruction.names[i] \in kExcludedMovOperands
        \/ instruction.names[1] = "Sreg"

SkipInstruction ==
  /\ current.stage = "check"
  /\ IsSkipped(this)
  /\ Return("skipped")
  /\ UNCHANGED <<instruction_set, itineraries, update_code_micro_ops, stats>>

\* The code is assembled once on its own before it is measured.
Assemble ==
  /\ current.stage = "check"
  /\ ~IsSkipped(this)
  /\ IF this.assembles
     THEN /\ current' = [current EXCEPT !.stage = "measure"]
          /\ UNCHANGED <<stats, global_status, outcomes>>
     ELSE /\ Return("assembly error")
          /\ stats' = [stats EXCEPT !.num_instructions = @ + 1, !.num_assembly_errors = @ + 1]
  /\ UNCHANGED <<instruction_set, itineraries, update_code_micro_ops>>

\* EvaluateAssemblyString and CreateObservationVector: an evaluation that
\* fails, or counts nothing but zeros, ends without a trace in stats.
Measure ==
  /\ current.stage = "measure"
  /\ \/ /\ Return("evaluation error")
        /\ UNCHANGED itineraries
     \/ /\ itineraries' = [itineraries EXCEPT ![current.index].observed = TRUE]
        /\ current' = [current EXCEPT !.stage = "decompose"]
        /\ UNCHANGED <<global_status, outcomes>>
  /\ UNCHANGED <<instruction_set, update_code_micro_ops, stats>>

\* An instruction that stalls the decoder says nothing about the ports.
DecodeStall ==
  /\ current.stage = "decompose"
  /\ this.stalls
  /\ Return("decode stall")
  /\ stats' = [stats EXCEPT !.num_instructions = @ + 1, !.num_decode_stalls = @ + 1]
  /\ UNCHANGED <<instruction_set, itineraries, update_code_micro_ops>>

MeasuredUops(instruction) ==
  instruction.uops \o (IF TouchesMemory(instruction) THEN UpdateCodeUops ELSE << >>)

\* The instruction is decomposed; the update code that was measured with it
\* is taken out.
Solve ==
  /\ current.stage = "decompose"
  /\ ~this.stalls
  /\ \E result \in Decompose(MeasuredUops(this), this.balanced) :
       IF result.status = "error"
       THEN /\ Return("unsolved")
            /\ stats' = [stats EXCEPT !.num_instructions = @ + 1, !.num_unsolved_mips = @ + 1]
            /\ UNCHANGED itineraries
       ELSE LET rest == IF TouchesMemory(this)
                        THEN SubtractMicroOpsFrom(update_code_micro_ops, result.microOps)
                        ELSE [microOps |-> result.microOps, ok |-> TRUE]
            IN /\ itineraries' = [itineraries EXCEPT ![current.index].microOps = rest.microOps]
               /\ Return(IF rest.ok THEN "ok" ELSE "update code missing")
               /\ stats' = [stats EXCEPT
                              !.num_instructions = @ + 1,
                              !.num_instructions_with_unique_order =
                                @ + (IF result.isOrderUnique THEN 1 ELSE 0),
                              !.num_subtract_update_code_errors =
                                @ + (IF rest.ok THEN 0 ELSE 1)]
  /\ UNCHANGED <<instruction_set, update_code_micro_ops>>

ProgramNext ==
  \/ CheckHost
  \/ ComputeUpdateCodeMicroOps
  \/ SkipInstruction
  \/ Assemble
  \/ Measure
  \/ DecodeStall
  \/ Solve

-----------------------------------------------------------------------------
Computed(i) == outcomes[i] = "ok"

\* An instruction that is measured together with the update code ends with
\* the micro-operations it would have had on its own: taking out the update
\* code neither takes a micro-operation of the instruction instead of one of
\* its own nor leaves one behind, whichever optimum the solver has found.
SameAsOnItsOwn ==
  \A i \in DOMAIN instruction_set :
    Computed(i) =>
      \E alone \in Decompose(instruction_set[i].uops, instruction_set[i].balanced) :
        /\ alone.status = "ok"
        /\ PortMaskCount(itineraries[i].microOps) = PortMaskCount(alone.microOps)

\* When the program says that it has succeeded, every instruction it should
\* have measured has micro-operations of this run, and each of them is one
\* cycle long although masks and loads come in different orders.
SuccessIsComplete ==
  current.stage = "done" /\ global_status = "ok" =>
    \A i \in DOMAIN instruction_set :
      \/ IsSkipped(instruction_set[i])
      \/ /\ itineraries[i].observed
         /\ itineraries[i].microOps # Earlier
         /\ \A k \in DOMAIN itineraries[i].microOps : itineraries[i].microOps[k].latency = 1

\* Every store of an itinerary comes right after an address generation, as
\* long as there are as many of those as of stores, and nothing but stores
\* and their addresses comes after the first store: the order of the
\* micro-operations that the reader of an itinerary relies on.
StoresFollowTheirAddress ==
  \A i \in DOMAIN instruction_set :
    LET ops == itineraries[i].microOps
        IsStore(k) == ops[k].portMask = PortMasks[StoreDataMask]
        IsAddress(k) == ops[k].portMask \in {PortMasks[StoreAddressMask], PortMasks[LoadStoreMask]}
    IN Computed(i) =>
         \A k \in DOMAIN ops :
           IsStore(k) =>
             /\ k > 1 /\ IsAddress(k - 1)
             /\ \A j \in k .. Len(ops) : IsStore(j) \/ IsAddress(j)

=============================================================================
