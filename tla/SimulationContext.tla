-------------------------- MODULE SimulationContext --------------------------
(***************************************************************************)
(* The decomposition of instructions into uops from LLVM's scheduling      *)
(* model (src/llvm_sim/framework/context.{h,cc}).                          *)
(*                                                                         *)
(* LLVM says how many cycles an instruction spends on every processor      *)
(* resource, and has added the cycles of a resource to all the resources   *)
(* that contain it.  ComputeInstructionUops takes them out again,          *)
(* ComputeUopLatencies spreads the latency over the uops, and the result   *)
(* is cached by instruction.                                               *)
(*                                                                         *)
(* A sched class is [uops, num_micro_ops, latencies, variants]: how many   *)
(* uops the author of the model has put on each resource, the number of    *)
(* uops it claims, the latencies of its definitions, and for a class that  *)
(* is resolved by the operands a sequence of [when, class], `when' being a *)
(* set of operand lists.  An instruction is [opcode, flags, operands], an  *)
(* operand [kind, value], the value of an expression or of an instruction  *)
(* in an operand being a number that stands for it.                        *)
(***************************************************************************)
EXTENDS Integers, SequencesExt, FiniteSetsExt

CONSTANTS
  ProcResUnits,         \* ProcResUnits[r]: the units of processor resource r, in index order
  SchedClasses,  \* a sequence of sched classes
  SchedClassOf,  \* opcode -> index of its sched class
  Insts          \* the instructions the simulator asks about

Resources == DOMAIN ProcResUnits

\* Resource i is fully contained in j (BaseMasks of ResourceHierarchy).
SuperResources(i) == {j \in Resources \ {i} : ProcResUnits[i] \subseteq ProcResUnits[j]}

\* A resource comes before those that contain it: what the code expects of
\* the tables that TableGen writes.
ASSUME ResourcesInOrder ==
  \A i \in Resources : \A j \in SuperResources(i) : i < j

NamedKinds == {"reg", "imm", "dfp"}

\* The kinds of operands (external): those that the hash and the comparison of
\* the cache name, those that they do not, and operands that are not valid.
Operands ==
  [kind : NamedKinds \cup {"sfp", "expr", "inst"}, value : Int]
  \cup [kind : {"invalid"}, value : {0}]

ASSUME InstsAssumption ==
  Insts \subseteq [opcode : DOMAIN SchedClassOf, flags : Nat, operands : Seq(Operands)]

VARIABLES
  DecompositionCache_,  \* [inst, uops] records
  answer                \* the last instruction asked about and its uops, << >> before

contextVars == <<DecompositionCache_, answer>>

ContextInit == DecompositionCache_ = {} /\ answer = << >>

-----------------------------------------------------------------------------
\* A plausible bug: the values of immediates are not compared.
KindsMatch(a, b) ==
  a.kind \in NamedKinds \cup {"invalid"} =>
    b.kind = a.kind /\ (a.kind = "reg" => b.value = a.value)

\* OpEq: an operand that is neither valid and of a named kind nor invalid
\* equals any other.
OpEq(a, b) ==
  a.kind \in NamedKinds \cup {"invalid"} =>
    b.kind = a.kind /\ (a.kind \in NamedKinds => b.value = a.value)

MCInstEq(a, b) ==
  /\ a.opcode = b.opcode
  /\ a.flags = b.flags
  /\ Len(a.operands) = Len(b.operands)
  /\ \A i \in DOMAIN a.operands : OpEq(a.operands[i], b.operands[i])

\* AbslHashValue: what the hash of an instruction is combined from.
Hashed(inst) ==
  <<inst.opcode, inst.flags, Len(inst.operands),
    SelectSeq(inst.operands, LAMBDA op : op.kind \in NamedKinds)>>

\* resolveVariantSchedClass (external): the first variant that applies.
ResolveVariant(class, inst) ==
  LET variants == SchedClasses[class].variants IN
  IF variants = << >> THEN class
  ELSE variants[SelectInSeq(variants, LAMBDA v : inst.operands \in v.when)].class

\* GetSchedClassForInstruction resolves until the class is no variant.
GetSchedClassForInstruction(inst) ==
  SchedClasses[FoldLeft(LAMBDA class, step : ResolveVariant(class, inst),
                        SchedClassOf[inst.opcode], SchedClasses)]

\* The asserts of GetSchedClassForInstruction: every instruction has a class of
\* the model, which is no variant.
ASSUME ModelAssumption ==
  /\ ProcResUnits \in Seq(Range(ProcResUnits))
  /\ \A inst \in Insts :
       GetSchedClassForInstruction(inst) \in
         [uops : [Resources -> Nat], num_micro_ops : Nat, latencies : Seq(Nat), variants : {<< >>}]

\* The WriteProcRes entries of a class (external): the cycles of a resource
\* include those of the resources it contains.
WriteProcRes(class) ==
  [r \in Resources |->
     class.uops[r] + MapThenSumSet(LAMBDA s : class.uops[s], {s \in Resources : r \in SuperResources(s)})]

-----------------------------------------------------------------------------
Copies(n, x) == [i \in 1 .. n |-> x]

\* One resource of the loop of ComputeInstructionUops: what it consumes is
\* taken off the resources that contain it, and becomes uops.
Consume(acc, r) ==
  LET n == acc.cycles[r] IN
  [uops |-> acc.uops \o Copies(n, r),
   cycles |-> [s \in Resources |-> IF s \in SuperResources(r) THEN acc.cycles[s] - n
                                   ELSE IF s = r THEN 0 ELSE acc.cycles[s]]]

\* ComputeInstructionUops: the resource of each uop.  A single uop that
\* consumes nothing is given resource 0; any other number of them is lost.
ComputeInstructionUops(class) ==
  LET consumed == FoldLeft(Consume, [uops |-> << >>, cycles |-> WriteProcRes(class)],
                           [r \in Resources |-> r])
  IN IF consumed.uops = << >> /\ class.num_micro_ops = 1 THEN <<0>> ELSE consumed.uops

\* The latency of an instruction is that of its slowest definition.
MaxDefLatency(class) == Max({1} \cup Range(class.latencies))

\* A plausible bug: the remaining latency is rounded down.
SpreadsRoundedDown(acc, resource) ==
  LET latency == acc.latency \div acc.remaining
      end == acc.prevEnd + latency
  IN [uops |-> Append(acc.uops, [procResIdx |-> resource, endCycle |-> end,
                                 startCycle |-> IF latency = 0 THEN end - 1 ELSE acc.prevEnd]),
      latency |-> acc.latency - latency, remaining |-> acc.remaining - 1, prevEnd |-> end]

\* One uop of the loop of ComputeUopLatencies: it gets its share of what is
\* left of the latency, rounded up.  A uop that is left with none overlaps the
\* one before it.
Spread(acc, resource) ==
  LET latency == (acc.latency + acc.remaining - 1) \div acc.remaining
      end == acc.prevEnd + latency
  IN [uops |-> Append(acc.uops, [procResIdx |-> resource, endCycle |-> end,
                                 startCycle |-> IF latency = 0 THEN end - 1 ELSE acc.prevEnd]),
      latency |-> acc.latency - latency, remaining |-> acc.remaining - 1, prevEnd |-> end]

ComputeUopLatencies(class, resources) ==
  FoldLeft(Spread, [uops |-> << >>, latency |-> MaxDefLatency(class),
                    remaining |-> Len(resources), prevEnd |-> 0], resources).uops

Decompose(inst) ==
  LET class == GetSchedClassForInstruction(inst)
  IN ComputeUopLatencies(class, ComputeInstructionUops(class))

\* The hash map (external) compares the entries it passes with the instruction
\* that is looked up if seven bits of their hashes agree: those whose hashes
\* are the same always, any other one by chance.
Hit(e, inst) == MCInstEq(e.inst, inst)
CertainHit(e, inst) == Hit(e, inst) /\ Hashed(e.inst) = Hashed(inst)

\* GetInstructionDecomposition: an instruction for which an entry is found gets
\* the uops of that entry.
GetInstructionDecomposition(inst) ==
  \/ \E e \in DecompositionCache_ :
       /\ Hit(e, inst)
       /\ answer' = [inst |-> inst, uops |-> e.uops]
       /\ UNCHANGED DecompositionCache_
  \/ /\ \A e \in DecompositionCache_ : ~ CertainHit(e, inst)
     /\ \E uops \in {Decompose(inst)} :
          /\ DecompositionCache_' = DecompositionCache_ \cup {[inst |-> inst, uops |-> uops]}
          /\ answer' = [inst |-> inst, uops |-> uops]

ContextNext == \E inst \in Insts : GetInstructionDecomposition(inst)

-----------------------------------------------------------------------------
\* "Returns the decomposition of an instruction in uops" (context.h): whatever
\* was asked before, the uops are those of the sched class of the instruction
\* itself.
AnswersAreFresh == answer # << >> => answer.uops = Decompose(answer.inst)

Unnamed(inst) ==
  {i \in DOMAIN inst.operands : inst.operands[i].kind \notin NamedKinds \cup {"invalid"}}

\* What is true of it: only an instruction that was cached with an operand of
\* an unnamed kind answers for another one, which then has the same opcode,
\* flags, and other operands.  Instructions that differ in a register, a number
\* or their flags never get each other's uops.
CachedIsFresh ==
  AnswersAreFresh \/
  \E e \in DecompositionCache_ :
    /\ Unnamed(e.inst) # {}
    /\ e.uops = answer.uops /\ e.uops = Decompose(e.inst)
    /\ e.inst.opcode = answer.inst.opcode /\ e.inst.flags = answer.inst.flags
    /\ Len(e.inst.operands) = Len(answer.inst.operands)
    /\ \A i \in DOMAIN e.inst.operands \ Unnamed(e.inst) :
         e.inst.operands[i] = answer.inst.operands[i]

\* The uops of a decomposition are on each resource as many as the author of
\* the model has put there, although what LLVM tells has them added up; each
\* of them takes a cycle or more, and the last one ends when the slowest
\* definition of the instruction does.
UopsAreThoseOfTheModel ==
  \A e \in DecompositionCache_ :
    LET class == GetSchedClassForInstruction(e.inst)
        uops == e.uops
    IN /\ \A r \in Resources :
            Cardinality({i \in DOMAIN uops : uops[i].procResIdx = r}) = class.uops[r]
       /\ \A i \in DOMAIN uops :
            uops[i].startCycle >= 0 /\ uops[i].endCycle > uops[i].startCycle
       /\ uops # << >> => uops[Len(uops)].endCycle = MaxDefLatency(class)

=============================================================================
