# EXEgesis in TLA+

This directory holds TLA+ modules, TLC configurations and TLAPS proofs for
EXEgesis. The modules are written from the C++ sources; `PROJECT.json` maps
every definition to the lines that it stands for, and lists the components, the
hazards of the code and the findings.

EXEgesis consists of two programs. **llvm_sim** simulates how an out-of-order
CPU executes a basic block: components that tick, buffers between them, and a
reorder buffer in the middle. **exegesis** proper reads a database of
instructions from vendor manuals, cleans it up, encodes and parses instructions,
and measures them on the host. In the first, the hard behaviour is actors that
interact over many steps in orders that nobody wrote down. The second is mostly
sequential, and hard because of long chains of transformations: what one step
leaves behind, another one relies on thousands of lines later.

## 1. Inventory

### llvm_sim

| Component | State | Operations | Talks to | What makes it correct |
|---|---|---|---|---|
| `Simulator` (framework/simulator.cc) | finished iterations, cycle count | `Run` | ticks all components in the order they were added, then propagates all buffers | iterations finish in order; the run ends |
| `Fetcher` | index of the next instruction | `Tick` | fetch link | every instruction of every iteration once, in order, within the window |
| `InstructionParser`, `InstructionDecoder` | none | `Tick` | instruction queue, decode queue | nothing lost when a queue is full; the uops of an instruction stay together |
| `RegisterRenamer` | names per register unit, allocation count, a pending uop | `Tick` | decode queue, link to the ROB | each physical register is given out once; a read gets the names of the last writers, also of parts of a register; a refused uop is sent later, once |
| `ReorderBuffer` | ring of entries with states and dependencies, definitions in flight | `Tick`: six loops | renamer, ports, dependency tracker, writeback link, retirement station | program order in the ring, data flow, in-order retirement, asserts on the states |
| `IssuePolicy` | load per port | `ComputeBestOrder`, `SignalIssued` | called by the ROB | a choice among accepting ports |
| `SimplifiedExecutionUnits`, `ExecDepsBuffer` | elements with remaining latency | `Tick`; `PushMany`, `Propagate` | ports, writeback link, ROB | outputs are announced one cycle before the writeback |
| `DispatchPort` | as `LinkBuffer` | as `LinkBuffer`, and logs port pressure | ROB, execution units | as `LinkBuffer` |
| `NonPipelinedExecutionUnit`, `PipelinedExecutionUnit` (not used by Haswell) | an element or a pipeline of them, counters | `Tick` | a source shared by units, a sink | each element is executed once, by the unit of its latency, in exactly that many ticks plus stalls |
| `Retirer` | none | `Tick` | ROB both ways, iteration counter | uops come back in the order they were sent |
| `FifoBuffer`, `LinkBuffer` (buffer.h) | staged elements, visible elements, stall flag | `PushMany`, `Peek`, `Pop`, `Propagate` | between all components | bounded, first in first out, nothing visible in the cycle it was pushed, stalls end |
| `GlobalContext`, `BlockContext` | cache of decompositions | `GetInstructionDecomposition` | decoder, ROB; LLVM's scheduling model | the uops of an instruction are those that the model's author put on the resources, no latency is zero; only an instruction cached with an operand of an unnamed kind answers for another one |
| Simulation log, analyses | log lines, iterations | `ComputePortPressure`, `ComputeInverseThroughput(s)` | after the run | arithmetic over complete iterations, nothing of the others |
| Faucon | none | command line | all of the above | text |

Hard behaviours: the components run in a fixed order in one thread, but what one
component does in a cycle is seen by another in the same cycle, the next one, or
later, depending on who ticks first and on whether a link is stalled;
back-pressure travels from the retirement station to the fetcher; entries of the
ring are reused while others still point to them; completions are predicted by
one component and performed by another.

### exegesis and the libraries

| Component | State | Operations | Talks to | What makes it correct |
|---|---|---|---|---|
| Encoding specifications (x86/encoding_specification.cc, instruction_encoding.cc) | none | parsing of a specification; base instruction and examples; setters that assign registers, memory operands and immediates to a decoded instruction | encoder, parser, clean-up | an operand that was assigned stays assigned; the two tables of addressing modes agree |
| Encoder, parser (x86/instruction_encoder.cc, instruction_parser.cc) | what is left of the input, the instruction so far, its specification | `EncodeInstruction`; one `Consume...` call per field | architecture (lookup of specifications) | inverse to each other; a truncated input is refused; every call moves forward |
| Clean-up (x86/cleanup_*.cc, base/cleanup_instruction_set.cc) | the instruction set that is being transformed | some forty transforms with ranks, checks, sorting | registration at start-up, in link order | complete and consistent instructions; the same database from every build |
| SDM extraction (x86/pdf/intel_sdm_extractor.cc) | parse context, instruction table, sections, leaf functions by address | collecting pages, sub-sections, tables, operand encodings | pdf utilities; its output goes to the clean-up | every instruction of the manual once, with the operands of its own table |
| Itineraries (itineraries/compute_itineraries.cc, decomposition.cc) | micro-operations of the prolog and the update code, results per instruction | `ComputeItineraries`; `ComputeDecomposition`, `OrderMicroOperations` | counters, JIT, solver | an itinerary depends on its instruction alone; a status tells of every failure |
| Performance counters (itineraries/perf_subsystem.cc) | reference count of libpfm, open counters, results | construction, `AddEvent`, `StartCollecting`, `StopAndReadCounters`, clean-up, `Info`, destruction | libpfm and the kernel, by several threads | the library is initialized while used; each run counts once |
| Connected components (util/graph) | union-find with path compression and cached roots | `AddEdge`, `Connected`, `GetSize`, `GetComponentRoots`, `GetComponentIds` | | all of them rewrite the forest; it stays a forest of the components of the graph |
| ARM extraction, LLVM interface, tools, utilities | none to speak of | conversion, wrapping, command lines | | |

Hard behaviours: hash maps and link order decide the order of steps; copies of
one piece of data (the raw and the parsed encoding specification; two lists that
are sorted together; the cache of decompositions) may drift apart; every failure
has to leave something usable; and bits are placed by two functions that must
agree.

## 2. Modules

    ROBCore ────┬─> ReorderBuffer ─ implements ─> Dataflow (abstract)
                │        └────────> ReorderBufferProofs
    RenamerCore ┼─> RegisterRenamer ────────┐
    BufferOps ──┼─> StagedBuffer ───────────┼─┬─> MC_Simulation
                │    └─ implements ─> Channel (abstract)
                │   SimulationContext ──────┤ │
                │   SimulationAnalysis ─────┤ └─> SimulationProofs (all but ExecutionUnits)
                │   ExecutionUnits ─────────┘
                │        └────────> ExecutionUnitsProofs
                └─> Haswell ─> MC_Haswell
                       │└─> FrontEndProofs ─> HaswellProofs
                       └── its steps are steps of ReorderBuffer
    ConnectedComponents ──> ConnectedComponentsProofs
           └── implements ──> Partition (abstract)

    X86Spec ─┬─> X86Encoding ─> X86Encoder ─> X86Parser ─> X86Codec ─> MC_X86
             └─> CleanupEncoding ─> CleanupOperands ─┬─> CleanupInfo ─> CleanupChecks ─> Cleanup ─┐
                                       OperandTables ┘                                            ├─> MC_Database
                 SdmPages ─> SdmTables ─> SdmOperands ─> SdmExtractor ────────────────────────────┘
    Decomposition ─> Itineraries ─┬─> MC_Measurement
                 PerfSubsystem ───┤
                      X86Codec ───┴─> ExegesisProofs (of these three) ─> CodecProofs

In an arrow the right module extends the left one. `MC_Simulation`,
`MC_Database` and `MC_Measurement` put parts side by side that share no state: a
variable `part` says which of them a behaviour is about, and the others stay as
they are.

The simulator:

* **ROBCore**: variables of `ReorderBuffer` and one operator per loop body.
  `entries`, `firstEmpty`, `numEmpty`, `firstRetirable` and `inFlightDefs` are
  `Entries_.Entries_`, `FirstEmptyEntryIndex_`, `NumEmptyEntries_`,
  `FirstRetirableEntryIndex_` and `InFlightRegisterDefs_`. The vectors of an
  entry are sets; the ring arithmetic is that of the code, slot by slot.
* **ReorderBuffer**: `Tick` in any environment. `phase` is the loop that runs.
  The environment chooses how many elements a source holds and which pushes are
  accepted, and keeps the contract stated in the module. Two constants say how
  much of the renamer's behaviour is assumed: `DistinctDefs` (a register is
  defined once) and `PromptUops` (uop k + 1 of an instruction arrives while uop k
  is in the buffer).
* **Dataflow**: what a reorder buffer promises: uops execute when their
  producers have executed, and retire in order, at most `Capacity` at a time.
* **BufferOps**, **StagedBuffer**, **Channel**: the operations of both buffers,
  one buffer between a producer and a consumer, and the bounded channel that it
  implements.
* **RenamerCore**, **RegisterRenamer**: renaming one uop, and `Tick` between any
  source and any sink. A register is the set of its units, so AL, AH and AX are
  {al}, {ah} and {al, ah}.
* **Haswell**: the composition of `CreateHaswellSimulator`, run by
  `Simulator::Run`. `pc` is the component whose turn it is; each action is one
  iteration of a loop in that component's `Tick`, or its end. `EndCycle`
  propagates all the buffers and counts iterations.
* **SimulationContext**: `GetInstructionDecomposition` with its cache. A sched
  class says how many uops the author of the model put on each resource; what
  LLVM derives from it (cycles that include those of contained resources) is
  modelled as it is used, and the code's way back is translated: the resolution
  of variants, un-denormalizing, one uop per cycle, and the spreading of the
  latency. The cache is the hash map as the code uses it: an entry is compared
  with the instruction that is looked up when seven bits of their hashes agree, so
  entries with the same hash are compared always and any others by chance.
  `OpEq` and `Hashed` are `MCInstEq` and `AbslHashValue`: the comparison takes an
  expression, a single-precision number or an instruction in the cached operand
  for equal to any operand, and the hash skips them.
* **SimulationAnalysis**: the log that `Simulator::Run` fills, and both analyses
  of it, as operators on the log in every state. A dispatch port is the index of
  its buffer; `DispatchLines` are the lines of a cycle in the order in which `Run`
  propagates the buffers.
* **ExecutionUnits**: the two detailed units on one source and one sink. An action
  is one `Tick` of one of them, in any interleaving; the sink accepts or refuses
  at will. `curStage`, `elem`, `pipeline` and `stageCycle` are `CurStage_`,
  `Elem_`, `Pipeline_` (0 is a bubble) and `CurStageCycle_`; `due` is history.

x86 instructions and their database:

* **X86Spec**: an encoding specification from its tokens, as
  encoding_specification.cc parses it. The words of the manual are kept, their
  characters are not.
* **X86Encoding**: a decoded instruction as a record; the rules of prefixes,
  ModR/M and SIB; base instructions and examples; each setter of operands, as an
  operator that returns whether it succeeded and the instruction it leaves behind.
* **X86Encoder**: `EncodeInstruction`, down to the bytes. **X86Parser**: one
  action per `Consume` call (in the prefix loop, per turn), with the two lookups
  of the specification.
* **X86Codec**: the client: it takes a base or an example, assigns operands in
  any order, encodes, appends another instruction or cuts the end off, and
  parses; or it parses bytes that it has not encoded.
* **CleanupEncoding**, **CleanupOperands**, **CleanupInfo**, **CleanupChecks**:
  the transforms, each an operator from an instruction set to the changed set and
  a status. **OperandTables** holds the tables of operand names they look up.
  **Cleanup** is the pipeline: `RunTransform` runs the next transform by rank,
  and within a rank by file in link order, then by line. Iteration over hash sets
  is in the order of a constant, so that all orders can be compared.
* **SdmPages**, **SdmTables**, **SdmOperands**, **SdmExtractor**: the pages of a
  group, its sub-sections and instruction table, its operand encodings, and the
  extractor itself, which processes groups in any order, one sub-section list at
  a time, and moves leaf functions at the end. Text is a sequence of words;
  regular expressions become prefixes, suffixes and equalities of words.

Measurement:

* **Decomposition**: the integer program as the set of its optima, then
  `OrderMicroOperations` with its two lists. **Itineraries**:
  `ComputeItineraries` from the prolog to the status it returns; an action is one
  evaluation, or the treatment of one instruction.
* **PerfSubsystem**: threads that construct, use and destroy a subsystem each.
  `Lock` and `Unlock` are separate actions around the count of
  `ScopedLibPfmInitialization`.

Graphs: **Partition** is what the finder promises about edges and queries;
**ConnectedComponents** is `DenseConnectedComponentsFinder`. A call starts, runs
`FindRoot` for each of its nodes, one iteration of its loops per action, and
returns; so the properties also hold between the steps of a compression. `class`,
the component of each node by the edges added, is history, and is the refinement
mapping to Partition.

Mutants: a definition whose comment says "Mutant" is a plausible mistake in the
code above it. No specification uses it; replacing the original by it must
violate the property that `PROJECT.json` names, which shows that the property
depends on the code.

## 3. Runs

| Run | Question | Bounds and why they are enough |
|---|---|---|
| `rob` | Does the reorder buffer do data flow and retire in order in any environment within its contract? Does it implement Dataflow? | Three entries and four uops: the ring wraps and an entry is reused while two others are live. One register and one port suffice for chains, for a use and a predecessor on the same entry, and for uops without ports. |
| `haswell` | Does the wired simulator lose, duplicate or reorder nothing, keep the contract of the reorder buffer, and end? | All loops of at most three out of seven kinds of instructions (slow and fast uops, one or two ports, portless, microcoded, store), straight code of at most two; three iterations in five entries, so entries are reused; three uops renamed but one retired per cycle, so that the pressure reaches the renamer's pending uop and the queues in front of it. |
| `haswell_small_rob` | (violation) Does an entry never wait for a retired uop, however small the buffer? | One block; two entries. |
| `simulation` | Are instructions decomposed and cached rightly; is renaming exact under back-pressure, overlapping registers and exhaustion; is a buffer a bounded channel whose stalls end; do execution units execute each element once, in time, and without starving; are the analyses those of complete iterations? | Six resources of three ports and 28 sched classes, with every combination of no or some uops on three of the resources, with and without latencies, one class without cycles and one with variants; ten instructions, six of which are LEA with and without a displacement, with each of two expressions, and are equal to the cache and not to LLVM's variants. Six physical registers and four instructions: exhausted in the middle of an instruction. Capacity 3, batches of up to 3, eight elements: every split of a full batch, twice over, for both kinds of buffer. Units of three stages, and of two stages of two cycles, so that latencies differ by one; all 16 assignments of latencies to four elements, enough for the pipeline to be full with one element behind. Two instructions, two ports, three iterations, five cycles: every log that ends inside of an iteration, and one that is full. |
| `simulation_cache` | (violation) Does the cache always answer with the uops of the instruction asked for? | The instructions of `simulation`. |
| `connected_components` | Does every sequence of calls leave a forest of the components, and answer what the graph defines? | Four nodes: the smallest graph with a tree of depth two, which a compression changes. |
| `x86` | Are encoder, parser and setters inverse to each other, for whole, truncated and foreign bytes? | 13 specifications that are encoded, one for each kind of prefix, place of an operand and shape of the opcode, and seven more that only the parser meets; two calls of setters, so that one undoes another; registers up to 15, with and without an extension bit (the code takes up to 31), and those that need a SIB byte or a displacement; foreign input of up to two prefixes, an opcode and two bytes. |
| `x86_evex_r` | (violation) Is an EVEX instruction parsed back to itself when the two extension bits of ModR/M.reg differ? | One instruction. |
| `database` | Does the extractor find every instruction of a manual with its operands, and does the clean-up end with complete, consistent instructions, the same for every build? | Four manuals: legacy (with a row of an operand table that names no cross reference, one that names two, and a scheme that is defined twice), VEX, VMX, SGX with leaf functions, with and without their main instruction, and no groups at all. Eight sets of instructions picked so that the transforms that change something meet each other, two link orders and two hash orders for each. One of them has a typing error of the manual, which the pipeline has to report. |
| `cleanup_lar` | (violation) Does the parsed specification of LAR agree with the raw one? | One set. |
| `sdm_extension` | (violation) Do the pages of a group of an extension document end where the next group starts? | Two groups of one page. |
| `measurement` | Does an itinerary depend on its instruction alone, and a status tell of every failure; is libpfm initialized while it is used, and each run counted once? | All pairs of 16 kinds of instructions (registers, loads, stores, read-modify-write, string instructions, unbalanced loads, stalls, one that does not assemble), pairs with each reason to skip one, no instruction at all; any evaluation may fail. Two threads, two evaluations each, four categories one of which repeats an event. |

What the properties say is stated above each of them in the modules. The ones
worth reading first:

* `WaitsForProducers`: an entry waits exactly while one of the uops that
  produce its inputs has no outputs. `Producers` is defined on the sequence of
  uops in program order, with no reference to the buffer's bookkeeping.
* `ImplementsDataflow`, `ImplementsChannel` and `ImplementsPartition`: refinements.
* `KeepsROBContract`: each step of the simulator, seen through the variables of
  the reorder buffer, is a step of module ReorderBuffer. This is what makes the
  results of `rob`, and the proofs, results about the simulator.
* `GaplessTrace`: reading all the buffers from the reorder buffer back to the
  fetcher gives the trace of the program without gaps in every state.
* `UopsAreThoseOfTheModel`: whatever LLVM adds up over the hierarchy of
  resources, the uops that come out are those that the author of the scheduling
  model put in, and their latencies add up to that of the instruction.
* `CachedIsFresh`: what is true of the cache of decompositions. An answer that is
  not that of the instruction itself is that of an instruction which was cached
  with an operand of an unnamed kind and agrees in all others; instructions that
  differ in a register, a number, the opcode or the flags never get each other's
  uops. `AnswersAreFresh`, without the exception, is false (finding 5).
* `RoundTrip`: encoding and parsing gives back the instruction and leaves the
  bytes behind it alone. `AssignedOperandsAreEncoded`: after any calls of
  setters, every operand reads as the last accepted call set it.
* `SameForEveryBuild`: the instruction set after the pipeline does not depend on
  the link order or on the order of hash sets. `SpecAgreesWithRaw`: the parsed
  specification is that of the raw one as it is at the end.
* `SameAsOnItsOwn`: the itinerary of an instruction is one it could have had as
  the only instruction of the set, whatever was measured before and failed.

### Deadlock and fairness

`Haswell` has a stuttering final step (`Done`), so TLC's deadlock check is on in
every run of it. `ReorderBuffer` can always end its loops; in `simulation` each of
the parts has a step in every state (the units can always tick); a finder can
always be called; a client of the parser may always end. `CHECK_DEADLOCK FALSE`
stands in the runs of `MC_Database` and `MC_Measurement` only: the programs that
they model end, after the last transform, the last group or the last evaluation.

`Haswell` assumes `WF_vars(Next)`: the simulator has one thread and no waiting,
so the program only stops when `Run` returns. `StagedBuffer` assumes that the
cycle ends (`WF` of `Propagate`: `Run` propagates every buffer in every cycle)
and that a consumer that can take an element does so eventually (`WF` of `Pop`).
It is not assumed that the producer ever pushes. Of `ExecutionUnits`, `UnitsFairness`
of `MC_Simulation` assumes that the clock ticks both units for ever (`WF` of the ticks) and that a sink to which
an element is offered again and again accepts it in the end (`SF` of the two
write-backs: the pipelined unit only offers once per stage). `ConnectedComponents`
assumes that a call that has started runs on (`WF` of `Running`); nobody needs to
call. No fairness is assumed of the other modules: what they promise is safety.

## 4. Proofs

`ReorderBufferProofs` proves, for every number of entries, every set of
registers and ports and every number of uops, from the single assumption
`NumROBEntries > 0`:

| Theorem | Property |
|---|---|
| `TypeCorrectness` | `TypeOK` |
| `RingHoldsWindow` | `LiveWindow` |
| `RetiresInOrder` | `InOrderRetirement` |
| `StatesMatchUnits` | `InFlightMatchesState` |
| `DependenciesMirrored` | `DependencyGraph` |

The inductive invariant `IInv` is the conjunction of the five. None is inductive
alone: releasing the oldest entry keeps the window only if that entry is the one
under retirement (`InOrderRetirement`); an entry under retirement stays one only
if completing another uop cannot wake it (`DependencyGraph`: only waiting entries
are in lists of dependents that are still to be woken); and `DependencyGraph` is
kept by a completion only if the completing entry was issued
(`InFlightMatchesState`).

The argument goes in three layers. `RingPositions`, `ReleaseShifts`,
`ReserveKeeps` and `NextPosition` are arithmetic about positions in the ring:
positions and slots are in bijection, a release shifts them by one, a reservation
leaves them alone. `SameWindow`, `SameRetirement`, `Completion` and `NewState` say
what a change of entries preserves when the ring does not move. Then there is one
lemma per action, and `NextIInv` puts them together.

Neither `DistinctDefs` nor `PromptUops` is used: the asserts of the reorder
buffer hold even when an entry waits for a retired uop (the first finding below).

Its second half goes on from `IInv`, under the contract of the renamer:

| Theorem | States | Assumes |
|---|---|---|
| `WaitsForNoRetiredUop` | `NoRetiredDependency` | `PromptUops` |
| `PortlessInOneTick` | `PortlessUopsNeverLinger` | `PromptUops` |
| `WaitsExactlyForProducers` | `WaitsForProducers` | `PromptUops`, `DistinctDefs` |
| `Refinement` | `ImplementsDataflow` | `PromptUops`, `DistinctDefs` |

Without `PromptUops` the first is false (run `haswell_small_rob`). `OlderInv` adds
to `IInv` that an entry only waits for older uops that are still in the ring and
have no outputs, and what each loop of `Tick` has left to do when it is at slot k.
`ProducerInv` adds that the definitions in flight are exactly those of the live
uops without outputs, so that the bookkeeping of the buffer and `Producers`, which
is defined on program order alone, are two descriptions of one set. The refinement
maps a uop to its stage; each action of the buffer is one step of `Dataflow` or a
stutter, and the guards of `Dataflow` are what `ProducerInv` and `RetiresInOrder`
give.

`FrontEndProofs` and `HaswellProofs` prove about the wired simulator, for every
block, all widths, capacities and latencies (`WiringAssumption`,
`BlocksAssumption`, and that the model value `NoUop` is no uop):

| Theorem | States |
|---|---|
| `FrontEndIsGapless` | `GaplessFrontEnd`: the part of `GaplessTrace` in front of the reorder buffer |
| `PipelineIsSound` | `ROBIsSound`: ring, order, states and dependencies of the buffer in the pipeline |
| `PipelineKeepsContract` | each step is a loop step of `ReorderBuffer`, the arrival of a uop, or leaves the buffer alone |
| `TraceIsGapless` | `GaplessTrace` |

`FrontInv` says what each queue holds, as intervals of the trace. `BackInv` says
where each entry of the ring is: `EachOnce` and `TrackedOnce`, that an issued uop is
in exactly one of ports, units and writeback link, and in the tracker exactly
once; `TrackerIsAhead`, that the prediction of the tracker is never behind the
unit, which is why the asserts on completions hold; `RetiresNext`, that what the
retirement station returns is what the buffer expects. `SinkInv` counts iterations.
`PipelineKeepsContract` is what `KeepsROBContract` says, without the bounds
that the run gives to the constants of its instance of `ReorderBuffer`.

`ExecutionUnitsProofs` proves, for any number of stages, of cycles per stage and of
elements (assumption `UnitsAssumption`, what the constructors assert):

| Theorem | Property |
|---|---|
| `TypeCorrectness` | `TypeOK` |
| `Execution` | `ExactlyOnce` |
| `Punctuality` | `OnTime` |

`OnTime` speaks of elements that are written back. Its strengthening `Schedule`
says where each element that is not written back has to be: in stage k of the
pipeline, with c cycles of the stage over, it is due after the ticks that the
stages behind it take, less c; so it is due when it is pushed.

`ConnectedComponentsProofs` proves, for graphs of any size:

| Theorem | Property |
|---|---|
| `TypeCorrectness` | `TypeOK` |
| `Representation` | `ForestMatchesGraph` |
| `Counting` | `CountsMatchForest` |
| `LazyRoots` | `RootsKept` |

The inductive invariant of the forest adds two facts: components are a partition
of the nodes (`ClassesOK`), and ranks grow strictly towards the root and are
highest at the root (`RanksOK`); without the second a compression could not be
shown to keep the order of ranks. `FindInv` says where `FindRoot` is, and that the
roots that a call has found are still roots. `Growth`, `Compression` and
`Attachment` are the three things that may happen to a forest; every action is one
of them or leaves it alone. `Counting` adds cardinalities, and `LazyRoots` the
invariant `LazyInv`: while `GetComponentRoots` runs, all roots are candidates, and
the ones looked at were kept in order.

`Refinement` shows that the finder implements `Partition`, the safety half of
`ImplementsPartition`. `CallInv` says of each call in progress what it has found,
for which edges; a compression in the middle of a query is a stutter.

`SimulationProofs` proves about the parts that `MC_Simulation` checks, each for all
values of its constants:

| Theorem | States | Assumes |
|---|---|---|
| `CyclesNeverMerge` | `OneCycleAtATime` | |
| `BufferIsAChannel` | `ImplementsChannel` | |
| `NamesNeverRepeat` | `NamesAreUnique` | `WidthAssumption`, `InstructionsAssumption`, `NoUop` is no uop |
| `UsesAreTrueDependencies` | `UsesLastWriters` | the same |
| `CacheNeverLies` | `CachedIsFresh` | `InstsAssumption` |
| `NamedAnswersAreFresh` | `AnswersAreFresh` | `InstsAssumption`, no instruction has an operand of an unnamed kind |
| `UopsFollowTheModel` | `UopsAreThoseOfTheModel` | `ResourcesInOrder`, `ModelAssumption` |
| `PressureOfWholeIterations` | `PressureIsOneIteration` | `RunAssumption` |
| `ThroughputsAreConsistent` | `ThroughputsAgree` | `RunAssumption` |

The buffer's invariant numbers the elements: both areas together hold the numbers
from the last one received to the last one sent, and a cycle's elements in the
pending area are closed once it has stalled. `RenamingInv` says that allocated
names are below the count, also those of the pending uop, and that the tracker
holds the names of the last writers; the pending uop is the delicate part, because
it counts as renamed before it is sent. `CacheInv` says that each entry of the cache
holds the uops of its own instruction, and that an answer comes from an entry that
is equal to it by `MCInstEq`. From there `NamedOperandsAgree` shows that whatever
the comparison does not look at is an operand of an unnamed kind of the cached
instruction; nothing is assumed of the classes to which equal instructions
resolve. `NamedAnswersAreFresh` draws the conclusion for code without expressions:
instructions that compare equal are the same instruction. `UopsFollowTheModel` rests on
`ConsumedUpTo`: after k resources, what is left of a later one are its own cycles
and those of the resources after the first k that it contains; nothing is left
over because a resource comes before those that contain it (`ResourcesInOrder`,
which the code expects of TableGen without checking it). `SpreadUpTo` says that a
share rounded up leaves no uop without a cycle in front of it, and the last one
nothing. `LogInv` says that each instruction is logged once and before it retires,
and that the iterations counted are those of which all instructions have retired.

The last three theorems are about sums, cardinalities and folds of any size. Their
recursions are unfolded from an explicit fixed point, whose existence is shown by
the least counterexample (`WellFoundedInduction`), and a set of lines is counted
port by port through bijections.

`ExegesisProofs` proves about the counters, the codec and the itineraries:

| Theorem | States | Assumes |
|---|---|---|
| `LibraryIsAlwaysReady` | `LibraryIsReady` | `PerfAssumption` |
| `MainThreadCountsOnce` | `EveryRunIsCountedOnce` | `PerfAssumption` |
| `TablesOfModesAgree` | `AddressingModesAgree` | `DatabaseAssumption`, `CodecAssumption` |
| `SettledSpecificationMatches` | `SpecificationMatches` | the same |
| `CallsAdvance` | `CallAdvances` | the same |
| `SuccessMeansComplete` | `SuccessIsComplete` | `DecompositionAssumption`, `ItinerariesAssumption` |
| `StoresAreServed` | `StoresFollowTheirAddress` | the same, `DistinctMasks`, `Elsewhere(update_code_micro_ops)`, `AddressesSuffice` |

`LibraryInv`: the holder of the mutex is the one thread between the count and the
call of libpfm. `CountersInv` says, label by label, which events are open, what
they have counted, and which categories the result has. `PerfAssumption` has at
most four distinct events in a category: what the code passes to it.
`DatabaseAssumption` and `CodecAssumption` give types to the database and to the
input and say that only a VEX instruction has a register in an immediate (is4).
`ClientInv` is the type of an instruction through every setter and every `Consume`
call; `ParserInv` adds what the look-up of the specification relies on: the
prefixes, the opcode and the opcode extension, which no later call changes.
That is not obvious, since `ConsumeVexSuffix` writes into the VEX prefix.

`CodecProofs` compares the two sides of the codec, which spell the place of every
bit out separately (`DatabaseAssumption`, `CodecAssumption`):

| Theorem | States | Under |
|---|---|---|
| `EncodingsAreReadBack` | `RoundTrip` of a call that succeeds | `ReadBack` |
| `CutEncodingsAreRefused` | `TruncatedIsRefused` | `ReadBack` |
| `EncodingsRoundTrip` | `RoundTrip` | `Fits`, `IsFound` |
| `BeginningsAreRefused` | `TruncatedIsRefused` | `Fits`, `IsFound`, `NoShorter` |
| `AssignedOperandsAreHeld` | the fields of the instruction name what was assigned | `OperandsAreApart`, `ArgumentsFit` |
| `OperandsAreReadBack` | `AssignedOperandsAreEncoded` | `OperandsAreApart`, `ArgumentsFit`, `Fits`, `IsFound` |

`ReadBack` says that the values of the instruction fit in their bits (`Fits`) and that
the look-ups of the call found its specification (`Recognizes`); both hold of every
instruction that the run `x86` parses. `Fits` leaves two things out that the code
really does not read back: unequal R bits of EVEX (finding 2), and the upper bit of an
EVEX.vvvv that is not used (section 5). `ReadInv` says for each function of a call
that the fields that it has read are those of the instruction (`LegRead`, `VexRead`,
`ModRmRead`: what bytes can say of them) and that the bytes in front of it are those
of the other fields, up to the end or to the cut (`LeftOf`). A byte is peeled off that
sequence by each Consume function; that its bits are the fields again is arithmetic
(`VexReadBack`, `ModRmReadBack`, `OpcodeReadBack`). The optional prefixes are why a
legacy opcode may not begin with a prefix byte, and the number of bytes of an opcode
follows from its value: none is 0 in front. `EncodeOpcode` would write a fourth byte;
`Fits` has opcodes of at most three, as all of the database are.

The first two theorems speak of calls that found the specification. That a call
does not fail is the subject of the next two, and there `Recognizes` is not assumed
but shown, from conditions on the database and the instruction alone. `IsFound`: its
opcode is the longest that its bytes and those behind it begin with, and the two
look-ups, before and after the ModR/M byte, return the specification, or first
another one of the opcode with a ModR/M byte. `NoShorter`: no shorter beginning of
its opcode is an opcode of the database that needs no byte behind it, since the
parser would return that one when the rest is missing. `FoundInv` adds to `ReadInv`
that no function of the call fails and what the look-up returned; each failure of a
Consume function is excluded by a lemma of its own (`NoFailRex` to `NoFailSuffix`).
`CutInv` follows a call to the cut: before it, all look-ups are as in the whole
encoding; at it, the function there fails, and the only exception, a shorter opcode,
fails for its ModR/M byte.

The last two theorems start from the calls of the setters. `AssignedInv` says that
the operands assigned last are those that the fields name (`Holds`), for each of the
five encodings of an operand. A setter writes the fields of its own operand and
leaves the others as they are (`Sets`; the lemmas `...Puts` go through one function of
`instruction_encoding.cc` each): `SetExtension` must clear the bit as well as set it,
and a memory operand must leave no SIB byte or displacement that changes its
meaning. `OperandsAreApart` says that no two operands of a specification share a
field: each encoding is that of one operand at most; one in the opcode is in a legacy
instruction that leaves its three bits free, has no modrm.rm operand (which would
have the same extension bit) and starts without that bit (`SetOpcodeOperand` leaves it
alone, section 5); one in the VEX prefix is in an instruction that has one.
`ArgumentsFit`: registers -1 to 15 and displacements of eight bits, as the client
calls with. Of EVEX instructions the theorem says nothing: the setters give them a VEX
prefix (`MutableVex`), so that none with an assigned operand can be encoded, which is
part of `AssignedInv`.

TLC has checked `ReadInv`, `FoundInv`, `CutInv` and `AssignedInv` as invariants of
`x86`, and that no hypothesis is empty: `OperandsAreApart` and `ArgumentsFit` hold of
every entry of its database, and `Fits`, `IsFound` and `NoShorter` of every
instruction that the run encodes whose operands are of the kind that its
specification asks for.

`ProgramInv` of the itineraries says that, as long as no status is an error, every
instruction before the current one is skipped or complete. That a computed one is
complete takes the rest. By the fold over the variables of the programme, every
candidate is made of micro-operations that put the load of one on the ports of
their masks (`SolutionsAreProper`). The signature has as many elements as the
solution, although `OrderMicroOperations` takes pairs out of the histogram and puts
them back elsewhere (`SignatureIsOrdered`, with the CHECK_EQ of `GetMicroOps`), so
each has a load, which rounds to one cycle (`ResultIsTimed`). What
`SubtractMicroOpsFrom` keeps is from the list it was given (`SubtractTimed`).
`DecompositionAssumption` has finite port masks and no address generation on the
port of store data, which is so for every microarchitecture in
`microarchitectures.cc`; with a mask for both, `OrderMicroOperations` would pair
stores with themselves.

`StoresAreServed` follows the same list by its order. A signature is the other
micro-operations, then pairs of an address and a store, then the stores that had no
address left (`InOrder`). Subtraction removes elements, but none of a mask that the
update code does not have, so every store keeps the address in front of it (`Scan`,
`SubtractScans`); and stores without an address are excluded by counting, if the
itinerary has no fewer addresses than stores (`NothingLacks`). These are the
hypotheses: `DistinctMasks` (no two masks name the same ports, as in
`microarchitectures.cc`), update code that neither stores nor generates addresses
(`Elsewhere`), and `AddressesSuffice`, which depends on the optimum; TLC has checked
that they hold throughout the run `measurement`.

`TypeOK` of the reorder buffer, `LiveWindow`, `CountsMatchForest` and `RootsKept` are
proved and not repeated in a run; the other properties in the tables of this
section are also checked by the run of their module, which finds its mutants.
TLC has checked the inductive invariants before they were proved.

Left to TLC:

* **Out of the prover's reach**: liveness under fairness (`StallsEndAndAllArrive`,
  `Terminates`, `AllWrittenBack`, `CallsReturn`), and everything with ENABLED.
* **The data of the databases**: that the specifications of an instruction set
  satisfy `IsFound`, `NoShorter` and `OperandsAreApart` depends on all of them
  together; the proofs say what follows from it, and the run `x86` checks it for its
  database. The properties of the extractor and of the clean-up
  (`EveryInstructionOnce`, `OperandsAreOfTheirTable`, `SameForEveryBuild`,
  `EveryOperandHasAPlace`, `SpecAgreesWithRaw`, `WidthsAreDistinct`) are about chains
  of transforms over the text of manuals, and hold of the texts and tables that the
  vendors wrote, not of all. `SpecAgreesWithRaw` could hold of all texts without LAR
  (finding 3), but the transforms select with `SelectSeq` and
  sort by the characters of strings, of both of which the provers know nothing.
* **Itineraries**: `SameAsOnItsOwn` holds of the instructions and the masks of the
  run, not of all: which masks an optimum uses, and so whether `AddressesSuffice`,
  depends on the weights of the objective and on the loads.

## 5. Findings

1. `reorder_buffer.cc:348`: a uop depends on the entry before its own even if
   that entry has been released. With fewer entries than an instruction has uops
   the simulation waits in a circle and never ends (run `haswell_small_rob`). The
   192 entries of Haswell are enough to avoid it.
2. `instruction_parser.cc:351`: the parser takes EVEX.R for EVEX.R' and the other
   way round, so registers 8 to 23 in ModR/M.reg change into each other
   (run `x86_evex_r`). In the other runs the two bits are equal.
3. `cleanup_instruction_set_fix_operands.cc:342`: REX.W is added to the raw
   specification of LAR after it was parsed. The later transform that adds 66
   prefixes goes by the parsed one, and the 64-bit version ends as
   `66 REX.W 0F 02 /r`, parsed as an instruction that needs 66 and ignores REX.W
   (run `cleanup_lar`).
4. `intel_sdm_extractor.cc:1670`: in an extension document the pages of a group
   are collected while they are first pages of groups, where the comment asks for
   the contrary (run `sdm_extension`).

5. `context.cc:351`: `OpEq` returns true for any second operand when the first one
   is an expression. The hash map compares entries whose hashes agree in seven bits,
   and the hash leaves expressions out, so an instruction that was cached with an
   expression may answer for one with an immediate in its place, or with another
   expression, although LLVM resolves them to different sched classes (run
   `simulation_cache`). `CachedIsFresh` says that nothing else goes wrong.

Seen while modelling, and modelled as it is; no run is about it:

* `register_renamer.cc:239` refuses the uops that need exactly the registers that
  are left, and in the simulator nothing releases a register: when the million of
  `haswell.cc:100` has run out, the renamer refuses every uop. `simulation` exhausts them, but no property says
  that a uop is renamed in the end, as it would be false of this code.
* `port_pressure.cc:45` divides by the number of complete iterations; the properties
  of the analyses speak of logs that have one.
* `reorder_buffer.cc:273` keeps the first definer of a register where the header
  promises the last; the renamer never redefines one. `register_renamer.cc:239`
  compares with `<` where `register_renamer.h:122` says "at least".
* `inverse_throughput.h:35` says that the total number of cycles is over all
  iterations; `inverse_throughput.cc:65` leaves the skipped ones out.
* `instruction_encoder.cc:413` takes the upper bit of EVEX.vvvv from the
  instruction and not from the value that :398 puts in its place when the
  specification does not use the operand.
* `instruction_parser.cc:247` takes more prefixes behind a REX prefix; its comment
  names that as open.
* `instruction_parser.cc:656` says that writing the VEX suffix is also compatible
  with an EVEX prefix; `mutable_vex_prefix()` would drop that prefix, as the two
  are a oneof. No EVEX instruction has a suffix (`DatabaseAssumption` says so).
* `SetOpcodeOperand` takes no extended register and leaves the extension bit as
  it is. The loop at `instruction_encoding.cc:1257` ends before register 31, so
  zmm31 has no index.
* `microarchitectures.cc:135`: the three mask indices of Ice Lake (7, 9 and 8) fit
  its list of masks when counted from 0, but `microarchitecture.cc:35` subtracts 1, as
  the other microarchitectures expect; on Ice Lake stores of data are looked for on
  the load ports.
* In the clean-up, the size that is set for MOVDIR64B is overwritten by
  `AddOperandInfo`, and no instruction is left that `RemoveImplicitST0Operand`
  would change.

## 6. Not modelled

* llvm_sim: log messages and their formats, port pressure strings, the 500-cycle
  stall report, the freelist of physical registers (always empty), instruction
  sizes (data of the blocks), the `Greedy` policy, Faucon. Preconditions of
  `Haswell`: every instruction of a block has at least one uop, fits the fetch
  window, and its uops fit the decode queue. The decomposition and the pipeline
  are modelled, but not composed: the instructions of Haswell's blocks have their
  uops as data. `Window` bounds how far iterations overlap in `SimulationAnalysis`;
  with three iterations the minimum over at least five in
  `ComputeInverseThroughputs` is that of all.
* x86: text output, the tables of microarchitectures and CPU types, conversion
  of syntax, the pretty printer; decimal and hexadecimal formats.
* Clean-up: `CheckOpcodeFormat`, `MergeVendorSyntax` and
  `RemoveUselessOperandPermutations`, and the transfer of patches. Encoding
  schemes consist of the letters that the code knows.
* SDM: reading the PDF, clustering characters into blocks, patches, and manuals
  of several documents.
* Measurement: the solver answers with one of the optima of its program or with no
  solution: infeasible, or out of time with or without a solution that may not be
  optimal, all of which the code treats as one error. The JIT and
  the CPU are a load of the ports or a failure; statistics and parameter strings.
* ARM, the LLVM wrappers, tools and utilities: conversion and wrapping, without
  state that one step leaves to another.

## 7. Plan

Done: every module of section 2, and the proofs of section 4. What would come next
is breadth in the runs rather than new proofs. The x86 modules compute with folds
over data; their properties are for the model checker, and grow by specifications
and instruction sets: more of the manual's special cases in `MC_Database`, and EVEX
with memory operands in `MC_X86`. `IsFound`, `NoShorter` and `OperandsAreApart` are
conditions that a check of the real database could evaluate, one specification at a
time.
