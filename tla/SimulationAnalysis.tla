-------------------------- MODULE SimulationAnalysis --------------------------
(***************************************************************************)
(* The simulation log and what is computed from it: port pressure and      *)
(* inverse throughput (src/llvm_sim/analysis, framework/log.h and the loop *)
(* of framework/simulator.cc that fills the log).                          *)
(*                                                                         *)
(* The components between dispatch and retirement are external here: a     *)
(* cycle dispatches instructions of the current and the next iterations to *)
(* any ports, in any order, and retires in order what has been dispatched. *)
(* Every instruction is one uop.                                           *)
(***************************************************************************)
EXTENDS Integers, SequencesExt, FiniteSetsExt

CONSTANTS
  DispatchPorts,      \* the buffers that are dispatch ports, by their index
  BBLength,           \* BlockContext.GetNumBasicBlockInstructions()
  MaxNumIterations,   \* the arguments of Simulator::Run; 0 is no limit
  MaxNumCycles,
  Window              \* bound: iterations in flight

ASSUME RunAssumption ==
  /\ DispatchPorts \in SUBSET Nat /\ IsFiniteSet(DispatchPorts)
  /\ BBLength \in Nat \ {0}
  /\ {MaxNumIterations, MaxNumCycles} \subseteq Nat
  /\ MaxNumIterations > 0 \/ MaxNumCycles > 0
  /\ Window \in Nat

VARIABLES
  Lines,       \* the PortPressure lines of the log but for "init"
  Iterations,  \* EndCycle of each complete iteration
  NumCycles,
  retired,     \* how many instructions have reached the sink
  running

logVars == <<Lines, Iterations, NumCycles, retired, running>>

LogInit ==
  /\ Lines = << >>
  /\ Iterations = << >>
  /\ NumCycles = 0
  /\ retired = 0
  /\ running = TRUE

GetNumCompleteIterations == Len(Iterations)

\* Instructions are numbered from 0 over all iterations.
Dispatched == {Lines[k].instr : k \in DOMAIN Lines}
InFlight == {i \in retired .. (retired \div BBLength + Window) * BBLength - 1 :
               i \notin Dispatched}
CanRetire(n) == \A i \in retired .. retired + n - 1 : i \in Dispatched

-----------------------------------------------------------------------------
\* The body of the loop over InstructionSink_->RetrieveElems() for the
\* instructions first .. last: an iteration is complete with its last
\* instruction.  Nothing after the iteration that ends the run is looked at.
CompleteIterations(first, last) ==
  LET ended == Cardinality({i \in first .. last : i % BBLength = BBLength - 1})
      room == IF MaxNumIterations = 0 THEN ended ELSE MaxNumIterations - Len(Iterations)
  IN Iterations \o [k \in 1 .. Min({ended, room}) |-> NumCycles]

\* What the dispatch ports log when they are propagated, one after the other.
DispatchLines ==
  {lines \in UNION {[1 .. n -> [port : DispatchPorts, instr : InFlight]] :
                      n \in 0 .. Cardinality(DispatchPorts)} :
     \A j, k \in DOMAIN lines :
       j < k => lines[j].port < lines[k].port /\ lines[j].instr # lines[k].instr}

\* One cycle of Simulator::Run: every dispatch port logs what is put on it,
\* and the sink is emptied.
Cycle ==
  /\ running
  /\ MaxNumCycles = 0 \/ NumCycles < MaxNumCycles
  /\ \E lines \in DispatchLines, n \in 0 .. BBLength + 1 :
       /\ CanRetire(n)
       /\ Lines' = Lines \o lines
       /\ retired' = retired + n
       /\ Iterations' = CompleteIterations(retired, retired + n - 1)
  /\ NumCycles' = NumCycles + 1
  /\ running' = ~(MaxNumIterations > 0 /\ Len(Iterations') >= MaxNumIterations)

\* The loop of Run has ended.
Stopped ==
  /\ ~running \/ (MaxNumCycles > 0 /\ NumCycles = MaxNumCycles)
  /\ UNCHANGED logVars

LogNext == Cycle \/ Stopped

-----------------------------------------------------------------------------
\* A plausible bug: incomplete iterations are counted.
CountsEverything(port, bbIndex) ==
  Cardinality({k \in DOMAIN Lines :
                 Lines[k].port = port /\ Lines[k].instr % BBLength = bbIndex})

\* ComputePortPressure: the cycles that an instruction of the block has spent
\* on a port.  The instructions of an incomplete iteration are ignored.
CyclesByInst(port, bbIndex) ==
  Cardinality({k \in DOMAIN Lines :
                 /\ Lines[k].port = port
                 /\ Lines[k].instr % BBLength = bbIndex
                 /\ Lines[k].instr \div BBLength < GetNumCompleteIterations})

\* CyclesPerIteration, times the number of iterations it is divided by.  (The
\* quotient is not a number without a complete iteration.)
CyclesOnPort(port) == MapThenSumSet(LAMBDA b : CyclesByInst(port, b), 0 .. BBLength - 1)

EndCycleOf(i) == IF i = 0 THEN 0 ELSE Iterations[i]

\* A plausible bug: the last skipped iteration is counted.
StartsOneEarly(skipped) ==
  [i \in 1 .. GetNumCompleteIterations - skipped |->
     EndCycleOf(skipped + i) - EndCycleOf(IF i = 1 /\ skipped > 0 THEN skipped - 1 ELSE skipped + i - 1)]

\* ProcessInverseThroughputs: the cycles of each iteration that is not skipped.
InverseThroughputs(skipped) ==
  [i \in 1 .. GetNumCompleteIterations - skipped |->
     EndCycleOf(skipped + i) - EndCycleOf(skipped + i - 1)]

UINT_MAX == 2147483647  \* bound: TLC's integers end here

\* ComputeInverseThroughput.
ComputeInverseThroughput ==
  LET skipped == GetNumCompleteIterations \div 2
      throughputs == Range(InverseThroughputs(skipped))
  IN [Min |-> Min({UINT_MAX} \cup throughputs),
      Max |-> Max({0} \cup throughputs),
      NumIterations |-> GetNumCompleteIterations - skipped,
      TotalNumCycles |-> EndCycleOf(GetNumCompleteIterations) - EndCycleOf(skipped)]

\* ComputeInverseThroughputs: at most five iterations are skipped.
ComputeInverseThroughputs ==
  InverseThroughputs(Min({GetNumCompleteIterations \div 2, 5}))

-----------------------------------------------------------------------------
\* The pressures of all ports add up to the uops of one iteration, whatever
\* has been dispatched of the iterations that follow: an instruction of a
\* complete iteration is counted on one port, and nothing else is.
PressureIsOneIteration ==
  MapThenSumSet(CyclesOnPort, DispatchPorts) = GetNumCompleteIterations * BBLength

\* The minimum and maximum bound the average of the iterations they are taken
\* from, and the total is what the list of throughputs ends with.
ThroughputsAgree ==
  LET result == ComputeInverseThroughput
      all == ComputeInverseThroughputs
      last == SubSeq(all, Len(all) - result.NumIterations + 1, Len(all))
  IN GetNumCompleteIterations > 0 =>
       /\ result.TotalNumCycles = FoldLeft(+, 0, last)
       /\ result.NumIterations * result.Min <= result.TotalNumCycles
       /\ result.TotalNumCycles <= result.NumIterations * result.Max

=============================================================================
