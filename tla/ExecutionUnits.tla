--------------------------- MODULE ExecutionUnits ---------------------------
(***************************************************************************)
(* The execution units of llvm_sim/components/execution_unit.h: one        *)
(* NonPipelinedExecutionUnit and one PipelinedExecutionUnit that take      *)
(* their elements from the same source, each those of its own latency, and *)
(* write them back to the same sink.                                       *)
(*                                                                         *)
(* A step is one Tick of one unit, or the arrival of an element in the     *)
(* source.  The clock ticks both units once per cycle; what is stated here *)
(* counts the ticks of one unit, so that any interleaving of the two will  *)
(* do.  The sink is free to refuse an element at any time.                 *)
(***************************************************************************)
EXTENDS Integers, Sequences

CONSTANTS
  SimpleStages,        \* Config_.NumStages of the unit that is not pipelined
  NumStages,           \* Config_.NumStages of the pipelined unit
  NumCyclesPerStage,   \* Config_.NumCyclesPerStage of the pipelined unit
  NumElements          \* bound: how many elements arrive

\* The constructors assert that there is a stage.
ASSUME UnitsAssumption ==
  /\ SimpleStages \in Nat \ {0}
  /\ NumStages \in Nat \ {0}
  /\ NumCyclesPerStage \in Nat \ {0}
  /\ NumElements \in Nat

\* The elements are numbered in the order in which they arrive.
Elements == 1 .. NumElements
Bubble == 0

VARIABLES
  latency,     \* Latency of each element
  numArrived,  \* how many elements were pushed into the source
  source,      \* the elements in Source_, oldest first
  curStage,    \* CurStage_ of the simple unit, -1 when it is empty
  elem,        \* Elem_ of the simple unit
  pipeline,    \* Pipeline_, an element or a bubble in each stage, front first
  stageCycle,  \* CurStageCycle_
  sink,        \* the elements that Sink_ accepted, in order
  due          \* history: how many ticks of its unit until an element that
               \* was started is to be written back

unitsVars == <<latency, numArrived, source, curStage, elem, pipeline, stageCycle,
              sink, due>>

simpleVars == <<curStage, elem>>
pipeVars == <<pipeline, stageCycle>>

PipeLatency == NumStages * NumCyclesPerStage

UnitsInit ==
  /\ latency \in [Elements -> {SimpleStages, PipeLatency}]
  /\ numArrived = 0 /\ source = << >>
  /\ curStage = -1 /\ elem = Bubble
  /\ pipeline = [k \in 1 .. NumStages |-> Bubble]
  /\ stageCycle = NumCyclesPerStage - 1
  /\ sink = << >>
  /\ due = [e \in Elements |-> 0]

ElementArrives ==
  /\ numArrived < NumElements
  /\ numArrived' = numArrived + 1
  /\ source' = Append(source, numArrived + 1)
  /\ UNCHANGED <<latency, simpleVars, pipeVars, sink, due>>

\* The element that a unit of latency l finds in the source, if it is for it.
ForUnit(l) == IF source # << >> /\ latency[Head(source)] = l THEN Head(source)
                                                             ELSE Bubble

\* Source_->Pop() of an element that was found.
Take(e) == source' = IF e = Bubble THEN source ELSE Tail(source)

\* History: one tick on, with the elements that are in the unit delayed by
\* `delay' and element e, if there is one, started on a unit of latency l.
Count(inUnit, delay, e, l) ==
  due' = [d \in Elements |-> IF d = e THEN l
                             ELSE IF d \in inUnit THEN due[d] - 1 + delay
                             ELSE due[d]]

-----------------------------------------------------------------------------
(* NonPipelinedExecutionUnit::Tick.                                        *)

InSimple == {elem} \ {Bubble}

\* Mutant: the element is not popped.
StartWithoutPop(leaving) ==
  LET e == ForUnit(SimpleStages) IN
    /\ curStage' = IF e = Bubble THEN -1 ELSE 0
    /\ elem' = e
    /\ UNCHANGED source
    /\ Count(leaving, 0, e, SimpleStages)

\* StartNextElement; the history counts the tick for the element that leaves.
StartNextElement(leaving) ==
  LET e == ForUnit(SimpleStages) IN
    /\ curStage' = IF e = Bubble THEN -1 ELSE 0
    /\ elem' = e
    /\ Take(e)
    /\ Count(leaving, 0, e, SimpleStages)

SimpleIdle ==
  /\ curStage < 0
  /\ StartNextElement({})
  /\ UNCHANGED <<latency, numArrived, pipeVars, sink>>

SimpleAdvance ==
  /\ 0 <= curStage /\ curStage < SimpleStages - 1
  /\ curStage' = curStage + 1
  /\ Count(InSimple, 0, Bubble, 0)
  /\ UNCHANGED <<latency, numArrived, source, elem, pipeVars, sink>>

SimpleDone == curStage = SimpleStages - 1

SimpleWriteBack ==
  /\ SimpleDone
  /\ sink' = Append(sink, elem)
  /\ StartNextElement(InSimple)
  /\ UNCHANGED <<latency, numArrived, pipeVars>>

SimpleStall ==
  /\ SimpleDone
  /\ Count(InSimple, 1, Bubble, 0)
  /\ UNCHANGED <<latency, numArrived, source, simpleVars, pipeVars, sink>>

SimpleTick == SimpleIdle \/ SimpleAdvance \/ SimpleWriteBack \/ SimpleStall

-----------------------------------------------------------------------------
(* PipelinedExecutionUnit::Tick.                                           *)

InPipeline == {pipeline[k] : k \in 1 .. NumStages} \ {Bubble}

StageEnds == stageCycle + 1 >= NumCyclesPerStage

PipeWait ==
  /\ ~ StageEnds
  /\ stageCycle' = stageCycle + 1
  /\ Count(InPipeline, 0, Bubble, 0)
  /\ UNCHANGED <<latency, numArrived, source, simpleVars, pipeline, sink>>

\* The last stage is popped, e enters the first.
MoveForward(e) ==
  pipeline' = [k \in 1 .. NumStages |-> IF k = 1 THEN e ELSE pipeline[k - 1]]

\* Mutant: the latency of an element is compared with the number of stages.
ProceedByStages ==
  LET e == ForUnit(NumStages) IN
    /\ stageCycle' = 0
    /\ MoveForward(e)
    /\ Take(e)
    /\ Count(InPipeline, 0, e, PipeLatency)

\* The element at the end of the pipeline, if any, has been written back.
Proceed ==
  LET e == ForUnit(PipeLatency) IN
    /\ stageCycle' = 0
    /\ MoveForward(e)
    /\ Take(e)
    /\ Count(InPipeline, 0, e, PipeLatency)

PipeShift ==
  /\ StageEnds
  /\ pipeline[NumStages] = Bubble
  /\ Proceed
  /\ UNCHANGED <<latency, numArrived, simpleVars, sink>>

PipeWriteBack ==
  /\ StageEnds
  /\ pipeline[NumStages] # Bubble
  /\ sink' = Append(sink, pipeline[NumStages])
  /\ Proceed
  /\ UNCHANGED <<latency, numArrived, simpleVars>>

\* Mutant: a refused push is tried again in the next tick.
PipeStallRetried ==
  /\ StageEnds
  /\ pipeline[NumStages] # Bubble
  /\ Count(InPipeline, NumCyclesPerStage, Bubble, 0)
  /\ UNCHANGED <<latency, numArrived, source, simpleVars, pipeVars, sink>>

\* The cycle counter was reset already: a refused push is tried again a whole
\* stage later, and everything in the pipeline waits as long.
PipeStall ==
  /\ StageEnds
  /\ pipeline[NumStages] # Bubble
  /\ stageCycle' = 0
  /\ Count(InPipeline, NumCyclesPerStage, Bubble, 0)
  /\ UNCHANGED <<latency, numArrived, source, simpleVars, pipeline, sink>>

PipeTick == PipeWait \/ PipeShift \/ PipeWriteBack \/ PipeStall

UnitsNext == ElementArrives \/ SimpleTick \/ PipeTick

UnitsSpec == UnitsInit /\ [][UnitsNext]_unitsVars

-----------------------------------------------------------------------------
(* Properties.                                                             *)

Started == numArrived - Len(source)
Written == {sink[n] : n \in 1 .. Len(sink)}

TypeOK ==
  /\ latency \in [Elements -> {SimpleStages, PipeLatency}]
  /\ numArrived \in 0 .. NumElements
  /\ source \in Seq(Elements) /\ Len(source) <= numArrived
  /\ curStage \in -1 .. SimpleStages - 1
  /\ elem \in Elements \cup {Bubble}
  /\ curStage = -1 <=> elem = Bubble
  /\ pipeline \in [1 .. NumStages -> Elements \cup {Bubble}]
  /\ stageCycle \in 0 .. NumCyclesPerStage - 1
  /\ sink \in Seq(Elements)
  /\ due \in [Elements -> Nat]

\* No element is lost, executed twice or executed by both units that find it
\* in their source: what left the source, in order, is in exactly one stage of
\* one unit or was written back, once.
ExactlyOnce ==
  /\ \A n \in 1 .. Len(source) : source[n] = Started + n
  /\ InSimple \cup InPipeline \cup Written = 1 .. Started
  /\ InSimple \cap InPipeline = {}
  /\ (InSimple \cup InPipeline) \cap Written = {}
  /\ \A j, k \in 1 .. NumStages :
       pipeline[j] = pipeline[k] => j = k \/ pipeline[j] = Bubble
  /\ \A m, n \in 1 .. Len(sink) : sink[m] = sink[n] => m = n

\* "When an element is done executing (it reaches the end of the pipeline), it
\* is written back to the sink" (execution_unit.h): after exactly as many ticks
\* of its unit as it has latency, plus one for each refused push in the simple
\* unit and a whole stage for each one in the pipelined unit, whether it was
\* at the end of the pipeline or behind.
OnTime == \A e \in Written : due[e] = 0

\* Whatever arrives is written back in the end: no unit waits for ever for an
\* element at the head of the source that is for the other one.
AllWrittenBack ==
  \A e \in Elements : (numArrived >= e) ~> (e \in Written)

=============================================================================
