------------------------ MODULE ExecutionUnitsProofs ------------------------
(***************************************************************************)
(* Proofs about ExecutionUnits, for units of any number of stages and any  *)
(* number of elements: the units execute every element exactly once        *)
(* (Execution) and write it back exactly on time (Punctuality).            *)
(*                                                                         *)
(* OnTime is about the ticks counted for elements that were written back.  *)
(* It follows from where an element is in its unit: Schedule says how many *)
(* ticks are left at each stage, and needs ExactlyOnce, since an element   *)
(* in two places would be counted twice.                                   *)
(***************************************************************************)
EXTENDS ExecutionUnits, TLAPS

\* The ticks that an element in stage k of the pipeline has left when the
\* pipeline has just moved.
Left(k) == (NumStages - k + 1) * NumCyclesPerStage

Schedule ==
  /\ curStage >= 0 => due[elem] = SimpleStages - curStage
  /\ \A k \in 1 .. NumStages :
       pipeline[k] # Bubble => due[pipeline[k]] = Left(k) - stageCycle

IInv == TypeOK /\ ExactlyOnce /\ Schedule /\ OnTime

-----------------------------------------------------------------------------
(* Lemmas.                                                                 *)

\* Each stage takes NumCyclesPerStage ticks, the last one as well.
LEMMA StagesLeft ==
  /\ PipeLatency \in Nat \ {0}
  /\ Left(1) = PipeLatency
  /\ Left(NumStages) = NumCyclesPerStage
  /\ \A k \in 1 .. NumStages :
       Left(k) \in Nat /\ Left(k) >= NumCyclesPerStage
  /\ \A k \in 2 .. NumStages : Left(k - 1) = Left(k) + NumCyclesPerStage
<1> DEFINE C == NumCyclesPerStage
<1> USE UnitsAssumption
<1>1. \A a \in Nat : (a + 1) * C = a * C + C /\ a * C \in Nat
  OBVIOUS
<1>2. \A k \in 1 .. NumStages : Left(k) = (NumStages - k) * C + C
                                /\ (NumStages - k) * C \in Nat
  <2> TAKE k \in 1 .. NumStages
  <2>1. NumStages - k \in Nat
    OBVIOUS
  <2> QED BY <2>1, <1>1 DEF Left
<1>3. \A k \in 2 .. NumStages : Left(k - 1) = Left(k) + C
  <2> TAKE k \in 2 .. NumStages
  <2>1. NumStages - k + 1 \in Nat /\ NumStages - (k - 1) + 1 = (NumStages - k + 1) + 1
    OBVIOUS
  <2>2. ((NumStages - k + 1) + 1) * C = (NumStages - k + 1) * C + C
    BY <2>1, <1>1
  <2> QED BY <2>1, <2>2 DEF Left
<1>4. NumStages \in 1 .. NumStages /\ NumStages - NumStages + 1 = 1
  OBVIOUS
<1>5. Left(NumStages) = C
  BY <1>4 DEF Left
<1>6. NumStages - 1 + 1 = NumStages
  OBVIOUS
<1>7. Left(1) = PipeLatency
  BY <1>6 DEF Left, PipeLatency
<1>8. PipeLatency \in Nat \ {0}
  BY <1>2, <1>7
<1> QED BY <1>2, <1>3, <1>5, <1>7, <1>8

\* What a unit finds in the source is the next element to be started.
LEMMA Found ==
  ASSUME TypeOK, ExactlyOnce, NEW l, NEW e, e = ForUnit(l), Take(e),
         numArrived' = numArrived
  PROVE  /\ e \in Elements \cup {Bubble}
         /\ e # Bubble => e = Started + 1 /\ Started' = e
         /\ e = Bubble => Started' = Started
         /\ source' \in Seq(Elements) /\ Len(source') <= numArrived
         /\ \A n \in 1 .. Len(source') : source'[n] = Started' + n
<1> USE UnitsAssumption DEF Elements, Bubble
<1>1. CASE e = Bubble
  BY <1>1 DEF Take, Started, TypeOK, ExactlyOnce
<1>2. CASE e # Bubble
  <2>1. source # << >> /\ e = source[1] /\ source' = Tail(source)
    BY <1>2 DEF ForUnit, Take, TypeOK
  <2>2. /\ Len(source) \in Nat \ {0} /\ Len(source') = Len(source) - 1
        /\ source' \in Seq(Elements) /\ e \in Elements
        /\ \A n \in 1 .. Len(source') : source'[n] = source[n + 1]
    <3>1. source \in Seq(Elements)
      BY DEF TypeOK
    <3> QED BY <3>1, <2>1
  <2>3. e = Started + 1 /\ Started' = Started + 1
    BY <2>1, <2>2 DEF Started, TypeOK, ExactlyOnce
  <2>4. ASSUME NEW n \in 1 .. Len(source')
        PROVE  source'[n] = Started' + n
    <3>1. n + 1 \in 1 .. Len(source)
      BY <2>2
    <3>2. source'[n] = Started + (n + 1)
      BY <2>2, <3>1 DEF ExactlyOnce
    <3>3. Started \in Int
      BY DEF Started, TypeOK
    <3> QED BY <2>3, <3>2, <3>3
  <2> QED BY <1>2, <2>2, <2>3, <2>4 DEF TypeOK
<1> QED BY <1>1, <1>2

\* What is written back is written back once.
LEMMA SinkGrows ==
  ASSUME TypeOK, ExactlyOnce, NEW x \in Elements, x \notin Written,
         sink' = Append(sink, x)
  PROVE  /\ sink' \in Seq(Elements)
         /\ Written' = Written \cup {x}
         /\ \A m, n \in 1 .. Len(sink') : sink'[m] = sink'[n] => m = n
<1>1. /\ Len(sink) \in Nat /\ Len(sink') = Len(sink) + 1
      /\ sink' \in Seq(Elements)
      /\ \A n \in 1 .. Len(sink) : sink'[n] = sink[n]
      /\ sink'[Len(sink) + 1] = x
  BY DEF TypeOK
<1>2. Written' = Written \cup {x}
  BY <1>1 DEF Written
<1>3. \A m, n \in 1 .. Len(sink') : sink'[m] = sink'[n] => m = n
  BY <1>1 DEF Written, ExactlyOnce
<1> QED BY <1>1, <1>2, <1>3

\* A move of the pipeline drops its end and takes an element in front.
LEMMA PipelineMoves ==
  ASSUME TypeOK, ExactlyOnce, NEW e \in Elements \cup {Bubble},
         e \notin InPipeline, MoveForward(e)
  PROVE  /\ pipeline' \in [1 .. NumStages -> Elements \cup {Bubble}]
         /\ InPipeline' = (InPipeline \ {pipeline[NumStages]})
                          \cup ({e} \ {Bubble})
         /\ \A j, k \in 1 .. NumStages :
              pipeline'[j] = pipeline'[k] => j = k \/ pipeline'[j] = Bubble
<1> USE UnitsAssumption
<1>1. /\ pipeline'[1] = e
      /\ \A k \in 2 .. NumStages : pipeline'[k] = pipeline[k - 1]
                                   /\ k - 1 \in 1 .. NumStages
      /\ pipeline' \in [1 .. NumStages -> Elements \cup {Bubble}]
  BY DEF MoveForward, TypeOK
<1>2. \A k \in 1 .. NumStages : k = 1 \/ k \in 2 .. NumStages
  OBVIOUS
<1>3. \A k \in 1 .. NumStages :
        k = NumStages \/ (k + 1 \in 2 .. NumStages /\ (k + 1) - 1 = k)
  OBVIOUS
<1>4. ASSUME NEW d
      PROVE  d \in InPipeline' <=> d \in (InPipeline \ {pipeline[NumStages]})
                                         \cup ({e} \ {Bubble})
  <2>1. ASSUME d \in InPipeline'
        PROVE  d \in (InPipeline \ {pipeline[NumStages]}) \cup ({e} \ {Bubble})
    <3>1. PICK k \in 1 .. NumStages : d = pipeline'[k]
      BY <2>1 DEF InPipeline
    <3>2. d # Bubble
      BY <2>1 DEF InPipeline
    <3>3. CASE k \in 2 .. NumStages
      <4>1. d = pipeline[k - 1] /\ k - 1 \in 1 .. NumStages /\ k - 1 # NumStages
        BY <1>1, <3>1, <3>3
      <4>2. NumStages \in 1 .. NumStages
        OBVIOUS
      <4>3. d # pipeline[NumStages]
        BY <4>1, <4>2, <3>2 DEF ExactlyOnce
      <4> QED BY <4>1, <4>3, <3>2 DEF InPipeline
    <3> QED BY <1>1, <1>2, <3>1, <3>2, <3>3
  <2>2. ASSUME d \in InPipeline, d # pipeline[NumStages]
        PROVE  d \in InPipeline'
    <3>1. PICK k \in 1 .. NumStages : d = pipeline[k]
      BY <2>2 DEF InPipeline
    <3>2. k + 1 \in 2 .. NumStages /\ pipeline'[k + 1] = d
      BY <1>1, <1>3, <2>2, <3>1
    <3>3. k + 1 \in 1 .. NumStages
      BY <3>2
    <3> QED BY <2>2, <3>2, <3>3 DEF InPipeline
  <2>3. ASSUME d = e, e # Bubble
        PROVE  d \in InPipeline'
    <3>1. 1 \in 1 .. NumStages
      OBVIOUS
    <3> QED BY <1>1, <2>3, <3>1 DEF InPipeline
  <2> QED BY <2>1, <2>2, <2>3
<1>5. ASSUME NEW j \in 1 .. NumStages, NEW k \in 1 .. NumStages,
             pipeline'[j] = pipeline'[k], pipeline'[j] # Bubble
      PROVE  j = k
  <2>1. ASSUME NEW m \in 2 .. NumStages
        PROVE  pipeline'[m] = Bubble \/ pipeline'[m] \in InPipeline
    BY <1>1 DEF InPipeline
  <2>2. CASE j \in 2 .. NumStages /\ k \in 2 .. NumStages
    <3>1. j - 1 = k - 1
      BY <1>1, <1>5, <2>2 DEF ExactlyOnce
    <3> QED BY <3>1, <2>2
  <2> QED BY <1>1, <1>2, <1>5, <2>1, <2>2
<1> QED BY <1>1, <1>4, <1>5

\* The count of ticks.
LEMMA Ticked ==
  ASSUME TypeOK, NEW inUnit, NEW delay \in Nat, NEW e, NEW l \in Nat,
         \A d \in inUnit : d \in Elements /\ due[d] >= 1,
         Count(inUnit, delay, e, l)
  PROVE  /\ due' \in [Elements -> Nat]
         /\ e \in Elements => due'[e] = l
         /\ \A d \in inUnit : d # e => due'[d] = due[d] - 1 + delay
         /\ \A d \in Elements : d \notin inUnit /\ d # e => due'[d] = due[d]
<1>1. \A d \in Elements : due[d] \in Nat
  BY DEF TypeOK
<1> QED BY <1>1 DEF Count

\* An element in a unit has ticks left.
LEMMA InUnits ==
  ASSUME IInv
  PROVE  /\ \A d \in InSimple : d \in Elements /\ d = elem /\ due[d] >= 1
                                /\ curStage >= 0
         /\ \A d \in InPipeline : d \in Elements /\ due[d] >= 1
         /\ \A d \in Written : d \in Elements
<1> USE UnitsAssumption
<1>1. \A d \in InSimple : d \in Elements /\ d = elem /\ due[d] >= 1 /\ curStage >= 0
  BY DEF IInv, InSimple, TypeOK, Schedule, Elements, Bubble
<1>2. ASSUME NEW d \in InPipeline
      PROVE  d \in Elements /\ due[d] >= 1
  <2>1. PICK k \in 1 .. NumStages : d = pipeline[k] /\ d # Bubble
    BY DEF InPipeline
  <2>2. due[d] = Left(k) - stageCycle /\ Left(k) \in Nat
        /\ Left(k) >= NumCyclesPerStage
    BY <2>1, StagesLeft DEF IInv, Schedule
  <2>3. d \in Elements
    BY <2>1 DEF IInv, TypeOK
  <2>4. stageCycle \in Nat /\ stageCycle < NumCyclesPerStage
    BY DEF IInv, TypeOK
  <2> QED BY <2>2, <2>3, <2>4
<1>3. \A d \in Written : d \in Elements
  BY DEF Written, IInv, TypeOK
<1> QED BY <1>1, <1>2, <1>3

-----------------------------------------------------------------------------
(* Every action preserves the invariant.                                   *)

LEMMA InitIInv == UnitsInit => IInv
<1> SUFFICES ASSUME UnitsInit PROVE IInv
  OBVIOUS
<1> USE UnitsAssumption DEF UnitsInit
<1>1. PipeLatency \in Nat
  BY StagesLeft
<1>2. source = << >> /\ Len(source) = 0 /\ sink = << >> /\ Len(sink) = 0
  OBVIOUS
<1>3. TypeOK
  BY <1>2 DEF TypeOK, Bubble
<1>4. \A k \in 1 .. NumStages : pipeline[k] = Bubble
  OBVIOUS
<1>5. InPipeline = {}
  BY <1>4 DEF InPipeline
<1>6. InSimple = {} /\ Written = {} /\ Started = 0
  <2>1. InSimple = {}
    BY DEF InSimple
  <2>2. 1 .. Len(sink) = {}
    BY <1>2
  <2>3. Written = {}
    BY <2>2 DEF Written
  <2>4. numArrived = 0 /\ Len(source) = 0
    BY <1>2
  <2> HIDE DEF UnitsInit
  <2>5. Started = 0
    BY <2>4 DEF Started
  <2> QED BY <2>1, <2>3, <2>5
<1>7. ExactlyOnce
  BY <1>2, <1>4, <1>5, <1>6 DEF ExactlyOnce
<1>8. Schedule
  <2>1. ~ (curStage >= 0)
    OBVIOUS
  <2> QED BY <1>4, <2>1 DEF Schedule
<1>9. OnTime
  BY <1>6 DEF OnTime
<1> QED BY <1>3, <1>7, <1>8, <1>9 DEF IInv

LEMMA ArriveKeeps == IInv /\ ElementArrives => IInv'
<1> SUFFICES ASSUME IInv, ElementArrives PROVE IInv'
  OBVIOUS
<1> USE UnitsAssumption DEF ElementArrives, IInv
<1>1. /\ Len(source) \in Nat /\ Len(source') = Len(source) + 1
      /\ source' \in Seq(Elements)
      /\ \A n \in 1 .. Len(source) : source'[n] = source[n]
      /\ source'[Len(source) + 1] = numArrived + 1
  BY DEF TypeOK, Elements
<1>2. Started' = Started /\ Started \in Int /\ Started + Len(source) = numArrived
  BY <1>1 DEF Started, TypeOK
<1>3. InSimple' = InSimple /\ InPipeline' = InPipeline /\ Written' = Written
  BY DEF InSimple, InPipeline, Written, simpleVars, pipeVars
<1>4. TypeOK'
  BY <1>1 DEF TypeOK, simpleVars, pipeVars
<1>5. \A n \in 1 .. Len(source') : source'[n] = Started' + n
  <2> SUFFICES ASSUME NEW n \in 1 .. Len(source')
               PROVE  source'[n] = Started' + n
    OBVIOUS
  <2>1. CASE n = Len(source) + 1
    BY <1>1, <1>2, <2>1
  <2>2. CASE n \in 1 .. Len(source)
    BY <1>1, <1>2, <2>2 DEF ExactlyOnce
  <2> QED BY <1>1, <2>1, <2>2
<1>6. ExactlyOnce'
  BY <1>2, <1>3, <1>5 DEF ExactlyOnce, pipeVars
<1>7. Schedule' /\ OnTime'
  BY <1>3 DEF Schedule, OnTime, simpleVars, pipeVars, Left
<1> QED BY <1>4, <1>6, <1>7

\* The elements stay where they are: only the ticks of a unit are counted.
LEMMA SameElements ==
  ASSUME IInv, UNCHANGED <<numArrived, source, elem, pipeline, sink>>
  PROVE  /\ InSimple' = InSimple /\ InPipeline' = InPipeline
         /\ Written' = Written
         /\ ExactlyOnce'
<1>1. InSimple' = InSimple /\ InPipeline' = InPipeline /\ Written' = Written
  BY DEF InSimple, InPipeline, Written
<1> QED BY <1>1 DEF IInv, ExactlyOnce, Started

\* A tick of the simple unit that keeps its element.
LEMMA SimpleWaits ==
  ASSUME IInv, NEW delay \in Nat, curStage >= 0,
         curStage' \in 0 .. SimpleStages - 1,
         curStage' = curStage + 1 - delay,
         Count(InSimple, delay, Bubble, 0),
         UNCHANGED <<latency, numArrived, source, elem, pipeVars, sink>>
  PROVE  IInv'
<1> USE UnitsAssumption
<1>1. /\ due' \in [Elements -> Nat]
      /\ \A d \in InSimple : d # Bubble => due'[d] = due[d] - 1 + delay
      /\ \A d \in Elements : d \notin InSimple /\ d # Bubble => due'[d] = due[d]
  BY InUnits, Ticked DEF IInv
<1>2. InSimple' = InSimple /\ InPipeline' = InPipeline /\ Written' = Written
      /\ ExactlyOnce'
  BY SameElements DEF pipeVars
<1>3. elem \in InSimple /\ elem # Bubble /\ elem \in Elements
  BY DEF IInv, TypeOK, InSimple, Elements, Bubble
<1>4. TypeOK'
  BY <1>1, <1>3 DEF IInv, TypeOK, pipeVars
<1>5. curStage' >= 0 => due'[elem'] = SimpleStages - curStage'
  BY <1>1, <1>3 DEF IInv, TypeOK, Schedule
<1>6. ASSUME NEW k \in 1 .. NumStages, pipeline'[k] # Bubble
      PROVE  due'[pipeline'[k]] = Left(k) - stageCycle'
  <2>1. pipeline[k] \in InPipeline /\ pipeline[k] \in Elements
    BY <1>6 DEF InPipeline, IInv, TypeOK, pipeVars
  <2>2. pipeline[k] \notin InSimple
    BY <2>1 DEF IInv, ExactlyOnce
  <2> QED BY <1>1, <1>6, <2>1, <2>2 DEF IInv, Schedule, pipeVars
<1>7. Schedule'
  BY <1>5, <1>6 DEF Schedule, Left
<1>8. OnTime'
  <2> SUFFICES ASSUME NEW d \in Written PROVE due'[d] = 0
    BY <1>2 DEF OnTime
  <2>1. d \in Elements /\ d \notin InSimple /\ d # Bubble
    BY InUnits DEF IInv, ExactlyOnce, Elements, Bubble
  <2> QED BY <1>1, <2>1 DEF IInv, OnTime
<1> QED BY <1>2, <1>4, <1>7, <1>8 DEF IInv

LEMMA SimpleAdvanceKeeps == IInv /\ SimpleAdvance => IInv'
<1> SUFFICES ASSUME IInv, SimpleAdvance PROVE IInv'
  OBVIOUS
<1>1. /\ curStage >= 0 /\ curStage' \in 0 .. SimpleStages - 1
      /\ curStage' = curStage + 1 - 0
  BY UnitsAssumption DEF SimpleAdvance, IInv, TypeOK
<1> QED BY <1>1, SimpleWaits DEF SimpleAdvance

LEMMA SimpleStallKeeps == IInv /\ SimpleStall => IInv'
<1> SUFFICES ASSUME IInv, SimpleStall PROVE IInv'
  OBVIOUS
<1>1. /\ curStage >= 0 /\ curStage' \in 0 .. SimpleStages - 1
      /\ curStage' = curStage + 1 - 1
  BY UnitsAssumption DEF SimpleStall, SimpleDone, simpleVars, IInv, TypeOK
<1> QED BY <1>1, SimpleWaits DEF SimpleStall, simpleVars

\* A tick of the simple unit in which its element leaves, if it has one, and
\* the next one is started.
LEMMA SimpleStarts ==
  ASSUME IInv, StartNextElement(InSimple),
         UNCHANGED <<latency, numArrived, pipeVars>>,
         \/ InSimple = {} /\ sink' = sink
         \/ SimpleDone /\ sink' = Append(sink, elem)
  PROVE  IInv'
<1> USE UnitsAssumption
<1>1. PICK e : e = ForUnit(SimpleStages)
  OBVIOUS
<1>2. /\ curStage' = IF e = Bubble THEN -1 ELSE 0
      /\ elem' = e /\ Take(e) /\ Count(InSimple, 0, e, SimpleStages)
  BY <1>1 DEF StartNextElement
<1>3. /\ e \in Elements \cup {Bubble}
      /\ e # Bubble => e = Started + 1 /\ Started' = e
      /\ e = Bubble => Started' = Started
      /\ source' \in Seq(Elements) /\ Len(source') <= numArrived
      /\ \A n \in 1 .. Len(source') : source'[n] = Started' + n
  BY <1>1, <1>2, Found DEF IInv
<1>4. Started \in Nat
  BY DEF Started, IInv, TypeOK
<1>5. e \notin InSimple /\ e \notin InPipeline /\ (e # Bubble => e \notin Written)
  <2>1. CASE e = Bubble
    BY <2>1 DEF InSimple, InPipeline
  <2>2. CASE e # Bubble
    <3>1. e \notin 1 .. Started
      BY <1>3, <1>4, <2>2
    <3>2. InSimple \cup InPipeline \cup Written = 1 .. Started
      BY DEF IInv, ExactlyOnce
    <3> QED BY <3>1, <3>2
  <2> QED BY <2>1, <2>2
<1>6. /\ due' \in [Elements -> Nat]
      /\ e \in Elements => due'[e] = SimpleStages
      /\ \A d \in InSimple : d # e => due'[d] = due[d] - 1 + 0
      /\ \A d \in Elements : d \notin InSimple /\ d # e => due'[d] = due[d]
  <2>1. SimpleStages \in Nat /\ 0 \in Nat /\ TypeOK
    BY DEF IInv
  <2>2. \A d \in InSimple : d \in Elements /\ due[d] >= 1
    BY InUnits
  <2> QED BY ONLY <1>2, <2>1, <2>2, Ticked
<1>7. InSimple' = {e} \ {Bubble}
  BY <1>2 DEF InSimple
<1>8. InPipeline' = InPipeline
  BY DEF InPipeline, pipeVars
<1>9. /\ Written' = Written \cup InSimple
      /\ sink' \in Seq(Elements)
      /\ \A m, n \in 1 .. Len(sink') : sink'[m] = sink'[n] => m = n
      /\ \A d \in InSimple : due[d] = 1
  <2>1. CASE InSimple = {} /\ sink' = sink
    <3>1. Written' = Written
      BY <2>1 DEF Written
    <3>2. sink \in Seq(Elements)
          /\ \A m, n \in 1 .. Len(sink) : sink[m] = sink[n] => m = n
      BY DEF IInv, TypeOK, ExactlyOnce
    <3> QED BY <2>1, <3>1, <3>2
  <2>2. CASE SimpleDone /\ sink' = Append(sink, elem)
    <3>1. curStage >= 0 /\ curStage = SimpleStages - 1
      BY <2>2 DEF SimpleDone
    <3>2. elem \in Elements /\ InSimple = {elem} /\ due[elem] = 1
      BY <3>1 DEF IInv, TypeOK, InSimple, Schedule, Elements, Bubble
    <3>3. elem \notin Written
      BY <3>2 DEF IInv, ExactlyOnce
    <3> QED BY <2>2, <3>2, <3>3, SinkGrows DEF IInv
  <2> QED BY <2>1, <2>2
<1>10. TypeOK'
  BY <1>2, <1>3, <1>6, <1>9 DEF IInv, TypeOK, pipeVars, Bubble
<1>11. ExactlyOnce'
  <2>1. InSimple' \cup InPipeline' \cup Written' = 1 .. Started'
    <3>1. InSimple \cup InPipeline \cup Written = 1 .. Started
      BY DEF IInv, ExactlyOnce
    <3>2. 1 .. Started' = (1 .. Started) \cup ({e} \ {Bubble})
      BY <1>3, <1>4
    <3> QED BY <3>1, <3>2, <1>7, <1>8, <1>9
  <2>2. /\ InSimple' \cap InPipeline' = {}
        /\ (InSimple' \cup InPipeline') \cap Written' = {}
    BY <1>5, <1>7, <1>8, <1>9 DEF IInv, ExactlyOnce
  <2>3. \A j, k \in 1 .. NumStages :
          pipeline'[j] = pipeline'[k] => j = k \/ pipeline'[j] = Bubble
    BY DEF IInv, ExactlyOnce, pipeVars
  <2> QED BY <1>3, <1>9, <2>1, <2>2, <2>3 DEF ExactlyOnce
<1>12. Schedule'
  <2>1. curStage' >= 0 => due'[elem'] = SimpleStages - curStage'
    BY <1>2, <1>3, <1>6
  <2>2. ASSUME NEW k \in 1 .. NumStages, pipeline'[k] # Bubble
        PROVE  due'[pipeline'[k]] = Left(k) - stageCycle'
    <3>1. pipeline[k] \in InPipeline /\ pipeline[k] \in Elements
      BY <2>2 DEF InPipeline, IInv, TypeOK, pipeVars
    <3>2. pipeline[k] \notin InSimple /\ pipeline[k] # e
      BY <1>5, <3>1 DEF IInv, ExactlyOnce
    <3> QED BY <1>6, <2>2, <3>1, <3>2 DEF IInv, Schedule, pipeVars
  <2> QED BY <2>1, <2>2 DEF Schedule, Left
<1>13. OnTime'
  <2> SUFFICES ASSUME NEW d \in Written \cup InSimple PROVE due'[d] = 0
    BY <1>9 DEF OnTime
  <2>1. d \in Elements /\ d # Bubble
    BY InUnits DEF Elements, Bubble
  <2>2. d # e
    BY <1>5, <2>1
  <2>3. CASE d \in InSimple
    BY <1>6, <1>9, <2>2, <2>3
  <2>4. CASE d \notin InSimple
    BY <1>6, <2>1, <2>2, <2>4 DEF IInv, OnTime
  <2> QED BY <2>3, <2>4
<1> QED BY <1>10, <1>11, <1>12, <1>13 DEF IInv

LEMMA SimpleIdleKeeps == IInv /\ SimpleIdle => IInv'
<1> SUFFICES ASSUME IInv, SimpleIdle PROVE IInv'
  OBVIOUS
<1>1. InSimple = {}
  BY UnitsAssumption DEF SimpleIdle, InSimple, IInv, TypeOK
<1> QED BY <1>1, SimpleStarts DEF SimpleIdle

LEMMA SimpleWriteBackKeeps == IInv /\ SimpleWriteBack => IInv'
BY SimpleStarts DEF SimpleWriteBack

\* A tick of the pipelined unit in which the pipeline does not move.
LEMMA PipeWaits ==
  ASSUME IInv, NEW delay \in Nat,
         stageCycle' \in 0 .. NumCyclesPerStage - 1,
         stageCycle' = stageCycle + 1 - delay,
         Count(InPipeline, delay, Bubble, 0),
         UNCHANGED <<latency, numArrived, source, simpleVars, pipeline, sink>>
  PROVE  IInv'
<1> USE UnitsAssumption
<1>1. /\ due' \in [Elements -> Nat]
      /\ \A d \in InPipeline : d # Bubble => due'[d] = due[d] - 1 + delay
      /\ \A d \in Elements : d \notin InPipeline /\ d # Bubble => due'[d] = due[d]
  BY InUnits, Ticked DEF IInv
<1>2. InSimple' = InSimple /\ InPipeline' = InPipeline /\ Written' = Written
      /\ ExactlyOnce'
  BY SameElements DEF simpleVars
<1>3. TypeOK'
  BY <1>1 DEF IInv, TypeOK, simpleVars
<1>4. ASSUME curStage' >= 0
      PROVE  due'[elem'] = SimpleStages - curStage'
  <2>1. elem \in InSimple /\ elem # Bubble /\ elem \in Elements
    BY <1>4 DEF IInv, TypeOK, InSimple, Elements, Bubble, simpleVars
  <2>2. elem \notin InPipeline
    BY <2>1 DEF IInv, ExactlyOnce
  <2> QED BY <1>1, <1>4, <2>1, <2>2 DEF IInv, Schedule, simpleVars
<1>5. ASSUME NEW k \in 1 .. NumStages, pipeline'[k] # Bubble
      PROVE  due'[pipeline'[k]] = Left(k) - stageCycle'
  <2>1. pipeline[k] \in InPipeline /\ pipeline[k] # Bubble
        /\ pipeline[k] \in Elements
    BY <1>5 DEF InPipeline, IInv, TypeOK
  <2>2. due'[pipeline[k]] = due[pipeline[k]] - 1 + delay
    BY <1>1, <2>1
  <2>3. due[pipeline[k]] = Left(k) - stageCycle
    BY <2>1 DEF IInv, Schedule
  <2>4. Left(k) \in Nat /\ stageCycle \in Nat
    BY StagesLeft DEF IInv, TypeOK
  <2> QED BY <2>2, <2>3, <2>4
<1>6. Schedule'
  BY <1>4, <1>5 DEF Schedule, Left
<1>7. OnTime'
  <2> SUFFICES ASSUME NEW d \in Written PROVE due'[d] = 0
    BY <1>2 DEF OnTime
  <2>1. d \in Elements /\ d \notin InPipeline /\ d # Bubble
    BY InUnits DEF IInv, ExactlyOnce, Elements, Bubble
  <2> QED BY <1>1, <2>1 DEF IInv, OnTime
<1> QED BY <1>2, <1>3, <1>6, <1>7 DEF IInv

LEMMA PipeWaitKeeps == IInv /\ PipeWait => IInv'
<1> SUFFICES ASSUME IInv, PipeWait PROVE IInv'
  OBVIOUS
<1>1. /\ stageCycle' \in 0 .. NumCyclesPerStage - 1
      /\ stageCycle' = stageCycle + 1 - 0
  BY UnitsAssumption DEF PipeWait, StageEnds, IInv, TypeOK
<1> QED BY <1>1, PipeWaits DEF PipeWait

LEMMA PipeStallKeeps == IInv /\ PipeStall => IInv'
<1> SUFFICES ASSUME IInv, PipeStall PROVE IInv'
  OBVIOUS
<1>1. /\ stageCycle' \in 0 .. NumCyclesPerStage - 1
      /\ stageCycle' = stageCycle + 1 - NumCyclesPerStage
      /\ NumCyclesPerStage \in Nat
  BY UnitsAssumption DEF PipeStall, StageEnds, IInv, TypeOK
<1> QED BY <1>1, PipeWaits DEF PipeStall

\* A tick in which the pipeline moves, and the element at its end leaves.
LEMMA PipeMoves ==
  ASSUME IInv, StageEnds, Proceed,
         UNCHANGED <<latency, numArrived, simpleVars>>,
         \/ pipeline[NumStages] = Bubble /\ sink' = sink
         \/ pipeline[NumStages] # Bubble
            /\ sink' = Append(sink, pipeline[NumStages])
  PROVE  IInv'
<1> USE UnitsAssumption
<1> DEFINE last == pipeline[NumStages]
<1>1. PICK e : e = ForUnit(PipeLatency)
  OBVIOUS
<1>2. /\ stageCycle' = 0 /\ MoveForward(e) /\ Take(e)
      /\ Count(InPipeline, 0, e, PipeLatency)
  BY <1>1 DEF Proceed
<1>3. /\ e \in Elements \cup {Bubble}
      /\ e # Bubble => e = Started + 1 /\ Started' = e
      /\ e = Bubble => Started' = Started
      /\ source' \in Seq(Elements) /\ Len(source') <= numArrived
      /\ \A n \in 1 .. Len(source') : source'[n] = Started' + n
  BY <1>1, <1>2, Found DEF IInv
<1>4. Started \in Nat
  BY DEF Started, IInv, TypeOK
<1>5. e \notin InSimple /\ e \notin InPipeline /\ (e # Bubble => e \notin Written)
  <2>1. CASE e = Bubble
    BY <2>1 DEF InSimple, InPipeline
  <2>2. CASE e # Bubble
    <3>1. e \notin 1 .. Started
      BY <1>3, <1>4, <2>2
    <3>2. InSimple \cup InPipeline \cup Written = 1 .. Started
      BY DEF IInv, ExactlyOnce
    <3> QED BY <3>1, <3>2
  <2> QED BY <2>1, <2>2
<1>6. /\ due' \in [Elements -> Nat]
      /\ e \in Elements => due'[e] = PipeLatency
      /\ \A d \in InPipeline : d # e => due'[d] = due[d] - 1 + 0
      /\ \A d \in Elements : d \notin InPipeline /\ d # e => due'[d] = due[d]
  <2>1. PipeLatency \in Nat /\ 0 \in Nat /\ TypeOK
    BY StagesLeft DEF IInv
  <2>2. \A d \in InPipeline : d \in Elements /\ due[d] >= 1
    BY InUnits
  <2> QED BY ONLY <1>2, <2>1, <2>2, Ticked
<1>7. /\ pipeline' \in [1 .. NumStages -> Elements \cup {Bubble}]
      /\ InPipeline' = (InPipeline \ {last}) \cup ({e} \ {Bubble})
      /\ \A j, k \in 1 .. NumStages :
           pipeline'[j] = pipeline'[k] => j = k \/ pipeline'[j] = Bubble
  BY <1>2, <1>3, <1>5, PipelineMoves DEF IInv
<1>8. InSimple' = InSimple
  BY DEF InSimple, simpleVars
<1>9. stageCycle = NumCyclesPerStage - 1
  BY DEF StageEnds, IInv, TypeOK
<1>10. /\ Written' = Written \cup ({last} \ {Bubble})
       /\ sink' \in Seq(Elements)
       /\ \A m, n \in 1 .. Len(sink') : sink'[m] = sink'[n] => m = n
       /\ last # Bubble => last \in InPipeline /\ due[last] = 1
  <2>1. CASE last = Bubble
    <3>1. Written' = Written
      BY <2>1 DEF Written
    <3>2. sink \in Seq(Elements)
          /\ \A m, n \in 1 .. Len(sink) : sink[m] = sink[n] => m = n
      BY DEF IInv, TypeOK, ExactlyOnce
    <3> QED BY <2>1, <3>1, <3>2
  <2>2. CASE last # Bubble
    <3>1. NumStages \in 1 .. NumStages
      OBVIOUS
    <3>2. last \in InPipeline
      BY <2>2, <3>1 DEF InPipeline
    <3>3. last \in Elements /\ last \notin Written
      BY <3>2, InUnits DEF IInv, ExactlyOnce
    <3>4. due[last] = Left(NumStages) - stageCycle
      BY <2>2, <3>1 DEF IInv, Schedule
    <3>5. due[last] = 1
      BY <1>9, <3>4, StagesLeft
    <3> QED BY <2>2, <3>2, <3>3, <3>5, SinkGrows DEF IInv
  <2> QED BY <2>1, <2>2
<1>11. TypeOK'
  BY <1>2, <1>3, <1>6, <1>7, <1>10 DEF IInv, TypeOK, simpleVars
<1>12. ExactlyOnce'
  <2>1. InSimple' \cup InPipeline' \cup Written' = 1 .. Started'
    <3>1. InSimple \cup InPipeline \cup Written = 1 .. Started
      BY DEF IInv, ExactlyOnce
    <3>2. 1 .. Started' = (1 .. Started) \cup ({e} \ {Bubble})
      BY <1>3, <1>4
    <3>3. Bubble \notin InPipeline
      BY DEF InPipeline
    <3> HIDE DEF last
    <3> QED BY <3>1, <3>2, <3>3, <1>7, <1>8, <1>10
  <2>2. /\ InSimple' \cap InPipeline' = {}
        /\ (InSimple' \cup InPipeline') \cap Written' = {}
    <3>1. /\ InSimple \cap InPipeline = {}
          /\ (InSimple \cup InPipeline) \cap Written = {}
      BY DEF IInv, ExactlyOnce
    <3> HIDE DEF last
    <3> QED BY <3>1, <1>5, <1>7, <1>8, <1>10
  <2> QED BY <1>3, <1>7, <1>10, <2>1, <2>2 DEF ExactlyOnce
<1>13. Schedule'
  <2>1. ASSUME curStage' >= 0
        PROVE  due'[elem'] = SimpleStages - curStage'
    <3>1. elem \in InSimple /\ elem \in Elements
      BY <2>1 DEF IInv, TypeOK, InSimple, Elements, Bubble, simpleVars
    <3>2. elem \notin InPipeline /\ elem # e
      BY <1>5, <3>1 DEF IInv, ExactlyOnce
    <3> QED BY <1>6, <2>1, <3>1, <3>2 DEF IInv, Schedule, simpleVars
  <2>2. ASSUME NEW k \in 1 .. NumStages, pipeline'[k] # Bubble
        PROVE  due'[pipeline'[k]] = Left(k) - stageCycle'
    <3>1. CASE k = 1
      <4>1. pipeline'[k] = e
        BY <1>2, <3>1 DEF MoveForward
      <4> QED BY <1>2, <1>3, <1>6, <2>2, <3>1, <4>1, StagesLeft
    <3>2. CASE k # 1
      <4>1. k \in 2 .. NumStages /\ k - 1 \in 1 .. NumStages
        BY <3>2
      <4>2. pipeline'[k] = pipeline[k - 1]
        BY <1>2, <3>2 DEF MoveForward
      <4>3. pipeline[k - 1] \in InPipeline /\ pipeline[k - 1] # e
        BY <1>5, <2>2, <4>1, <4>2 DEF InPipeline
      <4>4. due'[pipeline[k - 1]] = due[pipeline[k - 1]] - 1
        <5>1. pipeline[k - 1] \in Elements
          BY <4>3, InUnits
        <5>2. due[pipeline[k - 1]] \in Nat
          BY <5>1 DEF IInv, TypeOK
        <5> QED BY <1>6, <4>3, <5>2
      <4>5. due[pipeline[k - 1]] = Left(k - 1) - stageCycle
        BY <2>2, <4>1, <4>2 DEF IInv, Schedule
      <4>6. Left(k - 1) = Left(k) + NumCyclesPerStage /\ Left(k) \in Nat
        BY <4>1, StagesLeft
      <4> QED BY <1>2, <1>9, <4>2, <4>4, <4>5, <4>6
    <3> QED BY <3>1, <3>2
  <2> QED BY <2>1, <2>2 DEF Schedule, Left
<1>14. OnTime'
  <2> SUFFICES ASSUME NEW d \in Written \cup ({last} \ {Bubble})
               PROVE  due'[d] = 0
    BY <1>10 DEF OnTime
  <2>1. d \in Elements /\ d # Bubble
    BY <1>10, InUnits DEF Elements, Bubble
  <2>2. CASE d \in Written
    <3>1. d \notin InPipeline /\ d # e
      BY <1>5, <2>1, <2>2 DEF IInv, ExactlyOnce
    <3> QED BY <1>6, <2>1, <2>2, <3>1 DEF IInv, OnTime
  <2>3. CASE d \notin Written
    <3>1. d \in InPipeline /\ d # e /\ due[d] = 1
      BY <1>5, <1>10, <2>1, <2>3
    <3> QED BY <1>6, <3>1
  <2> QED BY <2>2, <2>3
<1> QED BY <1>11, <1>12, <1>13, <1>14 DEF IInv

LEMMA PipeShiftKeeps == IInv /\ PipeShift => IInv'
BY PipeMoves DEF PipeShift

LEMMA PipeWriteBackKeeps == IInv /\ PipeWriteBack => IInv'
BY PipeMoves DEF PipeWriteBack

LEMMA StutterKeeps == IInv /\ UNCHANGED unitsVars => IInv'
<1> SUFFICES ASSUME IInv, UNCHANGED unitsVars PROVE IInv'
  OBVIOUS
<1>1. InSimple' = InSimple /\ InPipeline' = InPipeline /\ Written' = Written
      /\ ExactlyOnce'
  BY SameElements DEF unitsVars, simpleVars, pipeVars
<1> QED BY <1>1 DEF IInv, TypeOK, Schedule, OnTime, Left, unitsVars, simpleVars,
                    pipeVars

LEMMA NextIInv == IInv /\ [UnitsNext]_unitsVars => IInv'
BY ArriveKeeps, SimpleIdleKeeps, SimpleAdvanceKeeps, SimpleWriteBackKeeps,
   SimpleStallKeeps, PipeWaitKeeps, PipeShiftKeeps, PipeWriteBackKeeps,
   PipeStallKeeps, StutterKeeps
DEF UnitsNext, SimpleTick, PipeTick

-----------------------------------------------------------------------------
(* The theorems.                                                           *)

\* The invariant holds in every reachable state, however many stages the units
\* have and however many elements arrive.
THEOREM Invariance == UnitsSpec => []IInv
<1>1. UnitsInit => IInv
  BY InitIInv
<1>2. IInv /\ [UnitsNext]_unitsVars => IInv'
  BY NextIInv
<1> QED BY <1>1, <1>2, PTL DEF UnitsSpec

\* The state of the units is well formed: in particular the pipeline keeps its
\* NumStages stages, and the count of cycles stays within a stage.
THEOREM TypeCorrectness == UnitsSpec => []TypeOK
<1>1. IInv => TypeOK
  BY DEF IInv
<1> QED BY Invariance, <1>1, PTL

\* The two units execute every element that leaves the source exactly once.
THEOREM Execution == UnitsSpec => []ExactlyOnce
<1>1. IInv => ExactlyOnce
  BY DEF IInv
<1> QED BY Invariance, <1>1, PTL

\* An element is written back exactly when its latency has passed, the time
\* that its unit was stalled not counted.
THEOREM Punctuality == UnitsSpec => []OnTime
<1>1. IInv => OnTime
  BY DEF IInv
<1> QED BY Invariance, <1>1, PTL

=============================================================================
