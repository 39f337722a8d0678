--------------------------- MODULE ExegesisProofs -----------------------------
(***************************************************************************)
(* Proofs about three parts of src/exegesis that compute without the       *)
(* simulator: the counters that measure instructions over one libpfm that  *)
(* any threads share, the codec of x86 instructions, for any database of   *)
(* specifications and any bytes, and the program that computes             *)
(* itineraries, for any microarchitecture, instructions and solutions.     *)
(***************************************************************************)
EXTENDS PerfSubsystem, X86Codec, Itineraries, TLAPS, FiniteSetTheorems,
        SequenceTheorems, WellFoundedInduction

PerfSpec == PerfInit /\ [][PerfNext]_perfVars

-----------------------------------------------------------------------------
(* Where a thread holds the mutex, and where its object is counted.        *)

Holding == {"count in", "initialize", "unlock in", "count out", "terminate", "unlock out"}
Using == {"info", "clean up", "add events", "start", "call", "read", "destroy"}
Counting == {"initialize", "unlock in", "count out"} \cup Using
Labels == {"idle"} \cup Holding \cup Using

Counted == {t \in Threads : pc[t] \in Counting}

\* The counter is the number of objects.  Between the change of the counter
\* and that of the library the thread that makes them holds the mutex, and the
\* object is the only one or was the last one.
LibraryInv ==
  /\ pc \in [Threads -> Labels]
  /\ IsFiniteSet(Counted) /\ refcount_ = Cardinality(Counted)
  /\ \A t \in Threads : pc[t] \in Holding <=> refcount_mutex_ = t
  /\ \A t \in Threads : pc[t] = "initialize" => Counted = {t} /\ ~ libpfm
  /\ \A t \in Threads : pc[t] = "terminate" => Counted = {} /\ libpfm
  /\ Counted # {} /\ (\A t \in Threads : pc[t] # "initialize") => libpfm
  /\ Counted = {} /\ (\A t \in Threads : pc[t] # "terminate") => ~ libpfm

\* Two threads never hold the mutex.
LEMMA OneHolder ==
  ASSUME LibraryInv, NEW t \in Threads, pc[t] \in Holding,
         NEW u \in Threads, pc[u] \in Holding
  PROVE  t = u
BY DEF LibraryInv

\* What a step of one thread does to the objects that are counted.
LEMMA CountedAfter ==
  ASSUME LibraryInv, NEW t \in Threads, NEW label, GoTo(t, label), label \in Labels
  PROVE  /\ pc' \in [Threads -> Labels]
         /\ pc'[t] = label
         /\ \A u \in Threads : u # t => pc'[u] = pc[u]
         /\ Counted' = IF label \in Counting THEN Counted \cup {t} ELSE Counted \ {t}
         /\ t \in Counted <=> pc[t] \in Counting
<1>1. /\ pc' \in [Threads -> Labels] /\ pc'[t] = label
      /\ \A u \in Threads : u # t => pc'[u] = pc[u]
  BY DEF GoTo, LibraryInv
<1> QED BY <1>1 DEF Counted

\* A step that neither changes whether the object of t is counted nor takes t
\* into or out of the two critical places.
LEMMA KeepsCount ==
  ASSUME LibraryInv, NEW t \in Threads, NEW label \in Labels, GoTo(t, label),
         label \in Counting <=> pc[t] \in Counting,
         pc[t] \notin {"initialize", "terminate"},
         label \notin {"initialize", "terminate"},
         libpfm' = libpfm, refcount_' = refcount_,
         \A u \in Threads : pc'[u] \in Holding <=> refcount_mutex_' = u
  PROVE  LibraryInv'
<1>1. /\ pc' \in [Threads -> Labels] /\ pc'[t] = label
      /\ \A u \in Threads : u # t => pc'[u] = pc[u]
      /\ Counted' = Counted
  BY CountedAfter DEF Counted
<1> QED BY <1>1 DEF LibraryInv

LEMMA PerfInitInv == PerfInit => LibraryInv
<1> SUFFICES ASSUME PerfInit PROVE LibraryInv
  OBVIOUS
<1>1. /\ pc = [t \in Threads |-> "idle"] /\ refcount_ = 0 /\ refcount_mutex_ = "free"
      /\ libpfm = FALSE
  BY DEF PerfInit
<1>2. Counted = {}
  BY <1>1 DEF Counted, Counting, Using
<1>3. IsFiniteSet(Counted) /\ refcount_ = Cardinality(Counted)
  BY <1>1, <1>2, FS_EmptySet
<1>4. \A t \in Threads : pc[t] = "idle" /\ refcount_mutex_ # t
  BY <1>1, PerfAssumption
<1> QED BY <1>1, <1>2, <1>3, <1>4 DEF LibraryInv, Labels, Holding

LEMMA LockKeeps ==
  ASSUME LibraryInv, NEW t \in Threads, Construct(t) \/ Destroy(t)
  PROVE  LibraryInv'
<1>1. /\ refcount_mutex_ = "free" /\ refcount_mutex_' = t
      /\ libpfm' = libpfm /\ refcount_' = refcount_
      /\ \/ pc[t] = "idle" /\ GoTo(t, "count in")
         \/ pc[t] = "destroy" /\ GoTo(t, "count out")
  BY DEF Construct, Destroy, Lock
<1>2. PICK label \in {"count in", "count out"} :
        /\ GoTo(t, label)
        /\ label \in Counting <=> pc[t] \in Counting
        /\ pc[t] \notin {"initialize", "terminate"}
  BY <1>1 DEF Counting, Using
<1>3. label \in Labels /\ label \in Holding /\ label \notin {"initialize", "terminate"}
  BY DEF Labels, Holding
<1>4. \A u \in Threads : pc[u] \notin Holding
  BY <1>1, PerfAssumption DEF LibraryInv
<1>5. \A u \in Threads : pc'[u] \in Holding <=> refcount_mutex_' = u
  BY <1>1, <1>2, <1>3, <1>4, CountedAfter
<1> QED BY <1>1, <1>2, <1>3, <1>5, KeepsCount

LEMMA UnlockKeeps ==
  ASSUME LibraryInv, NEW t \in Threads, Unlock(t)
  PROVE  LibraryInv'
<1>1. /\ refcount_mutex_' = "free"
      /\ libpfm' = libpfm /\ refcount_' = refcount_
      /\ \/ pc[t] = "unlock in" /\ GoTo(t, "info")
         \/ pc[t] = "unlock out" /\ GoTo(t, "idle")
  BY DEF Unlock
<1>2. PICK label \in {"info", "idle"} :
        /\ GoTo(t, label)
        /\ label \in Counting <=> pc[t] \in Counting
        /\ pc[t] \notin {"initialize", "terminate"} /\ pc[t] \in Holding
  BY <1>1 DEF Counting, Using, Holding
<1>3. label \in Labels /\ label \notin Holding /\ label \notin {"initialize", "terminate"}
  BY DEF Labels, Holding, Using
<1>4. \A u \in Threads : u # t => pc[u] \notin Holding
  BY <1>2, OneHolder
<1>5. \A u \in Threads : pc'[u] \in Holding <=> refcount_mutex_' = u
  BY <1>1, <1>2, <1>3, <1>4, CountedAfter, PerfAssumption
<1> QED BY <1>1, <1>2, <1>3, <1>5, KeepsCount

LEMMA CountInKeeps ==
  ASSUME LibraryInv, NEW t \in Threads, CountIn(t)
  PROVE  LibraryInv'
<1>1. /\ pc[t] = "count in" /\ refcount_' = refcount_ + 1
      /\ libpfm' = libpfm /\ refcount_mutex_' = refcount_mutex_
      /\ \/ refcount_ = 0 /\ GoTo(t, "initialize")
         \/ refcount_ # 0 /\ GoTo(t, "unlock in")
  BY DEF CountIn
<1>2. t \notin Counted /\ pc[t] \in Holding
  BY <1>1 DEF Counted, Counting, Using, Holding
<1>3. PICK label \in {"initialize", "unlock in"} :
        GoTo(t, label) /\ (label = "initialize" <=> refcount_ = 0)
  BY <1>1
<1>4. label \in Labels /\ label \in Holding /\ label \in Counting /\ label # "terminate"
  BY DEF Labels, Holding, Counting
<1>5. /\ pc' \in [Threads -> Labels] /\ pc'[t] = label
      /\ \A u \in Threads : u # t => pc'[u] = pc[u]
      /\ Counted' = Counted \cup {t}
  BY <1>3, <1>4, CountedAfter
<1>6. IsFiniteSet(Counted') /\ refcount_' = Cardinality(Counted')
  <2>1. IsFiniteSet(Counted) /\ refcount_ = Cardinality(Counted)
    BY DEF LibraryInv
  <2> QED BY <2>1, <1>1, <1>2, <1>5, FS_AddElement
<1>7. refcount_ = 0 <=> Counted = {}
  BY FS_EmptySet DEF LibraryInv
<1>8. \A u \in Threads : pc'[u] \in Holding <=> refcount_mutex_' = u
  BY <1>1, <1>2, <1>4, <1>5 DEF LibraryInv
\* While t holds the mutex no other thread is between the two changes.
<1>9. \A u \in Threads : u # t => pc[u] \notin Holding
  BY <1>2, OneHolder
<1>10. \A u \in Threads : pc[u] \notin {"initialize", "terminate"}
  BY <1>1, <1>9 DEF Holding
<1>11. IF Counted = {} THEN ~ libpfm ELSE libpfm
  BY <1>10 DEF LibraryInv
<1>12. \A u \in Threads : pc'[u] = "initialize" => u = t /\ Counted = {}
  BY <1>3, <1>5, <1>7, <1>10
<1>13. \A u \in Threads : pc'[u] # "terminate"
  BY <1>4, <1>5, <1>10
<1>14. (\A u \in Threads : pc'[u] # "initialize") => Counted # {}
  BY <1>3, <1>5, <1>7
<1> QED BY <1>1, <1>5, <1>6, <1>8, <1>11, <1>12, <1>13, <1>14 DEF LibraryInv

LEMMA CountOutKeeps ==
  ASSUME LibraryInv, NEW t \in Threads, CountOut(t)
  PROVE  LibraryInv'
<1>1. /\ pc[t] = "count out" /\ refcount_' = refcount_ - 1
      /\ libpfm' = libpfm /\ refcount_mutex_' = refcount_mutex_
      /\ \/ refcount_ = 1 /\ GoTo(t, "terminate")
         \/ refcount_ # 1 /\ GoTo(t, "unlock out")
  BY DEF CountOut
<1>2. t \in Counted /\ pc[t] \in Holding
  BY <1>1 DEF Counted, Counting, Holding
<1>3. PICK label :
        /\ label \in {"terminate", "unlock out"}
        /\ GoTo(t, label) /\ (label = "terminate" <=> refcount_ = 1)
  BY <1>1
<1>4. label \in Labels /\ label \in Holding /\ label \notin Counting /\ label # "initialize"
  BY <1>3 DEF Labels, Holding, Counting, Using
<1>5. /\ pc' \in [Threads -> Labels] /\ pc'[t] = label
      /\ \A u \in Threads : u # t => pc'[u] = pc[u]
      /\ Counted' = Counted \ {t}
  BY <1>3, <1>4, CountedAfter
<1>6. IsFiniteSet(Counted') /\ refcount_' = Cardinality(Counted')
  <2>1. IsFiniteSet(Counted) /\ refcount_ = Cardinality(Counted)
    BY DEF LibraryInv
  <2> QED BY <2>1, <1>1, <1>2, <1>5, FS_RemoveElement
<1>7. refcount_ = 1 <=> Counted' = {}
  <2>1. PICK left : left = Counted'
    OBVIOUS
  <2>2. IsFiniteSet(left) /\ Cardinality(left) = refcount_ - 1
    BY <1>1, <1>6, <2>1
  <2>3. Cardinality(left) = 0 <=> left = {}
    BY <2>2, FS_EmptySet
  <2>4. refcount_ \in Nat
    BY FS_CardinalityType DEF LibraryInv
  <2> QED BY <2>1, <2>2, <2>3, <2>4
<1>8. \A u \in Threads : pc'[u] \in Holding <=> refcount_mutex_' = u
  BY <1>1, <1>2, <1>4, <1>5 DEF LibraryInv
<1>9. \A u \in Threads : u # t => pc[u] \notin Holding
  BY <1>2, OneHolder
<1>10. \A u \in Threads : pc[u] \notin {"initialize", "terminate"}
  BY <1>1, <1>9 DEF Holding
<1>11. libpfm
  BY <1>2, <1>10 DEF LibraryInv
<1>12. \A u \in Threads : pc'[u] = "terminate" => Counted' = {}
  BY <1>3, <1>5, <1>7, <1>10
<1>13. \A u \in Threads : pc'[u] # "initialize"
  BY <1>4, <1>5, <1>10
<1>14. (\A u \in Threads : pc'[u] # "terminate") => Counted' # {}
  BY <1>3, <1>5, <1>7
<1> QED BY <1>1, <1>5, <1>6, <1>8, <1>11, <1>12, <1>13, <1>14 DEF LibraryInv

LEMMA InitializeKeeps ==
  ASSUME LibraryInv, NEW t \in Threads, Initialize(t)
  PROVE  LibraryInv'
<1>1. /\ pc[t] = "initialize" /\ GoTo(t, "unlock in") /\ libpfm' = TRUE
      /\ refcount_' = refcount_ /\ refcount_mutex_' = refcount_mutex_
  BY DEF Initialize
<1>2. "unlock in" \in Labels /\ "unlock in" \in Counting /\ "unlock in" \in Holding
  BY DEF Labels, Counting, Holding
<1>3. pc[t] \in Counting /\ pc[t] \in Holding
  BY <1>1 DEF Counting, Holding
<1>4. /\ pc' \in [Threads -> Labels] /\ pc'[t] = "unlock in"
      /\ \A u \in Threads : u # t => pc'[u] = pc[u]
      /\ Counted' = Counted /\ Counted = {t}
  BY <1>1, <1>2, <1>3, CountedAfter DEF LibraryInv
<1>5. \A u \in Threads : pc'[u] \in Holding <=> refcount_mutex_' = u
  BY <1>1, <1>2, <1>3, <1>4 DEF LibraryInv
<1>6. \A u \in Threads : pc'[u] \notin {"initialize", "terminate"}
  BY <1>3, <1>4, OneHolder DEF Holding
<1> QED BY <1>1, <1>4, <1>5, <1>6 DEF LibraryInv

LEMMA TerminateKeeps ==
  ASSUME LibraryInv, NEW t \in Threads, Terminate(t)
  PROVE  LibraryInv'
<1>1. /\ pc[t] = "terminate" /\ GoTo(t, "unlock out") /\ libpfm' = FALSE
      /\ refcount_' = refcount_ /\ refcount_mutex_' = refcount_mutex_
  BY DEF Terminate
<1>2. "unlock out" \in Labels /\ "unlock out" \notin Counting /\ "unlock out" \in Holding
  BY DEF Labels, Counting, Holding, Using
<1>3. pc[t] \notin Counting /\ pc[t] \in Holding
  BY <1>1 DEF Counting, Holding, Using
<1>4. /\ pc' \in [Threads -> Labels] /\ pc'[t] = "unlock out"
      /\ \A u \in Threads : u # t => pc'[u] = pc[u]
      /\ Counted' = Counted /\ Counted = {}
  BY <1>1, <1>2, <1>3, CountedAfter DEF LibraryInv
<1>5. \A u \in Threads : pc'[u] \in Holding <=> refcount_mutex_' = u
  BY <1>1, <1>2, <1>3, <1>4 DEF LibraryInv
<1>6. \A u \in Threads : pc'[u] \notin {"initialize", "terminate"}
  BY <1>3, <1>4, OneHolder DEF Holding
<1> QED BY <1>1, <1>4, <1>5, <1>6 DEF LibraryInv

\* The steps between the constructor and the destructor.
LEMMA UseKeeps ==
  ASSUME LibraryInv, NEW t \in Threads,
         \/ Info(t) \/ CleanUp(t) \/ AddEvents(t) \/ StartCollecting(t)
         \/ Call(t) \/ StopAndReadCounters(t)
  PROVE  LibraryInv'
<1>1. /\ pc[t] \in Using
      /\ \E label \in Using : GoTo(t, label)
      /\ libpfm' = libpfm /\ refcount_' = refcount_ /\ refcount_mutex_' = refcount_mutex_
  BY DEF Info, CleanUp, AddEvents, StartCollecting, Call, StopAndReadCounters, Using, library
<1>2. PICK label \in Using : GoTo(t, label)
  BY <1>1
<1>3. \A l \in Using : /\ l \in Labels /\ l \in Counting /\ l \notin Holding
                       /\ l \notin {"initialize", "terminate"}
  BY DEF Using, Labels, Counting, Holding
<1>4. \A u \in Threads : pc'[u] \in Holding <=> refcount_mutex_' = u
  BY <1>1, <1>2, <1>3, CountedAfter DEF LibraryInv
<1> QED BY <1>1, <1>2, <1>3, <1>4, KeepsCount

LEMMA PerfNextInv == LibraryInv /\ [PerfNext]_perfVars => LibraryInv'
<1> SUFFICES ASSUME LibraryInv, [PerfNext]_perfVars PROVE LibraryInv'
  OBVIOUS
<1>1. CASE UNCHANGED perfVars
  BY <1>1 DEF perfVars, LibraryInv, Counted
<1>2. CASE PerfNext
  BY <1>2, LockKeeps, UnlockKeeps, CountInKeeps, CountOutKeeps, InitializeKeeps,
     TerminateKeeps, UseKeeps DEF PerfNext
<1> QED BY <1>1, <1>2

LEMMA ReadyWhenUsed == LibraryInv => LibraryIsReady
<1> SUFFICES ASSUME LibraryInv PROVE LibraryIsReady
  OBVIOUS
<1>1. ASSUME NEW t \in Threads, UsesLibrary(t) PROVE libpfm
  <2>1. t \in Counted /\ pc[t] # "initialize"
    BY <1>1 DEF UsesLibrary, Counted, Counting, Using
  <2>2. \A u \in Threads : pc[u] # "initialize"
    BY <2>1 DEF LibraryInv
  <2> QED BY <2>1, <2>2 DEF LibraryInv
<1>2. ASSUME \A t \in Threads : pc[t] = "idle" PROVE ~ libpfm /\ refcount_ = 0
  <2>1. Counted = {}
    BY <1>2 DEF Counted, Counting, Using
  <2> QED BY <1>2, <2>1, FS_EmptySet DEF LibraryInv
<1> QED BY <1>1, <1>2 DEF LibraryIsReady

\* libpfm is initialized whenever a thread calls it and terminated when no
\* object is left, for any threads, finitely many or not, that construct and
\* destroy their objects at any time (ScopedLibPfmInitialization).
THEOREM LibraryIsAlwaysReady == PerfSpec => []LibraryIsReady
BY PerfInitInv, PerfNextInv, ReadyWhenUsed, PTL DEF PerfSpec

-----------------------------------------------------------------------------
(* The sum of a function over a finite set.  MapThenSumSet computes it by  *)
(* recursion on the subsets, from any fixed point of its equation: on a    *)
(* finite set all of them agree, so that one is enough to know the sum.    *)

LessThan == {ss \in Nat \X Nat : ss[1] < ss[2]}

LEMMA LessThanIsWellFounded == IsWellFoundedOn(LessThan, Nat)
BY NatLessThanWellFounded, Zenon DEF OpToRel, LessThan

LEMMA LeastExists ==
  ASSUME NEW S \in SUBSET Nat, S # {}
  PROVE  \E m \in S : \A e \in S : m <= e
<1>1. PICK m \in S : \A e \in S : ~ (<<e, m>> \in LessThan)
  <2>1. PICK e0 \in S : TRUE
    OBVIOUS
  <2> QED BY <2>1, LessThanIsWellFounded, WFMin
<1>2. ASSUME NEW e \in S PROVE m <= e
  <2>1. e \in Nat /\ m \in Nat /\ ~ (<<e, m>> \in LessThan)
    BY <1>1
  <2>2. ~ (e < m)
    BY <2>1 DEF LessThan
  <2> QED BY <2>1, <2>2
<1> QED BY <1>2

Chosen(s) == CHOOSE x \in s : TRUE

\* f gives the sum of g over each subset of D.
Sums(g, D, f) ==
  \A s \in SUBSET D : f[s] = IF s = {} THEN 0 ELSE g[Chosen(s)] + f[s \ {Chosen(s)}]

LEMMA OneSum ==
  ASSUME NEW D, IsFiniteSet(D), NEW g, NEW f, NEW h, Sums(g, D, f), Sums(g, D, h)
  PROVE  f[D] = h[D]
<1> DEFINE Differ == {Cardinality(s) : s \in {r \in SUBSET D : f[r] # h[r]}}
<1> SUFFICES ASSUME f[D] # h[D] PROVE FALSE
  OBVIOUS
<1>1. Differ \in SUBSET Nat /\ Differ # {}
  BY FS_Subset, FS_CardinalityType
<1>2. PICK m \in Differ : \A e \in Differ : m <= e
  BY <1>1, LeastExists
<1>3. PICK s \in SUBSET D : f[s] # h[s] /\ Cardinality(s) = m
  OBVIOUS
<1>4. s # {}
  BY <1>3 DEF Sums
<1> DEFINE x == Chosen(s)
           r == s \ {x}
<1>5. x \in s
  BY <1>4 DEF Chosen
<1>6. IsFiniteSet(s)
  BY FS_Subset
<1>7. Cardinality(r) = Cardinality(s) - 1 /\ Cardinality(s) \in Nat
  BY <1>5, <1>6, FS_RemoveElement, FS_CardinalityType
<1>8. r \in SUBSET D
  OBVIOUS
<1>9. f[r] = h[r]
  <2>1. ~ (m <= Cardinality(r))
    BY <1>3, <1>7
  <2> QED BY <1>2, <1>8, <2>1
<1>10. f[s] = g[x] + f[r] /\ h[s] = g[x] + h[r]
  BY <1>4, Zenon DEF Sums
<1> QED BY <1>3, <1>9, <1>10

\* Counters of distinct events, each of which has counted the code once.
CountedOnce(seq) ==
  /\ IsFiniteSet(DOMAIN seq)
  /\ \A i \in DOMAIN seq : seq[i].count = 1
  /\ \A i, j \in DOMAIN seq : seq[i].event = seq[j].event => i = j

CountsEvent(seq, event, s) == \E i \in s : seq[i].event = event
SumFor(seq, event) ==
  MapThenSumSet(LAMBDA i : IF seq[i].event = event THEN seq[i].count ELSE 0, DOMAIN seq)

LEMMA SumOfEvent ==
  ASSUME NEW seq, CountedOnce(seq), NEW event
  PROVE  SumFor(seq, event) = IF CountsEvent(seq, event, DOMAIN seq) THEN 1 ELSE 0
<1> DEFINE D == DOMAIN seq
           Step(s, f) == IF s = {} THEN 0
                         ELSE (IF seq[CHOOSE x \in s : TRUE].event = event
                               THEN seq[CHOOSE x \in s : TRUE].count ELSE 0)
                              + f[s \ {CHOOSE x \in s : TRUE}]
           Is(f) == f = [s \in SUBSET D |-> Step(s, f)]
           it == CHOOSE f : Is(f)
           g == [i \in D |-> IF seq[i].event = event THEN seq[i].count ELSE 0]
           h == [s \in SUBSET D |-> IF CountsEvent(seq, event, s) THEN 1 ELSE 0]
<1>1. SumFor(seq, event) = it[D]
  BY DEF SumFor, MapThenSumSet, MapThenFoldSet
<1>2. ASSUME NEW s \in SUBSET D PROVE h[s] = Step(s, h)
  <2>1. CASE s = {}
    BY <2>1 DEF CountsEvent
  <2>2. CASE s # {}
    <3> DEFINE y == CHOOSE x \in s : TRUE
               r == s \ {y}
    <3>1. y \in s /\ y \in D /\ r \in SUBSET D
      BY <2>2
    <3>2. Step(s, h) = (IF seq[y].event = event THEN 1 ELSE 0) + h[r]
      BY <2>2, <3>1 DEF CountedOnce
    <3>3. h[r] = IF CountsEvent(seq, event, r) THEN 1 ELSE 0
      BY <3>1
    <3>4. h[s] = IF CountsEvent(seq, event, s) THEN 1 ELSE 0
      OBVIOUS
    <3> HIDE DEF h, Step, y
    <3>5. CASE seq[y].event = event
      <4>1. CountsEvent(seq, event, s) /\ ~ CountsEvent(seq, event, r)
        BY <3>1, <3>5 DEF CountsEvent, CountedOnce
      <4> QED BY <3>2, <3>3, <3>4, <3>5, <4>1
    <3>6. CASE seq[y].event # event
      <4>1. CountsEvent(seq, event, s) <=> CountsEvent(seq, event, r)
        BY <3>1, <3>6 DEF CountsEvent
      <4> QED BY <3>2, <3>3, <3>4, <3>6, <4>1
    <3> QED BY <3>5, <3>6
  <2> QED BY <2>1, <2>2
<1>3. Is(h)
  BY <1>2
<1>4. Is(it)
  <2> HIDE DEF Is, h
  <2> QED BY <1>3
<1>5. ASSUME NEW f, Is(f) PROVE Sums(g, D, f)
  <2>1. SUFFICES ASSUME NEW s \in SUBSET D
                 PROVE  f[s] = IF s = {} THEN 0 ELSE g[Chosen(s)] + f[s \ {Chosen(s)}]
    BY DEF Sums
  <2>2. f[s] = Step(s, f)
    <3> HIDE DEF Step
    <3> QED BY <1>5
  <2>3. s # {} => Chosen(s) \in D
    BY DEF Chosen
  <2> QED BY <2>2, <2>3 DEF Chosen
<1>6. Sums(g, D, h) /\ Sums(g, D, it) /\ IsFiniteSet(D)
  BY <1>3, <1>4, <1>5, Zenon DEF CountedOnce
<1>7. it[D] = h[D]
  <2> HIDE DEF it, h, g, D
  <2> QED BY <1>6, OneSum
<1> QED BY <1>1, <1>7
-----------------------------------------------------------------------------
(* What the counters of the main thread hold at each step of the loop of   *)
(* EvaluateAssemblyString, and what its result holds of the categories     *)
(* that the loop is done with.                                             *)

Categories == 1 .. Len(EventCategories)
Listing(event, k) == {c \in 1 .. k : event \in Range(EventCategories[c])}
\* The result after the first k categories.
Through(k) == [event \in Events |-> Cardinality(Listing(event, k))]

Counter(event, enabled, count) == [event |-> event, enabled |-> enabled, count |-> count]

Opened(k, enabled, count) ==
  [i \in DOMAIN EventCategories[k] |-> Counter(EventCategories[k][i], enabled, count)]

Looping == {"clean up", "add events", "start", "call", "read"}

CountersInv ==
  /\ DOMAIN counters = Threads /\ counters = [t \in Threads |-> counters[t]]
  /\ category = [t \in Threads |-> category[t]]
  /\ result = [t \in Threads |-> result[t]]
  /\ pc[Main] \in {"count in", "initialize", "unlock in", "info"} => result[Main] = NoCounts
  /\ pc[Main] \in Looping => /\ category[Main] \in Categories
                             /\ result[Main] = Through(category[Main] - 1)
  /\ pc[Main] = "add events" => counters[Main] = << >>
  /\ pc[Main] = "start" => counters[Main] = Opened(category[Main], FALSE, 0)
  /\ pc[Main] = "call" => counters[Main] = Opened(category[Main], TRUE, 0)
  /\ pc[Main] = "read" => counters[Main] = Opened(category[Main], TRUE, 1)
  /\ pc[Main] = "destroy" => result[Main] = Through(Len(EventCategories))

LEMMA CategoriesType ==
  /\ Len(EventCategories) \in Nat /\ Len(EventCategories) > 0
  /\ DOMAIN EventCategories = Categories
  /\ \A c \in Categories : /\ EventCategories[c] \in Seq(Events)
                           /\ DOMAIN EventCategories[c] = 1 .. Len(EventCategories[c])
                           /\ Len(EventCategories[c]) \in Nat
                           /\ IsInjective(EventCategories[c])
BY PerfAssumption DEF Categories

\* Record updates, by way of the functions that the records are.
LEMMA CounterAsFunction ==
  ASSUME NEW event, NEW enabled, NEW count
  PROVE  Counter(event, enabled, count)
           = [x \in {"event", "enabled", "count"} |->
                IF x = "event" THEN event ELSE IF x = "enabled" THEN enabled ELSE count]
BY DEF Counter

LEMMA CounterEnabled ==
  ASSUME NEW event, NEW enabled, NEW count, NEW r, r = Counter(event, enabled, count), NEW v
  PROVE  [r EXCEPT !.enabled = v] = Counter(event, v, count)
<1>1. [r EXCEPT !.enabled = v]
        = [x \in {"event", "enabled", "count"} |->
             IF x = "event" THEN event ELSE IF x = "enabled" THEN v ELSE count]
  BY CounterAsFunction
<1> QED BY <1>1, CounterAsFunction

LEMMA CounterCounts ==
  ASSUME NEW event, NEW enabled, NEW count, NEW r, r = Counter(event, enabled, count), NEW v
  PROVE  [r EXCEPT !.count = v] = Counter(event, enabled, v)
<1>1. [r EXCEPT !.count = v]
        = [x \in {"event", "enabled", "count"} |->
             IF x = "event" THEN event ELSE IF x = "enabled" THEN enabled ELSE v]
  BY CounterAsFunction
<1> QED BY <1>1, CounterAsFunction

LEMMA NoneListed == Through(0) = NoCounts
<1>1. \A event : Listing(event, 0) = {}
  BY DEF Listing
<1> QED BY <1>1, FS_EmptySet DEF Through, NoCounts

\* One more category, read with counters that have counted the code once.
LEMMA OneMoreCategory ==
  ASSUME NEW k \in Categories, NEW seq, seq = Opened(k, TRUE, 1), NEW event
  PROVE  Cardinality(Listing(event, k))
           = Cardinality(Listing(event, k - 1)) + SumFor(seq, event)
<1>1. k \in Nat /\ k > 0 /\ k - 1 \in Nat
  BY CategoriesType DEF Categories
<1>2. CountedOnce(seq)
  <2>1. DOMAIN seq = 1 .. Len(EventCategories[k]) /\ Len(EventCategories[k]) \in Nat
    BY CategoriesType DEF Opened
  <2>2. IsFiniteSet(DOMAIN seq)
    <3>1. PICK last \in Nat : DOMAIN seq = 1 .. last
      BY <2>1
    <3>2. IsFiniteSet(1 .. last)
      BY <3>1, FS_Interval
    <3> QED BY <3>1, <3>2
  <2>3. \A i \in DOMAIN seq : seq[i].count = 1 /\ seq[i].event = EventCategories[k][i]
    BY DEF Opened, Counter
  <2>4. IsInjective(EventCategories[k]) /\ DOMAIN seq = DOMAIN EventCategories[k]
    BY CategoriesType DEF Opened
  <2>5. \A i, j \in DOMAIN seq : seq[i].event = seq[j].event => i = j
    <3> SUFFICES ASSUME NEW i \in DOMAIN seq, NEW j \in DOMAIN seq,
                        seq[i].event = seq[j].event
                 PROVE  i = j
      OBVIOUS
    <3>1. EventCategories[k][i] = EventCategories[k][j]
      BY <2>3
    <3> QED BY <2>4, <3>1 DEF IsInjective
  <2> QED BY <2>2, <2>3, <2>5 DEF CountedOnce
<1>3. CountsEvent(seq, event, DOMAIN seq) <=> event \in Range(EventCategories[k])
  BY DEF CountsEvent, Opened, Counter, Range
<1>4. IsFiniteSet(Listing(event, k - 1)) /\ Cardinality(Listing(event, k - 1)) \in Nat
  <2>1. IsFiniteSet(1 .. (k - 1)) /\ Listing(event, k - 1) \subseteq 1 .. (k - 1)
    BY <1>1, FS_Interval DEF Listing
  <2> QED BY <2>1, FS_Subset, FS_CardinalityType
<1>5. k \notin Listing(event, k - 1)
  BY <1>1 DEF Listing
<1>6. Listing(event, k) = IF event \in Range(EventCategories[k])
                          THEN Listing(event, k - 1) \cup {k} ELSE Listing(event, k - 1)
  BY <1>1 DEF Listing
<1>7. CASE event \in Range(EventCategories[k])
  <2>1. Cardinality(Listing(event, k)) = Cardinality(Listing(event, k - 1)) + 1
    BY <1>4, <1>5, <1>6, <1>7, FS_AddElement
  <2> QED BY <1>2, <1>3, <1>7, <2>1, SumOfEvent
<1>8. CASE event \notin Range(EventCategories[k])
  <2>1. SumFor(seq, event) = 0
    BY <1>2, <1>3, <1>8, SumOfEvent
  <2>2. Listing(event, k) = Listing(event, k - 1)
    BY <1>6, <1>8
  <2>3. PICK n \in Nat : n = Cardinality(Listing(event, k - 1))
    BY <1>4
  <2>4. Cardinality(Listing(event, k)) = n
    BY <2>2, <2>3
  <2>5. n + 0 = n
    BY <2>3
  <2> QED BY <2>1, <2>3, <2>4, <2>5, Zenon
<1> QED BY <1>7, <1>8

LEMMA CountersInit == PerfInit => CountersInv
<1> SUFFICES ASSUME PerfInit PROVE CountersInv
  OBVIOUS
<1>1. /\ counters = [t \in Threads |-> << >>] /\ category = [t \in Threads |-> 0]
      /\ result = [t \in Threads |-> NoCounts] /\ pc = [t \in Threads |-> "idle"]
  BY DEF PerfInit
<1>2. pc[Main] = "idle"
  BY <1>1, PerfAssumption
<1> QED BY <1>1, <1>2 DEF CountersInv, Looping

\* What another thread does leaves the main thread where it is.
LEMMA OthersKeepCounters ==
  ASSUME CountersInv, NEW t \in Threads, t # Main,
         pc'[Main] = pc[Main],
         counters' = [counters EXCEPT ![t] = counters'[t]],
         category' = [category EXCEPT ![t] = category'[t]],
         result' = [result EXCEPT ![t] = result'[t]]
  PROVE  CountersInv'
<1>1. /\ counters'[Main] = counters[Main] /\ category'[Main] = category[Main]
      /\ result'[Main] = result[Main]
      /\ DOMAIN counters' = Threads /\ counters' = [u \in Threads |-> counters'[u]]
      /\ category' = [u \in Threads |-> category'[u]]
      /\ result' = [u \in Threads |-> result'[u]]
  <2>1. \A f, g, v : f = [u \in Threads |-> f[u]] /\ g = [f EXCEPT ![t] = v]
                     => /\ g = [u \in Threads |-> g[u]] /\ DOMAIN g = Threads
                        /\ \A u \in Threads : u # t => g[u] = f[u]
    OBVIOUS
  <2>2. /\ counters = [u \in Threads |-> counters[u]]
        /\ category = [u \in Threads |-> category[u]]
        /\ result = [u \in Threads |-> result[u]]
    BY DEF CountersInv
  <2> QED BY <2>1, <2>2, PerfAssumption
<1> QED BY <1>1 DEF CountersInv

\* A step that changes one entry of each of the three, if any.
Changes(t) ==
  /\ counters' = [counters EXCEPT ![t] = counters'[t]]
  /\ category' = [category EXCEPT ![t] = category'[t]]
  /\ result' = [result EXCEPT ![t] = result'[t]]

LEMMA StepsChangeOneThread ==
  ASSUME CountersInv, LibraryInv, NEW t \in Threads,
         \/ Construct(t) \/ CountIn(t) \/ Initialize(t)
         \/ Destroy(t) \/ CountOut(t) \/ Terminate(t) \/ Unlock(t)
         \/ Info(t) \/ CleanUp(t) \/ AddEvents(t) \/ StartCollecting(t)
         \/ (t # Main /\ Call(t)) \/ StopAndReadCounters(t)
  PROVE  Changes(t) /\ \A u \in Threads : u # t => pc'[u] = pc[u]
<1>1. PICK label : pc' = [pc EXCEPT ![t] = label]
  BY DEF GoTo, Construct, CountIn, Initialize, Destroy, CountOut, Terminate, Unlock,
     Info, CleanUp, AddEvents, StartCollecting, Call, StopAndReadCounters
<1>2. \A u \in Threads : u # t => pc'[u] = pc[u]
  BY <1>1 DEF LibraryInv
<1>3. \A f, v : f = [u \in Threads |-> f[u]]
                => /\ f = [f EXCEPT ![t] = f[t]]
                   /\ [f EXCEPT ![t] = v][t] = v
  OBVIOUS
<1>4. \/ counters' = counters \/ \E v : counters' = [counters EXCEPT ![t] = v]
  BY DEF Construct, CountIn, Initialize, Destroy, CountOut, Terminate, Unlock,
     Info, CleanUp, AddEvents, StartCollecting, Call, StopAndReadCounters
<1>5. \/ category' = category \/ \E v : category' = [category EXCEPT ![t] = v]
  BY DEF Construct, CountIn, Initialize, Destroy, CountOut, Terminate, Unlock,
     Info, CleanUp, AddEvents, StartCollecting, Call, StopAndReadCounters
<1>6. \/ result' = result \/ \E v : result' = [result EXCEPT ![t] = v]
  BY DEF Construct, CountIn, Initialize, Destroy, CountOut, Terminate, Unlock,
     Info, CleanUp, AddEvents, StartCollecting, Call, StopAndReadCounters
<1>7. /\ counters = [u \in Threads |-> counters[u]]
      /\ category = [u \in Threads |-> category[u]]
      /\ result = [u \in Threads |-> result[u]]
  BY DEF CountersInv
<1>8. Changes(t)
  BY <1>3, <1>4, <1>5, <1>6, <1>7 DEF Changes
<1> QED BY <1>2, <1>8

\* The steps of the main thread.  Each leaves the three functions of the
\* threads, and gives the main thread a label and entries.
LEMMA MainMoves ==
  ASSUME CountersInv, LibraryInv, Changes(Main), NEW label, GoTo(Main, label)
  PROVE  /\ DOMAIN counters' = Threads /\ counters' = [t \in Threads |-> counters'[t]]
         /\ category' = [t \in Threads |-> category'[t]]
         /\ result' = [t \in Threads |-> result'[t]]
         /\ pc'[Main] = label
<1>1. \A f, g, v : f = [u \in Threads |-> f[u]] /\ g = [f EXCEPT ![Main] = v]
                   => g = [u \in Threads |-> g[u]] /\ DOMAIN g = Threads
  OBVIOUS
<1>2. /\ counters = [u \in Threads |-> counters[u]]
      /\ category = [u \in Threads |-> category[u]]
      /\ result = [u \in Threads |-> result[u]]
  BY DEF CountersInv
<1>3. pc'[Main] = label
  BY PerfAssumption DEF GoTo, LibraryInv
<1> QED BY <1>1, <1>2, <1>3 DEF Changes

\* What holds of the main thread at a label.
AtLabel(label, seq, k, sums) ==
  /\ label \in {"count in", "initialize", "unlock in", "info"} => sums = NoCounts
  /\ label \in Looping => k \in Categories /\ sums = Through(k - 1)
  /\ label = "add events" => seq = << >>
  /\ label = "start" => seq = Opened(k, FALSE, 0)
  /\ label = "call" => seq = Opened(k, TRUE, 0)
  /\ label = "read" => seq = Opened(k, TRUE, 1)
  /\ label = "destroy" => sums = Through(Len(EventCategories))

LEMMA MainKeeps ==
  ASSUME CountersInv, LibraryInv, Changes(Main), NEW label, GoTo(Main, label),
         AtLabel(label, counters'[Main], category'[Main], result'[Main])
  PROVE  CountersInv'
<1>1. /\ DOMAIN counters' = Threads /\ counters' = [t \in Threads |-> counters'[t]]
      /\ category' = [t \in Threads |-> category'[t]]
      /\ result' = [t \in Threads |-> result'[t]]
      /\ pc'[Main] = label
  BY MainMoves
<1> QED BY <1>1 DEF CountersInv, AtLabel

LEMMA MainIsAt ==
  CountersInv => AtLabel(pc[Main], counters[Main], category[Main], result[Main])
BY DEF CountersInv, AtLabel

\* Entering and leaving the library.
LEMMA MainLibrary ==
  ASSUME CountersInv, LibraryInv, Changes(Main),
         \/ Construct(Main) \/ CountIn(Main) \/ Initialize(Main)
         \/ Destroy(Main) \/ CountOut(Main) \/ Terminate(Main) \/ Unlock(Main)
  PROVE  CountersInv'
<1> DEFINE Early == {"count in", "initialize", "unlock in", "info"}
           Outside == {"count out", "terminate", "unlock out", "idle"}
<1>1. CASE \/ CountIn(Main) \/ Initialize(Main)
           \/ pc[Main] = "unlock in" /\ Unlock(Main)
  <2>1. PICK label \in Early : GoTo(Main, label)
    BY <1>1 DEF CountIn, Initialize, Unlock
  <2>2. pc[Main] \in Early /\ result' = result
    BY <1>1 DEF CountIn, Initialize, Unlock
  <2>3. result'[Main] = NoCounts
    BY <2>2 DEF CountersInv
  <2>4. label \notin Looping /\ label # "destroy"
    BY <2>1 DEF Looping
  <2>5. AtLabel(label, counters'[Main], category'[Main], result'[Main])
    BY <2>3, <2>4 DEF AtLabel, Looping
  <2> QED BY <2>1, <2>5, MainKeeps
<1>2. CASE Construct(Main)
  <2>1. GoTo(Main, "count in") /\ result' = [result EXCEPT ![Main] = NoCounts]
    BY <1>2 DEF Construct
  <2>2. result'[Main] = NoCounts
    BY <2>1, PerfAssumption DEF CountersInv
  <2>3. AtLabel("count in", counters'[Main], category'[Main], result'[Main])
    BY <2>2 DEF AtLabel, Looping
  <2> QED BY <2>1, <2>3, MainKeeps
<1>3. CASE \/ Destroy(Main) \/ CountOut(Main) \/ Terminate(Main)
           \/ pc[Main] = "unlock out" /\ Unlock(Main)
  <2>1. PICK label \in Outside : GoTo(Main, label)
    BY <1>3 DEF Destroy, CountOut, Terminate, Unlock
  <2>2. AtLabel(label, counters'[Main], category'[Main], result'[Main])
    BY <2>1 DEF AtLabel, Looping
  <2> QED BY <2>1, <2>2, MainKeeps
<1> QED BY <1>1, <1>2, <1>3 DEF Unlock

LEMMA MainInfo ==
  ASSUME CountersInv, LibraryInv, Changes(Main), Info(Main)
  PROVE  CountersInv'
<1>1. /\ GoTo(Main, "clean up") /\ category'[Main] = 1
      /\ result'[Main] = result[Main] /\ pc[Main] = "info"
  BY PerfAssumption DEF Info, CountersInv
<1>2. result[Main] = Through(0)
  BY <1>1, NoneListed DEF CountersInv
<1>3. 1 \in Categories /\ 1 - 1 = 0
  BY CategoriesType DEF Categories
<1>4. AtLabel("clean up", counters'[Main], category'[Main], result'[Main])
  BY <1>1, <1>2, <1>3 DEF AtLabel, Looping
<1> QED BY <1>1, <1>4, MainKeeps

LEMMA MainCleanUp ==
  ASSUME CountersInv, LibraryInv, Changes(Main), CleanUp(Main)
  PROVE  CountersInv'
<1>1. /\ GoTo(Main, "add events") /\ counters'[Main] = << >>
      /\ category' = category /\ result' = result /\ pc[Main] = "clean up"
  BY PerfAssumption DEF CleanUp, CountersInv
<1>2. category[Main] \in Categories /\ result[Main] = Through(category[Main] - 1)
  BY <1>1 DEF CountersInv, Looping
<1>3. AtLabel("add events", counters'[Main], category'[Main], result'[Main])
  BY <1>1, <1>2 DEF AtLabel, Looping
<1> QED BY <1>1, <1>3, MainKeeps

LEMMA MainAddEvents ==
  ASSUME CountersInv, LibraryInv, Changes(Main), AddEvents(Main)
  PROVE  CountersInv'
<1> DEFINE k == category[Main]
           opened == [i \in DOMAIN NextEvents(Main) |->
                        [event |-> NextEvents(Main)[i], enabled |-> FALSE, count |-> 0]]
<1>1. /\ GoTo(Main, "start") /\ category' = category /\ result' = result
      /\ pc[Main] = "add events"
      /\ counters' = [counters EXCEPT ![Main] = @ \o opened]
  BY DEF AddEvents
<1>2. k \in Categories /\ result[Main] = Through(k - 1) /\ counters[Main] = << >>
  BY <1>1 DEF CountersInv, Looping
<1>3. opened = Opened(k, FALSE, 0)
  BY DEF Opened, NextEvents, Counter
<1>4. << >> \o opened = opened
  <2>1. PICK n \in Nat : DOMAIN opened = 1 .. n
    BY <1>2, CategoriesType DEF NextEvents
  <2>2. opened = [i \in 1 .. n |-> opened[i]]
    BY <2>1
  <2> HIDE DEF opened
  <2>3. \E T : opened \in Seq(T)
    <3> WITNESS {opened[i] : i \in 1 .. n}
    <3> QED BY <2>1, <2>2
  <2> QED BY <2>3
<1>5. counters'[Main] = Opened(k, FALSE, 0)
  <2>1. counters'[Main] = counters[Main] \o opened
    <3> HIDE DEF opened
    <3> QED BY <1>1, PerfAssumption DEF CountersInv
  <2> QED BY <1>2, <1>3, <1>4, <2>1, Zenon
<1>6. AtLabel("start", counters'[Main], category'[Main], result'[Main])
  BY <1>1, <1>2, <1>5 DEF AtLabel, Looping
<1> QED BY <1>1, <1>6, MainKeeps

LEMMA MainStart ==
  ASSUME CountersInv, LibraryInv, Changes(Main), StartCollecting(Main)
  PROVE  CountersInv'
<1> DEFINE k == category[Main]
<1>1. /\ GoTo(Main, "call") /\ category' = category /\ result' = result
      /\ pc[Main] = "start"
      /\ counters' = [counters EXCEPT ![Main] =
                        [i \in DOMAIN @ |-> [@[i] EXCEPT !.enabled = TRUE]]]
  BY DEF StartCollecting
<1>2. k \in Categories /\ result[Main] = Through(k - 1)
      /\ counters[Main] = Opened(k, FALSE, 0)
  BY <1>1 DEF CountersInv, Looping
<1>3. counters'[Main] = [i \in DOMAIN counters[Main] |->
                           [counters[Main][i] EXCEPT !.enabled = TRUE]]
  BY <1>1, PerfAssumption DEF CountersInv
<1>4. counters'[Main] = Opened(k, TRUE, 0)
  <2>1. DOMAIN counters[Main] = DOMAIN EventCategories[k]
    BY <1>2 DEF Opened
  <2>2. ASSUME NEW i \in DOMAIN EventCategories[k]
        PROVE  [counters[Main][i] EXCEPT !.enabled = TRUE]
                 = Counter(EventCategories[k][i], TRUE, 0)
    <3>1. counters[Main][i] = Counter(EventCategories[k][i], FALSE, 0)
      BY <1>2 DEF Opened
    <3>2. PICK e, off : /\ e = EventCategories[k][i] /\ off = FALSE
                        /\ counters[Main][i] = Counter(e, off, 0)
      BY <3>1, Zenon
    <3>3. PICK on : on = TRUE
      OBVIOUS
    <3>4. PICK r : r = counters[Main][i]
      OBVIOUS
    <3>5. [r EXCEPT !.enabled = on] = Counter(e, on, 0)
      BY <3>2, <3>4, CounterEnabled
    <3> QED BY <3>2, <3>3, <3>4, <3>5, Zenon
  <2> QED BY <1>3, <2>1, <2>2 DEF Opened
<1>5. AtLabel("call", counters'[Main], category'[Main], result'[Main])
  BY <1>1, <1>2, <1>4 DEF AtLabel, Looping
<1> QED BY <1>1, <1>5, MainKeeps

\* The code runs once: each counter of the category counts it once.
LEMMA MainCall ==
  ASSUME CountersInv, LibraryInv, Call(Main)
  PROVE  CountersInv'
<1> DEFINE k == category[Main]
<1>1. /\ GoTo(Main, "read") /\ category' = category /\ result' = result
      /\ pc[Main] = "call"
      /\ counters' = [u \in Threads |->
           [i \in DOMAIN counters[u] |->
              [counters[u][i] EXCEPT !.count = @ + (IF counters[u][i].enabled THEN 1 ELSE 0)]]]
  BY DEF Call
<1>2. k \in Categories /\ result[Main] = Through(k - 1)
      /\ counters[Main] = Opened(k, TRUE, 0)
  BY <1>1 DEF CountersInv, Looping
<1>3. counters'[Main] =
        [i \in DOMAIN counters[Main] |->
           [counters[Main][i] EXCEPT !.count = @ + (IF counters[Main][i].enabled THEN 1 ELSE 0)]]
  BY <1>1, PerfAssumption
<1>4. counters'[Main] = Opened(k, TRUE, 1)
  <2>1. DOMAIN counters[Main] = DOMAIN EventCategories[k]
    BY <1>2 DEF Opened
  <2>2. ASSUME NEW i \in DOMAIN EventCategories[k]
        PROVE  [counters[Main][i] EXCEPT !.count = @ + (IF counters[Main][i].enabled THEN 1 ELSE 0)]
                 = Counter(EventCategories[k][i], TRUE, 1)
    <3>1. counters[Main][i] = Counter(EventCategories[k][i], TRUE, 0)
      BY <1>2 DEF Opened
    <3>2. counters[Main][i].count + (IF counters[Main][i].enabled THEN 1 ELSE 0) = 1
      BY <3>1 DEF Counter
    <3>3. PICK e, on : /\ e = EventCategories[k][i] /\ on = TRUE
                       /\ counters[Main][i] = Counter(e, on, 0)
      BY <3>1, Zenon
    <3>4. PICK r : r = counters[Main][i]
      OBVIOUS
    <3>5. r = Counter(e, on, 0)
      BY <3>3, <3>4, Zenon
    <3>6. \A v : [r EXCEPT !.count = v] = Counter(e, on, v)
      BY <3>5, CounterCounts
    <3> QED BY <3>2, <3>3, <3>4, <3>6, Zenon
  <2> QED BY <1>3, <2>1, <2>2 DEF Opened
<1>5. /\ DOMAIN counters' = Threads /\ counters' = [t \in Threads |-> counters'[t]]
      /\ category' = [t \in Threads |-> category'[t]]
      /\ result' = [t \in Threads |-> result'[t]]
      /\ pc'[Main] = "read"
  <2>1. DOMAIN counters' = Threads /\ counters' = [t \in Threads |-> counters'[t]]
    BY <1>1
  <2>2. pc'[Main] = "read"
    BY <1>1, PerfAssumption DEF GoTo, LibraryInv
  <2> QED BY <1>1, <2>1, <2>2 DEF CountersInv
<1>6. /\ k \in Categories /\ result'[Main] = Through(category'[Main] - 1)
      /\ category'[Main] \in Categories
  BY <1>1, <1>2
<1> QED BY <1>1, <1>4, <1>5, <1>6 DEF CountersInv, Looping

\* The result of the main thread after it has read a category.
LEMMA MainRead ==
  ASSUME CountersInv, LibraryInv, Changes(Main), StopAndReadCounters(Main)
  PROVE  CountersInv'
<1> DEFINE k == category[Main]
<1>1. /\ pc[Main] = "read"
      /\ result' = [result EXCEPT ![Main] =
                      [event \in Events |-> @[event] + SumFor(counters[Main], event)]]
      /\ \/ /\ k < Len(EventCategories)
            /\ category' = [category EXCEPT ![Main] = @ + 1] /\ GoTo(Main, "clean up")
         \/ ~ (k < Len(EventCategories)) /\ GoTo(Main, "destroy")
  BY DEF StopAndReadCounters, SumFor
<1>2. k \in Categories /\ result[Main] = Through(k - 1)
      /\ counters[Main] = Opened(k, TRUE, 1)
  BY <1>1 DEF CountersInv, Looping
<1>3. result'[Main] = Through(k)
  <2>1. result'[Main] = [event \in Events |-> result[Main][event] + SumFor(counters[Main], event)]
    BY <1>1, PerfAssumption DEF CountersInv
  <2>2. ASSUME NEW event \in Events
        PROVE  result[Main][event] + SumFor(counters[Main], event)
                 = Cardinality(Listing(event, k))
    <3>1. result[Main][event] = Cardinality(Listing(event, k - 1))
      BY <1>2 DEF Through
    <3>2. Cardinality(Listing(event, k))
            = Cardinality(Listing(event, k - 1)) + SumFor(counters[Main], event)
      BY <1>2, OneMoreCategory, ZenonT(40)
    <3> QED BY <3>1, <3>2
  <2> QED BY <2>1, <2>2, ZenonT(30) DEF Through
<1>4. CASE k < Len(EventCategories) /\ GoTo(Main, "clean up")
           /\ category' = [category EXCEPT ![Main] = @ + 1]
  <2>1. category'[Main] = k + 1
    BY <1>4, PerfAssumption DEF CountersInv
  <2>2. k + 1 \in Categories /\ (k + 1) - 1 = k
    <3>1. PICK n \in Categories : n = k /\ n < Len(EventCategories)
      BY <1>2, <1>4
    <3>2. n + 1 \in Categories /\ (n + 1) - 1 = n
      BY <3>1, CategoriesType DEF Categories
    <3> QED BY <3>1, <3>2
  <2>3. AtLabel("clean up", counters'[Main], category'[Main], result'[Main])
    BY <1>3, <2>1, <2>2 DEF AtLabel, Looping
  <2> QED BY <1>4, <2>3, MainKeeps
<1>5. CASE ~ (k < Len(EventCategories)) /\ GoTo(Main, "destroy")
  <2>1. k = Len(EventCategories)
    BY <1>2, <1>5, CategoriesType DEF Categories
  <2>2. AtLabel("destroy", counters'[Main], category'[Main], result'[Main])
    BY <1>3, <2>1 DEF AtLabel, Looping
  <2> QED BY <1>5, <2>2, MainKeeps
<1> QED BY <1>1, <1>4, <1>5

LEMMA CountersNext == CountersInv /\ LibraryInv /\ [PerfNext]_perfVars => CountersInv'
<1> SUFFICES ASSUME CountersInv, LibraryInv, [PerfNext]_perfVars PROVE CountersInv'
  OBVIOUS
<1>1. CASE UNCHANGED perfVars
  BY <1>1 DEF perfVars, CountersInv
<1>2. CASE Call(Main)
  BY <1>2, MainCall
<1>3. ASSUME NEW t \in Threads, t # Main \/ ~ Call(t),
             \/ Construct(t) \/ CountIn(t) \/ Initialize(t)
             \/ Destroy(t) \/ CountOut(t) \/ Terminate(t) \/ Unlock(t)
             \/ Info(t) \/ CleanUp(t) \/ AddEvents(t) \/ StartCollecting(t)
             \/ Call(t) \/ StopAndReadCounters(t)
      PROVE  CountersInv'
  <2>1. Changes(t) /\ \A u \in Threads : u # t => pc'[u] = pc[u]
    BY <1>3, StepsChangeOneThread
  <2>2. CASE t # Main
    <3>1. pc'[Main] = pc[Main]
      BY <2>1, <2>2, PerfAssumption
    <3> QED BY <2>1, <2>2, <3>1, OthersKeepCounters DEF Changes
  <2>3. CASE t = Main
    BY <1>3, <2>1, <2>3, MainLibrary, MainInfo, MainCleanUp, MainAddEvents, MainStart,
       MainRead
  <2> QED BY <2>2, <2>3
<1> QED BY <1>1, <1>2, <1>3 DEF PerfNext

\* Each event of the main thread's result counts the code once for every
\* category that lists it, whatever the categories are and whatever other
\* threads measure at the same time (EvaluateAssemblyString: CleanUp drops
\* the counters of the category before, and Accumulate adds each category).
THEOREM MainThreadCountsOnce == PerfSpec => []EveryRunIsCountedOnce
<1>1. PerfInit => CountersInv /\ LibraryInv
  BY CountersInit, PerfInitInv
<1>2. CountersInv /\ LibraryInv /\ [PerfNext]_perfVars => CountersInv' /\ LibraryInv'
  BY CountersNext, PerfNextInv
<1>3. CountersInv => EveryRunIsCountedOnce
  <2> SUFFICES ASSUME CountersInv, pc[Main] = "destroy", NEW event \in Events
               PROVE  result[Main][event] =
                        Cardinality({c \in DOMAIN EventCategories :
                                       event \in Range(EventCategories[c])})
    BY DEF EveryRunIsCountedOnce
  <2>1. result[Main] = Through(Len(EventCategories))
    BY DEF CountersInv
  <2> QED BY <2>1, CategoriesType, Zenon DEF Through, Listing, Categories
<1> QED BY <1>1, <1>2, <1>3, PTL DEF PerfSpec
-----------------------------------------------------------------------------
(* Types of decoded instructions: a change of one field at a time.         *)

LEMMA OneIsAtMostOne ==
  ASSUME NEW S, NEW m \in S
  PROVE  <<m>> \in AtMostOne(S) /\ << >> \in AtMostOne(S) /\ <<m>> # << >> /\ <<m>>[1] = m
BY DEF AtMostOne

LEMMA AtMostOneIs ==
  ASSUME NEW S, NEW s \in AtMostOne(S), s # << >>
  PROVE  s[1] \in S
BY DEF AtMostOne

LEMMA SetOp ==
  ASSUME NEW i \in DecodedInstruction, NEW v \in Nat
  PROVE  [i EXCEPT !.op = v] \in DecodedInstruction
BY DEF DecodedInstruction

LEMMA SetModRm ==
  ASSUME NEW i \in DecodedInstruction, NEW v \in AtMostOne(ModRm)
  PROVE  [i EXCEPT !.modrm = v] \in DecodedInstruction
BY DEF DecodedInstruction

LEMMA SetSib ==
  ASSUME NEW i \in DecodedInstruction, NEW v \in AtMostOne(Sib)
  PROVE  [i EXCEPT !.sib = v] \in DecodedInstruction
BY DEF DecodedInstruction

LEMMA SetLegacy ==
  ASSUME NEW i \in DecodedInstruction, NEW v \in LegacyPrefixes
  PROVE  [i EXCEPT !.leg = v] \in DecodedInstruction
BY DEF DecodedInstruction

LEMMA SetVex ==
  ASSUME NEW i \in DecodedInstruction, NEW v \in VexOrEvexPrefix
  PROVE  [i EXCEPT !.vex = v] \in DecodedInstruction
BY DEF DecodedInstruction

LEMMA NoPrefixTypes ==
  NoPrefixes \in LegacyPrefixes /\ NoVexBits \in VexOrEvexPrefix /\ NoRex \in RexPrefix
BY DEF NoPrefixes, LegacyPrefixes, NoVexBits, VexOrEvexPrefix, NoRex, RexPrefix

LEMMA MutableTypes ==
  ASSUME NEW i \in DecodedInstruction
  PROVE  MutableLegacy(i) \in DecodedInstruction /\ MutableVex(i) \in DecodedInstruction
<1>1. MutableLegacy(i) \in DecodedInstruction
  BY NoPrefixTypes DEF MutableLegacy, DecodedInstruction
<1>2. MutableVex(i) \in DecodedInstruction
  BY NoPrefixTypes DEF MutableVex, DecodedInstruction
<1> QED BY <1>1, <1>2

LEMMA ModRmOfType ==
  ASSUME NEW i \in DecodedInstruction
  PROVE  ModRmOf(i) \in ModRm /\ SibOf(i) \in Sib
<1>1. DefaultModRm \in ModRm /\ DefaultSib \in Sib
  BY DEF DefaultModRm, DefaultSib, ModRm, Sib
<1>2. i.modrm \in AtMostOne(ModRm) /\ i.sib \in AtMostOne(Sib)
  BY DEF DecodedInstruction
<1>3. i.modrm # << >> => i.modrm[1] \in ModRm
  BY <1>2, AtMostOneIs
<1>4. i.sib # << >> => i.sib[1] \in Sib
  BY <1>2, AtMostOneIs
<1> QED BY <1>1, <1>3, <1>4 DEF ModRmOf, SibOf

LEMMA SetModRmField ==
  ASSUME NEW i \in DecodedInstruction, NEW m \in ModRm
  PROVE  [i EXCEPT !.modrm = <<m>>] \in DecodedInstruction
<1>1. <<m>> \in AtMostOne(ModRm)
  BY OneIsAtMostOne
<1> QED BY <1>1, SetModRm

LEMMA SetSibField ==
  ASSUME NEW i \in DecodedInstruction, NEW s \in Sib
  PROVE  WithSib(i, s) \in DecodedInstruction
<1>1. <<s>> \in AtMostOne(Sib)
  BY OneIsAtMostOne
<1> QED BY <1>1, SetSib DEF WithSib

LEMMA ModRmFields ==
  ASSUME NEW m \in ModRm
  PROVE  /\ \A v \in 0..3 : [m EXCEPT !.mod = v] \in ModRm
         /\ \A v \in Nat : [m EXCEPT !.reg = v] \in ModRm
         /\ \A v \in Nat : [m EXCEPT !.rm = v] \in ModRm
         /\ \A v \in Int : [m EXCEPT !.disp = v] \in ModRm
BY DEF ModRm

LEMMA SibFields ==
  ASSUME NEW s \in Sib, NEW v \in Nat
  PROVE  [s EXCEPT !.scale = v] \in Sib /\ [s EXCEPT !.index = v] \in Sib
         /\ [s EXCEPT !.base = v] \in Sib
BY DEF Sib

\* The prefix bit that extends a register field.
LEMMA SetExtensionType ==
  ASSUME NEW i \in DecodedInstruction, NEW e \in {"b", "r", "x"}, NEW register
  PROVE  SetExtension(i, e, register) \in DecodedInstruction
<1>1. Extended(register) \in 0..1 /\ 1 - Extended(register) \in 0..1
  BY DEF Extended, Flag
<1>2. CASE i.kind = "VEX"
  <2>1. PICK f \in {"nb", "nr", "nx"} : f = Inverted[e]
    BY DEF Inverted
  <2>2. PICK v \in 0..1 : v = 1 - Extended(register)
    BY <1>1
  <2>3. PICK vex \in VexOrEvexPrefix : vex = i.vex
    BY DEF DecodedInstruction
  <2>4. [vex EXCEPT ![f] = v] \in VexOrEvexPrefix
    <3>1. CASE f = "nb"
      BY <3>1 DEF VexOrEvexPrefix
    <3>2. CASE f = "nr"
      <4>1. PICK n \in Nat : n = v
        OBVIOUS
      <4>2. [vex EXCEPT !.nr = n] \in VexOrEvexPrefix
        BY DEF VexOrEvexPrefix
      <4> QED BY <3>2, <4>1, <4>2, Zenon
    <3>3. CASE f = "nx"
      BY <3>3 DEF VexOrEvexPrefix
    <3> QED BY <3>1, <3>2, <3>3
  <2>5. SetExtension(i, e, register) = [i EXCEPT !.vex = [vex EXCEPT ![f] = v]]
    BY <1>2, <2>1, <2>2, <2>3 DEF SetExtension
  <2> QED BY <2>4, <2>5, SetVex
<1>3. CASE i.kind # "VEX"
  <2>1. PICK j \in DecodedInstruction : j = MutableLegacy(i)
    BY MutableTypes
  <2>2. PICK leg \in LegacyPrefixes : leg = j.leg
    BY DEF DecodedInstruction
  <2>3. PICK v \in 0..1 : v = Extended(register)
    BY <1>1
  <2>4. PICK rex \in RexPrefix : rex = leg.rex
    BY DEF LegacyPrefixes
  <2>5. [rex EXCEPT ![e] = v] \in RexPrefix
    BY DEF RexPrefix
  <2>6. PICK new \in RexPrefix : new = [rex EXCEPT ![e] = v]
    BY <2>5
  <2>7. [leg EXCEPT !.rex = new, !.hasrex = TRUE] \in LegacyPrefixes
    BY DEF LegacyPrefixes
  <2>8. SetExtension(i, e, register) = [j EXCEPT !.leg = [leg EXCEPT !.rex = new, !.hasrex = TRUE]]
    BY <1>3, <2>1, <2>2, <2>3, <2>4, <2>6 DEF SetExtension
  <2> QED BY <2>7, <2>8, SetLegacy
<1> QED BY <1>2, <1>3

LEMMA ModuloType ==
  ASSUME NEW r \in Int
  PROVE  r % 8 \in Nat /\ r % 16 \in Nat /\ r % 16 <= 15 /\ r % 256 \in Nat
OBVIOUS

LEMMA FieldSetterTypes ==
  ASSUME NEW i \in DecodedInstruction
  PROVE  /\ \A mod \in 0..3 : SetMode(i, mod) \in DecodedInstruction
         /\ \A disp \in Int : SetDisplacement(i, disp) \in DecodedInstruction
         /\ ClearSib(i) \in DecodedInstruction
<1>1. PICK m \in ModRm : m = ModRmOf(i)
  BY ModRmOfType
<1>2. \A mod \in 0..3 : SetMode(i, mod) \in DecodedInstruction
  BY <1>1, ModRmFields, SetModRmField DEF SetMode
<1>3. \A disp \in Int : SetDisplacement(i, disp) \in DecodedInstruction
  BY <1>1, ModRmFields, SetModRmField DEF SetDisplacement
<1>4. ClearSib(i) \in DecodedInstruction
  <2>1. << >> \in AtMostOne(Sib)
    BY DEF AtMostOne
  <2> QED BY <2>1, SetSib DEF ClearSib
<1> QED BY <1>2, <1>3, <1>4

LEMMA RegisterFieldTypes ==
  ASSUME NEW i \in DecodedInstruction, NEW r \in Int
  PROVE  /\ SetModRmRmValue(i, r) \in DecodedInstruction
         /\ SetModRmRegOperand(i, r) \in DecodedInstruction
         /\ SetSibBaseValue(i, r) \in DecodedInstruction
         /\ SetSibIndexValue(i, r) \in DecodedInstruction
<1>1. PICK m \in ModRm : m = ModRmOf(i)
  BY ModRmOfType
<1>2. PICK s \in Sib : s = SibOf(i)
  BY ModRmOfType
<1>3. SetModRmRmValue(i, r) \in DecodedInstruction
  <2>1. [m EXCEPT !.rm = r % 8] \in ModRm
    BY ModuloType, ModRmFields
  <2>2. PICK j \in DecodedInstruction : j = [i EXCEPT !.modrm = <<[m EXCEPT !.rm = r % 8]>>]
    BY <2>1, SetModRmField
  <2> QED BY <1>1, <2>2, SetExtensionType DEF SetModRmRmValue
<1>4. SetModRmRegOperand(i, r) \in DecodedInstruction
  <2>1. [m EXCEPT !.reg = r % 8] \in ModRm
    BY ModuloType, ModRmFields
  <2>2. PICK j \in DecodedInstruction : j = [i EXCEPT !.modrm = <<[m EXCEPT !.reg = r % 8]>>]
    BY <2>1, SetModRmField
  <2> QED BY <1>1, <2>2, SetExtensionType DEF SetModRmRegOperand
<1>5. SetSibBaseValue(i, r) \in DecodedInstruction
  <2>1. [s EXCEPT !.base = r % 8] \in Sib
    BY ModuloType, SibFields
  <2>2. PICK j \in DecodedInstruction : j = WithSib(i, [s EXCEPT !.base = r % 8])
    BY <2>1, SetSibField
  <2> QED BY <1>2, <2>2, SetExtensionType DEF SetSibBaseValue
<1>6. SetSibIndexValue(i, r) \in DecodedInstruction
  <2>1. [s EXCEPT !.index = r % 8] \in Sib
    BY ModuloType, SibFields
  <2>2. PICK j \in DecodedInstruction : j = WithSib(i, [s EXCEPT !.index = r % 8])
    BY <2>1, SetSibField
  <2> QED BY <1>2, <2>2, SetExtensionType DEF SetSibIndexValue
<1> QED BY <1>3, <1>4, <1>5, <1>6

\* What a call of a setter returns, accepted or not, is an instruction.
Returns(call) == call.inst \in DecodedInstruction

LEMMA AcceptedOrRefused ==
  ASSUME NEW i \in DecodedInstruction
  PROVE  Returns(Accepted(i)) /\ Returns(Refused(i))
BY DEF Returns, Accepted, Refused

LEMMA RegisterSetterTypes ==
  ASSUME NEW i \in DecodedInstruction, NEW ops, NEW p \in AssignableOperands(ops), NEW r
  PROVE  Returns(SetOperandToRegister(ops, p, r, i))
<1>1. Returns(Refused(i))
  BY AcceptedOrRefused
<1>2. CASE p \notin DOMAIN ops \/ r \notin 0..kMaxX86RegisterIndex
  BY <1>1, <1>2 DEF SetOperandToRegister
<1>3. CASE p \in DOMAIN ops /\ r \in 0..kMaxX86RegisterIndex
  <2>1. r \in Nat
    BY <1>3 DEF kMaxX86RegisterIndex
  <2>2. SetOpcodeOperand(i, r) \in DecodedInstruction
    <3>1. PICK op \in Nat : op = i.op
      BY DEF DecodedInstruction
    <3>2. op - (op % 8) + r \in Nat
      BY <2>1, <3>1
    <3>3. [i EXCEPT !.op = op - (op % 8) + r] \in DecodedInstruction
      BY <3>2, SetOp
    <3> QED BY <3>1, <3>3 DEF SetOpcodeOperand
  <2>3. SetModRmRegOperand(i, r) \in DecodedInstruction
    BY <2>1, RegisterFieldTypes
  <2>4. SetModRmRmOperandToRegister(i, r) \in DecodedInstruction
    <3>1. PICK j \in DecodedInstruction : j = SetMode(i, Direct)
      BY FieldSetterTypes DEF Direct
    <3>2. PICK k \in DecodedInstruction : k = ClearSib(j)
      BY FieldSetterTypes
    <3>3. SetModRmRmValue(k, r) \in DecodedInstruction
      BY <2>1, RegisterFieldTypes
    <3> QED BY <3>1, <3>2, <3>3 DEF SetModRmRmOperandToRegister
  <2>5. PICK j \in DecodedInstruction : j = MutableVex(i)
    BY MutableTypes
  <2>6. PICK vex \in VexOrEvexPrefix : vex = j.vex
    BY DEF DecodedInstruction
  <2>7. SetVexPrefixOperand(i, r) \in DecodedInstruction
    <3>1. PICK v \in Nat : v = 15 - (r % 16)
      BY <2>1, ModuloType
    <3>2. [vex EXCEPT !.v = v] \in VexOrEvexPrefix
      BY DEF VexOrEvexPrefix
    <3>3. SetVexPrefixOperand(i, r) = [j EXCEPT !.vex = [vex EXCEPT !.v = v]]
      BY <2>5, <2>6, <3>1 DEF SetVexPrefixOperand
    <3> QED BY <3>2, <3>3, SetVex
  <2>8. SetVexSuffixOperand(i, r) \in DecodedInstruction
    <3>1. PICK v \in Nat : v = 16 * r
      BY <2>1
    <3>2. [vex EXCEPT !.suffix = v] \in VexOrEvexPrefix
      BY DEF VexOrEvexPrefix
    <3>3. SetVexSuffixOperand(i, r) = [j EXCEPT !.vex = [vex EXCEPT !.suffix = v]]
      BY <2>5, <2>6, <3>1 DEF SetVexSuffixOperand
    <3> QED BY <3>2, <3>3, SetVex
  <2>9. /\ Returns(Accepted(SetOpcodeOperand(i, r)))
        /\ Returns(Accepted(SetModRmRegOperand(i, r)))
        /\ Returns(Accepted(SetModRmRmOperandToRegister(i, r)))
        /\ Returns(Accepted(SetVexPrefixOperand(i, r)))
        /\ Returns(Accepted(SetVexSuffixOperand(i, r)))
    BY <2>2, <2>3, <2>4, <2>7, <2>8, AcceptedOrRefused
  <2> QED BY <1>1, <1>3, <2>9 DEF SetOperandToRegister, AssignableOperands
<1> QED BY <1>2, <1>3

LEMMA IfMemoryType ==
  ASSUME NEW i \in DecodedInstruction, NEW ops, NEW condition \in BOOLEAN, NEW changed,
         condition => changed \in DecodedInstruction
  PROVE  Returns(IfMemory(ops, condition, i, changed))
BY AcceptedOrRefused DEF IfMemory

\* The addressing modes of the memory setters, written with one base or with none.
LEMMA MemorySetterTypes ==
  ASSUME NEW i \in DecodedInstruction, NEW ops
  PROVE  /\ \A a \in Int : Returns(SetOperandToMemoryAbsolute(ops, a, i))
         /\ \A r : Returns(SetOperandToMemoryBase(ops, r, i))
         /\ \A r : Returns(SetOperandToMemoryBaseSib(ops, r, i))
         /\ \A a \in Int : Returns(SetOperandToMemoryRelativeToRip(ops, a, i))
         /\ \A r : \A d \in Int, bits \in {8, 32} :
              Returns(SetOperandToMemoryBaseAndDisplacement(ops, r, d, bits, i))
<1>1. PICK indirect \in DecodedInstruction : indirect = SetMode(i, 0)
  BY FieldSetterTypes
<1>2. \A r : IsGeneralPurpose(r) => r \in Int
  BY DEF IsGeneralPurpose, kMaxX86GeneralPurposeRegisterIndex
<1>3. \A r : IsGeneralPurpose(r) \in BOOLEAN
  BY DEF IsGeneralPurpose
<1>4. ASSUME NEW a \in Int PROVE Returns(SetOperandToMemoryAbsolute(ops, a, i))
  <2>1. PICK j1 \in DecodedInstruction : j1 = SetDisplacement(indirect, a)
    BY FieldSetterTypes
  <2>2. PICK j2 \in DecodedInstruction : j2 = SetModRmRmValue(j1, 4)
    BY RegisterFieldTypes
  <2>3. PICK j3 \in DecodedInstruction : j3 = SetSibBaseValue(j2, 5)
    BY RegisterFieldTypes
  <2>4. PICK j4 \in DecodedInstruction : j4 = SetSibIndexValue(j3, 4)
    BY RegisterFieldTypes
  <2>5. SetOperandToMemoryAbsolute(ops, a, i) = IfMemory(ops, TRUE, i, j4)
    BY <1>1, <2>1, <2>2, <2>3, <2>4, Zenon DEF SetOperandToMemoryAbsolute
  <2> QED BY <2>5, IfMemoryType
<1>5. ASSUME NEW r PROVE Returns(SetOperandToMemoryBase(ops, r, i))
  <2>1. PICK j1 \in DecodedInstruction : j1 = ClearSib(indirect)
    BY FieldSetterTypes
  <2>2. IsGeneralPurpose(r) => SetModRmRmValue(j1, r) \in DecodedInstruction
    BY <1>2, RegisterFieldTypes
  <2>3. SetOperandToMemoryBase(ops, r, i)
          = IfMemory(ops, IsGeneralPurpose(r) /\ r % 8 \notin {4, 5}, i, SetModRmRmValue(j1, r))
    BY <1>1, <2>1, Zenon DEF SetOperandToMemoryBase
  <2>4. (IsGeneralPurpose(r) /\ r % 8 \notin {4, 5}) \in BOOLEAN
    BY <1>3
  <2> QED BY <2>2, <2>3, <2>4, IfMemoryType
<1>6. ASSUME NEW r PROVE Returns(SetOperandToMemoryBaseSib(ops, r, i))
  <2>1. PICK j1 \in DecodedInstruction : j1 = SetModRmRmValue(indirect, 4)
    BY RegisterFieldTypes
  <2> DEFINE set == SetSibIndexValue(SetSibBaseValue(j1, r), 4)
             changed == WithSib(set, [SibOf(set) EXCEPT !.scale = 0])
  <2>2. ASSUME IsGeneralPurpose(r) PROVE changed \in DecodedInstruction
    <3>1. PICK j2 \in DecodedInstruction : j2 = SetSibBaseValue(j1, r)
      BY <1>2, <2>2, RegisterFieldTypes
    <3>2. PICK j3 \in DecodedInstruction : j3 = SetSibIndexValue(j2, 4)
      BY RegisterFieldTypes
    <3>3. [SibOf(j3) EXCEPT !.scale = 0] \in Sib
      BY ModRmOfType, SibFields
    <3> QED BY <3>1, <3>2, <3>3, SetSibField
  <2>3. SetOperandToMemoryBaseSib(ops, r, i)
          = IfMemory(ops, IsGeneralPurpose(r) /\ r \notin {5, 13}, i, changed)
    BY <1>1, <2>1, Zenon DEF SetOperandToMemoryBaseSib
  <2>4. (IsGeneralPurpose(r) /\ r \notin {5, 13}) \in BOOLEAN
    BY <1>3
  <2> HIDE DEF changed
  <2> QED BY <2>2, <2>3, <2>4, IfMemoryType
<1>7. ASSUME NEW a \in Int PROVE Returns(SetOperandToMemoryRelativeToRip(ops, a, i))
  <2>1. PICK j1 \in DecodedInstruction : j1 = SetModRmRmValue(indirect, 5)
    BY RegisterFieldTypes
  <2>2. PICK j2 \in DecodedInstruction : j2 = SetDisplacement(j1, a)
    BY FieldSetterTypes
  <2>3. PICK j3 \in DecodedInstruction : j3 = ClearSib(j2)
    BY FieldSetterTypes
  <2>4. SetOperandToMemoryRelativeToRip(ops, a, i) = IfMemory(ops, TRUE, i, j3)
    BY <1>1, <2>1, <2>2, <2>3, Zenon DEF SetOperandToMemoryRelativeToRip
  <2> QED BY <2>4, IfMemoryType
<1>8. ASSUME NEW r, NEW d \in Int, NEW bits \in {8, 32}
      PROVE  Returns(SetOperandToMemoryBaseAndDisplacement(ops, r, d, bits, i))
  <2>1. PICK mod \in 0..3 : mod = IF bits = 8 THEN 1 ELSE 2
    OBVIOUS
  <2>2. PICK stored \in Int : stored = IF bits = 8 THEN d % 256 ELSE d
    BY ModuloType
  <2>3. PICK j1 \in DecodedInstruction : j1 = SetMode(i, mod)
    BY FieldSetterTypes
  <2>4. PICK j2 \in DecodedInstruction : j2 = SetDisplacement(j1, stored)
    BY FieldSetterTypes
  <2>5. PICK j3 \in DecodedInstruction : j3 = ClearSib(j2)
    BY FieldSetterTypes
  <2>6. IsGeneralPurpose(r) => SetModRmRmValue(j3, r) \in DecodedInstruction
    BY <1>2, RegisterFieldTypes
  <2>7. SetOperandToMemoryBaseAndDisplacement(ops, r, d, bits, i)
          = IfMemory(ops, IsGeneralPurpose(r) /\ r \notin {4, 12}, i, SetModRmRmValue(j3, r))
    BY <2>1, <2>2, <2>3, <2>4, <2>5, ZenonT(40) DEF SetOperandToMemoryBaseAndDisplacement
  <2>8. (IsGeneralPurpose(r) /\ r \notin {4, 12}) \in BOOLEAN
    BY <1>3
  <2> QED BY <2>6, <2>7, <2>8, IfMemoryType
<1> QED BY <1>4, <1>5, <1>6, <1>7, <1>8

-----------------------------------------------------------------------------
(* The client of the encoder: its instruction stays one, whatever it assigns. *)

ClientInv == entry \in DOMAIN Database /\ instr \in DecodedInstruction

LEMMA DatabaseTypes ==
  ASSUME NEW n \in DOMAIN Database
  PROVE  /\ OpcodeOf(Database[n].spec) \in Nat
         /\ Database[n].spec.type \in {"legacy", "VEX", "EVEX"}
         /\ Database[n].spec.vex.is4 => Database[n].spec.type = "VEX"
         /\ Database[n].spec.imm \in Seq(Range(ImmediateBytes))
         /\ Database[n].spec.code \in {0} \cup Range(CodeOffsetBytes)
         /\ Database[n].starts \subseteq DecodedInstruction
BY DatabaseAssumption, Zenon

LEMMA Sizes ==
  Range(ImmediateBytes) \subseteq 1..8 /\ ({0} \cup Range(CodeOffsetBytes)) \subseteq 0..10
<1>1. \A x \in DOMAIN ImmediateBytes : ImmediateBytes[x] \in 1..8
  BY DEF ImmediateBytes
<1>2. \A x \in DOMAIN CodeOffsetBytes : CodeOffsetBytes[x] \in 0..10
  BY DEF CodeOffsetBytes
<1> QED BY <1>1, <1>2 DEF Range

LEMMA ImmediatesType ==
  ASSUME NEW n \in DOMAIN Database, NEW i \in DecodedInstruction
  PROVE  WithImmediates(Database[n].spec, i) \in DecodedInstruction
<1>1. PICK sizes \in Seq(1..8) : sizes = Database[n].spec.imm
  BY DatabaseTypes, Sizes
<1>2. PICK size \in 0..10 : size = Database[n].spec.code
  BY DatabaseTypes, Sizes
<1> DEFINE imm == [m \in DOMAIN sizes |-> [b \in 1..sizes[m] |-> b]]
           code == [b \in 1..size |-> 0]
<1>3. ASSUME NEW m \in DOMAIN sizes PROVE [b \in 1..sizes[m] |-> b] \in Seq(Byte)
  <2>1. PICK size1 \in 1..8 : size1 = sizes[m]
    OBVIOUS
  <2>2. [b \in 1..size1 |-> b] \in [1..size1 -> Byte]
    BY DEF Byte
  <2>3. [b \in 1..size1 |-> b] \in Seq(Byte)
    BY <2>2
  <2> QED BY <2>1, <2>3
<1>4. imm \in Seq(Seq(Byte))
  BY <1>3
<1>5. code \in Seq(Byte)
  BY DEF Byte
<1>6. WithImmediates(Database[n].spec, i) = [i EXCEPT !.imm = imm, !.code = code]
  BY <1>1, <1>2 DEF WithImmediates
<1> HIDE DEF imm, code
<1>7. [i EXCEPT !.imm = imm, !.code = code] \in DecodedInstruction
  BY <1>4, <1>5 DEF DecodedInstruction
<1> QED BY <1>6, <1>7

LEMMA NoInstructionType == NoInstruction \in DecodedInstruction
<1>1. << >> \in AtMostOne(ModRm) /\ << >> \in AtMostOne(Sib)
  BY DEF AtMostOne
<1>2. << >> \in Seq(Seq(Byte)) /\ << >> \in Seq(Byte)
  OBVIOUS
<1> QED BY <1>1, <1>2, NoPrefixTypes DEF NoInstruction, DecodedInstruction

LEMMA ClientInit == CodecInit => ClientInv
<1> SUFFICES ASSUME CodecInit PROVE ClientInv
  OBVIOUS
<1>1. entry \in DOMAIN Database
  BY DEF CodecInit
<1>2. CASE \E i \in Database[entry].starts : instr = WithImmediates(SpecOf, i)
  <2>1. PICK i \in Database[entry].starts : instr = WithImmediates(Database[entry].spec, i)
    BY <1>2 DEF SpecOf
  <2>2. i \in DecodedInstruction
    BY <1>1, <2>1, DatabaseTypes
  <2> QED BY <1>1, <2>1, <2>2, ImmediatesType DEF ClientInv
<1>3. CASE instr = NoInstruction
  BY <1>1, <1>3, NoInstructionType DEF ClientInv
<1> QED BY <1>2, <1>3 DEF CodecInit

LEMMA ClientNext == ClientInv /\ [CodecNext]_vars => ClientInv'
<1> SUFFICES ASSUME ClientInv, [CodecNext]_vars PROVE ClientInv'
  OBVIOUS
<1> USE DEF ClientInv
<1>1. ASSUME NEW p, NEW call, NEW what, Assign(p, call, what), Returns(call)
      PROVE  ClientInv'
  BY <1>1 DEF Assign, Returned, Returns
<1>2. CASE AssignRegister
  <2>1. PICK p \in AssignableOperands(OpsOf), r \in Registers :
          Assign(p, SetOperandToRegister(OpsOf, p, r, instr), <<"register", r>>)
    BY <1>2 DEF AssignRegister
  <2>2. Returns(SetOperandToRegister(OpsOf, p, r, instr))
    BY RegisterSetterTypes
  <2> QED BY <1>1, <2>1, <2>2
<1>3. CASE AssignMemory
  <2>1. PICK p \in GetMemoryOperandPosition(OpsOf), r \in Registers, d \in SmallDisplacements,
             a \in LargeDisplacements :
          \/ Assign(p, SetOperandToMemoryAbsolute(OpsOf, a, instr), <<"absolute", a>>)
          \/ Assign(p, SetOperandToMemoryBase(OpsOf, r, instr), <<"base", r>>)
          \/ Assign(p, SetOperandToMemoryBaseSib(OpsOf, r, instr), <<"base", r>>)
          \/ Assign(p, SetOperandToMemoryRelativeToRip(OpsOf, a, instr), <<"rip", a>>)
          \/ Assign(p, SetOperandToMemoryBaseAndDisplacement(OpsOf, r, d, 8, instr), <<"base", r, d>>)
          \/ Assign(p, SetOperandToMemoryBaseAndDisplacement(OpsOf, r, a, 32, instr), <<"base", r, a>>)
    BY <1>3, Zenon DEF AssignMemory
  <2>2. d \in Int /\ a \in Int
    BY CodecAssumption
  <2>3. /\ Returns(SetOperandToMemoryAbsolute(OpsOf, a, instr))
        /\ Returns(SetOperandToMemoryBase(OpsOf, r, instr))
        /\ Returns(SetOperandToMemoryBaseSib(OpsOf, r, instr))
        /\ Returns(SetOperandToMemoryRelativeToRip(OpsOf, a, instr))
        /\ Returns(SetOperandToMemoryBaseAndDisplacement(OpsOf, r, d, 8, instr))
        /\ Returns(SetOperandToMemoryBaseAndDisplacement(OpsOf, r, a, 32, instr))
    <3>1. PICK i \in DecodedInstruction : i = instr
      OBVIOUS
    <3>2. PICK ops : ops = OpsOf
      OBVIOUS
    <3>3. /\ Returns(SetOperandToMemoryAbsolute(ops, a, i))
          /\ Returns(SetOperandToMemoryBase(ops, r, i))
          /\ Returns(SetOperandToMemoryBaseSib(ops, r, i))
          /\ Returns(SetOperandToMemoryRelativeToRip(ops, a, i))
      BY <2>2, MemorySetterTypes
    <3>4. \A d1 \in Int, bits \in {8, 32} :
            Returns(SetOperandToMemoryBaseAndDisplacement(ops, r, d1, bits, i))
      BY MemorySetterTypes
    <3>5. /\ Returns(SetOperandToMemoryBaseAndDisplacement(ops, r, d, 8, i))
          /\ Returns(SetOperandToMemoryBaseAndDisplacement(ops, r, a, 32, i))
      BY <2>2, <3>4
    <3> QED BY <3>1, <3>2, <3>3, <3>5, Zenon
  <2> QED BY <1>1, <2>1, <2>3, Zenon
<1>4. CASE UNCHANGED <<entry, instr>>
  BY <1>4
<1>5. CASE ~AssignRegister /\ ~AssignMemory
  BY <1>4, <1>5 DEF CodecNext, EncodeInstruction, ParseAll, ParseCut, Parse, HasReturned,
                    vars, clientVars
<1> QED BY <1>2, <1>3, <1>5

-----------------------------------------------------------------------------
(* The table of the addressing modes and the test of them.                   *)

LEMMA ModesAgree ==
  ASSUME NEW i \in DecodedInstruction
  PROVE  ModRmAddressingModeMatchesInstructionOperandAddressingMode(
           i, ConvertToInstructionOperandAddressingMode(i))
<1>1. PICK m \in ModRm : m = ModRmOf(i)
  BY ModRmOfType
<1>2. PICK s \in Sib : s = SibOf(i)
  BY ModRmOfType
<1>3. m.mod \in 0..3
  BY DEF ModRm
<1>4. PICK mode : mode = ConvertToInstructionOperandAddressingMode(i)
  OBVIOUS
<1> DEFINE Agrees == ModRmAddressingModeMatchesInstructionOperandAddressingMode(i, mode)
<1>5. ASSUME m.mod = 3 PROVE Agrees
  <2>1. mode = "DIRECT"
    BY <1>1, <1>4, <1>5 DEF ConvertToInstructionOperandAddressingMode, Direct
  <2> QED BY <1>1, <1>5, <2>1 DEF ModRmAddressingModeMatchesInstructionOperandAddressingMode, Direct
<1>6. ASSUME m.mod = 0 /\ m.rm # 4 PROVE Agrees
  <2>1. \/ m.rm = 5 /\ mode = "RIP"
        \/ m.rm # 5 /\ mode = "INDIRECT"
    BY <1>1, <1>2, <1>4, <1>6 DEF ConvertToInstructionOperandAddressingMode, Direct
  <2>2. ASSUME m.rm = 5, mode = "RIP" PROVE Agrees
    BY <1>1, <1>6, <2>2
       DEF ModRmAddressingModeMatchesInstructionOperandAddressingMode, Direct
  <2>3. ASSUME m.rm # 5, mode = "INDIRECT" PROVE Agrees
    BY <1>1, <1>6, <2>3
       DEF ModRmAddressingModeMatchesInstructionOperandAddressingMode, Direct
  <2> HIDE DEF Agrees
  <2> QED BY <2>1, <2>2, <2>3
<1>7. ASSUME m.mod = 0 /\ m.rm = 4 PROVE Agrees
  <2>1. \/ s.base = 5 /\ s.index # 4 /\ mode = "INDEX_DISP"
        \/ s.base = 5 /\ s.index = 4 /\ mode = "DISP"
        \/ s.base # 5 /\ s.index # 4 /\ mode = "BASE_INDEX"
        \/ s.base # 5 /\ s.index = 4 /\ mode = "BASE"
    BY <1>1, <1>2, <1>4, <1>7 DEF ConvertToInstructionOperandAddressingMode, Direct
  <2>2. ASSUME s.base = 5, s.index # 4, mode = "INDEX_DISP" PROVE Agrees
    BY <1>1, <1>2, <1>7, <2>2
       DEF ModRmAddressingModeMatchesInstructionOperandAddressingMode, Direct
  <2>3. ASSUME s.base = 5, s.index = 4, mode = "DISP" PROVE Agrees
    BY <1>1, <1>2, <1>7, <2>3
       DEF ModRmAddressingModeMatchesInstructionOperandAddressingMode, Direct
  <2>4. ASSUME s.base # 5, s.index # 4, mode = "BASE_INDEX" PROVE Agrees
    BY <1>1, <1>2, <1>7, <2>4
       DEF ModRmAddressingModeMatchesInstructionOperandAddressingMode, Direct
  <2>5. ASSUME s.base # 5, s.index = 4, mode = "BASE" PROVE Agrees
    BY <1>1, <1>2, <1>7, <2>5
       DEF ModRmAddressingModeMatchesInstructionOperandAddressingMode, Direct
  <2> HIDE DEF Agrees
  <2> QED BY <2>1, <2>2, <2>3, <2>4, <2>5
<1>8. ASSUME m.mod \in {1, 2} PROVE Agrees
  <2>1. mode = IF m.rm = 4 /\ s.index # 4 THEN "BASE_DISP_INDEX" ELSE "BASE_DISP"
    BY <1>1, <1>2, <1>4, <1>8 DEF ConvertToInstructionOperandAddressingMode, Direct
  <2> QED BY <1>1, <1>2, <1>8, <2>1
             DEF ModRmAddressingModeMatchesInstructionOperandAddressingMode, Direct
<1> HIDE DEF Agrees
<1>9. Agrees
  BY <1>3, <1>5, <1>6, <1>7, <1>8
<1> QED BY <1>4, <1>9 DEF Agrees

\* Whatever registers and memory operands a client assigns, in any order, the parser's test of
\* the addressing mode accepts the mode that ConvertToInstructionOperandAddressingMode names.
THEOREM TablesOfModesAgree == CodecSpec => []AddressingModesAgree
<1>1. ClientInv => AddressingModesAgree
  BY ModesAgree DEF ClientInv, AddressingModesAgree
<1> QED BY <1>1, ClientInit, ClientNext, PTL DEF CodecSpec

-----------------------------------------------------------------------------
(* The bytes of an instruction that matches its specification.               *)

Flatten(seqs, f, k) == IF k = 1 THEN seqs[k] ELSE f[k - 1] \o seqs[k]
Flattens(seqs, n, f) == \A k \in 1..n : f[k] = Flatten(seqs, f, k)

LEMMA CanBeFlattened ==
  ASSUME NEW A, NEW seqs \in Seq(Seq(A)), NEW n \in 0..Len(seqs)
  PROVE  \E f \in [1..n -> Seq(A)] : Flattens(seqs, n, f)
<1> DEFINE Flattenable(m) == \E f \in [1..m -> Seq(A)] : Flattens(seqs, m, f)
           Fails == {m \in 0..Len(seqs) : ~ Flattenable(m)}
<1> SUFFICES ASSUME Fails # {} PROVE FALSE
  OBVIOUS
<1>1. PICK m \in Fails : \A e \in Fails : m <= e
  <2>1. Fails \in SUBSET Nat
    OBVIOUS
  <2> HIDE DEF Fails
  <2> QED BY <2>1, LeastExists
<1>2. m \in 0..Len(seqs) /\ ~ Flattenable(m)
  OBVIOUS
<1>3. m # 0
  <2>1. [k \in 1..0 |-> << >>] \in [1..0 -> Seq(A)]
    OBVIOUS
  <2>2. Flattens(seqs, 0, [k \in 1..0 |-> << >>])
    BY DEF Flattens
  <2> QED BY <1>2, <2>1, <2>2
<1>4. PICK f \in [1..(m - 1) -> Seq(A)] : Flattens(seqs, m - 1, f)
  <2>1. m - 1 \in 0..Len(seqs) /\ ~ (m <= m - 1)
    BY <1>2, <1>3
  <2>2. m - 1 \notin Fails
    BY <1>1, <2>1
  <2> QED BY <2>1, <2>2
<1>5. seqs[m] \in Seq(A)
  <2>1. m \in 1..Len(seqs)
    BY <1>2, <1>3
  <2> QED BY <2>1
<1>6. Flatten(seqs, f, m) \in Seq(A)
  <2>1. CASE m = 1
    BY <1>5, <2>1 DEF Flatten
  <2>2. CASE m # 1
    <3>1. m - 1 \in 1..(m - 1)
      BY <1>2, <1>3, <2>2
    <3>2. f[m - 1] \in Seq(A)
      BY <1>4, <3>1
    <3> QED BY <1>5, <2>2, <3>2 DEF Flatten
  <2> QED BY <2>1, <2>2
<1> DEFINE g == [k \in 1..m |-> IF k = m THEN Flatten(seqs, f, m) ELSE f[k]]
<1>7. g \in [1..m -> Seq(A)]
  BY <1>2, <1>6
<1>8. ASSUME NEW k \in 1..m PROVE g[k] = Flatten(seqs, g, k)
  <2>1. CASE k = 1
    <3>1. 1 \in 1..m /\ (m # 1 => 1 \in 1..(m - 1))
      BY <1>2, <1>3
    <3>2. m # 1 => f[1] = Flatten(seqs, f, 1)
      BY <1>4, <3>1 DEF Flattens
    <3>3. g[1] = Flatten(seqs, f, 1)
      BY <3>1, <3>2
    <3> QED BY <2>1, <3>3 DEF Flatten
  <2>2. CASE k # 1
    <3>1. k - 1 \in 1..m /\ k - 1 # m /\ (k # m => k \in 1..(m - 1))
      BY <1>2, <2>2
    <3>2. g[k - 1] = f[k - 1]
      BY <3>1
    <3>3. k # m => f[k] = Flatten(seqs, f, k)
      BY <1>4, <3>1 DEF Flattens
    <3>4. g[k] = Flatten(seqs, f, k)
      BY <3>3
    <3> HIDE DEF g
    <3> QED BY <2>2, <3>2, <3>4 DEF Flatten
  <2> QED BY <2>1, <2>2
<1>9. Flattens(seqs, m, g)
  <2> HIDE DEF g
  <2> QED BY <1>8 DEF Flattens
<1> HIDE DEF g
<1> QED BY <1>2, <1>7, <1>9

\* What a flattened sequence is: the sequences up to each one, joined.
LEMMA IsFlattened ==
  ASSUME NEW A, NEW seqs \in Seq(Seq(A)), NEW n \in Nat, n = Len(seqs)
  PROVE  \E f \in [1..n -> Seq(A)] :
           Flattens(seqs, n, f) /\ FlattenSeq(seqs) = IF n = 0 THEN seqs ELSE f[n]
<1> DEFINE Is(f) == f = [i \in 1..n |-> IF i = 1 THEN seqs[i] ELSE f[i - 1] \o seqs[i]]
           it == CHOOSE f : Is(f)
<1>1. CASE n = 0
  <2>1. PICK f \in [1..n -> Seq(A)] : Flattens(seqs, n, f)
    BY CanBeFlattened
  <2> QED BY <1>1, <2>1 DEF FlattenSeq
<1>2. CASE n # 0
  <2>1. FlattenSeq(seqs) = it[n]
    BY <1>2 DEF FlattenSeq
  <2>2. PICK f \in [1..n -> Seq(A)] : Flattens(seqs, n, f)
    BY CanBeFlattened
  <2>3. Is(f)
    BY <2>2 DEF Flattens, Flatten
  <2>4. Is(it)
    <3> HIDE DEF Is
    <3> QED BY <2>3
  <2> HIDE DEF it
  <2>5. PICK g : g = it /\ Is(g)
    BY <2>4
  <2>6. g = [i \in 1..n |-> IF i = 1 THEN seqs[i] ELSE g[i - 1] \o seqs[i]]
    BY <2>5
  <2>7. ASSUME NEW k \in 1..n PROVE g[k] = Flatten(seqs, g, k)
    <3>1. g[k] = IF k = 1 THEN seqs[k] ELSE g[k - 1] \o seqs[k]
      BY <2>6
    <3> QED BY <3>1, Zenon DEF Flatten
  <2> DEFINE Bad == {k \in 1..n : g[k] \notin Seq(A)}
  <2>8. Bad = {}
    <3> SUFFICES ASSUME Bad # {} PROVE FALSE
      OBVIOUS
    <3>1. PICK k \in Bad : \A e \in Bad : k <= e
      <4>1. Bad \in SUBSET Nat
        OBVIOUS
      <4> HIDE DEF Bad
      <4> QED BY <4>1, LeastExists
    <3>2. seqs[k] \in Seq(A)
      OBVIOUS
    <3>3. g[k] = IF k = 1 THEN seqs[k] ELSE g[k - 1] \o seqs[k]
      BY <2>6
    <3>4. CASE k = 1
      BY <3>2, <3>3, <3>4
    <3>5. CASE k # 1
      <4>1. k - 1 \in 1..n /\ ~ (k <= k - 1)
        BY <3>5
      <4>2. g[k - 1] \in Seq(A)
        BY <3>1, <4>1
      <4>3. g[k - 1] \o seqs[k] \in Seq(A)
        BY <3>2, <4>2
      <4>4. g[k] \in Seq(A)
        BY <3>3, <3>5, <4>3
      <4> QED BY <4>4
    <3> QED BY <3>4, <3>5
  <2>9. g \in [1..n -> Seq(A)]
    <3>1. \A k \in 1..n : g[k] \in Seq(A)
      BY <2>8
    <3>2. g = [k \in 1..n |-> g[k]]
      <4>1. DOMAIN g = 1..n
        BY <2>6
      <4> QED BY <2>6, <4>1
    <3> QED BY <3>1, <3>2
  <2>10. Flattens(seqs, n, g)
    BY <2>7 DEF Flattens
  <2> QED BY <1>2, <2>1, <2>5, <2>9, <2>10
<1> QED BY <1>1, <1>2

LEMMA BytesAreNumbers ==
  ASSUME NEW s \in Seq(Byte)
  PROVE  s \in Seq(Nat)
<1>1. Byte \subseteq Nat
  BY DEF Byte
<1>2. s \in [1..Len(s) -> Byte] /\ Len(s) \in Nat
  OBVIOUS
<1>3. s \in [1..Len(s) -> Nat]
  BY <1>1, <1>2
<1> QED BY <1>2, <1>3

LEMMA FlattenType ==
  ASSUME NEW seqs \in Seq(Seq(Byte))
  PROVE  FlattenSeq(seqs) \in Seq(Nat)
<1>1. PICK n \in Nat : n = Len(seqs)
  OBVIOUS
<1>2. PICK f \in [1..n -> Seq(Byte)] :
        Flattens(seqs, n, f) /\ FlattenSeq(seqs) = IF n = 0 THEN seqs ELSE f[n]
  BY <1>1, IsFlattened
<1>3. FlattenSeq(seqs) \in Seq(Byte)
  <2>1. CASE n = 0
    <3>1. seqs \in [1..0 -> Seq(Byte)]
      <4>1. seqs \in [1..n -> Seq(Byte)]
        BY <1>1
      <4> QED BY <2>1, <4>1
    <3>2. \A k \in 1..0 : FALSE
      OBVIOUS
    <3>3. seqs \in [1..0 -> Byte]
      BY <3>1, <3>2
    <3>4. seqs \in Seq(Byte)
      BY <3>3
    <3> QED BY <1>2, <2>1, <3>4
  <2>2. CASE n # 0
    <3>1. n \in 1..n
      BY <2>2
    <3> QED BY <1>2, <2>2, <3>1
  <2> QED BY <2>1, <2>2
<1> QED BY <1>3, BytesAreNumbers

LEMMA ByteIfType ==
  ASSUME NEW condition, NEW byte \in Nat
  PROVE  ByteIf(condition, byte) \in Seq(Nat)
BY DEF ByteIf

LEMMA Joined ==
  ASSUME NEW s \in Seq(Nat), NEW t \in Seq(Nat)
  PROVE  s \o t \in Seq(Nat)
OBVIOUS

LEMMA BitsType ==
  ASSUME NEW n \in Nat
  PROVE  /\ Bits(n, 0, 2) \in Nat /\ Bits(n, 0, 3) \in Nat /\ Bits(n, 0, 4) \in Nat
         /\ Bit(n, 0) \in Nat /\ Bit(n, 1) \in Nat /\ Bit(n, 4) \in Nat
<1>1. 2^0 = 1 /\ 2^1 = 2 /\ 2^2 = 4 /\ 2^3 = 8 /\ 2^4 = 16
  OBVIOUS
<1>2. (n \div 1) % 4 \in Nat /\ (n \div 1) % 8 \in Nat /\ (n \div 1) % 16 \in Nat
  OBVIOUS
<1>3. (n \div 1) % 2 \in Nat /\ (n \div 2) % 2 \in Nat /\ (n \div 16) % 2 \in Nat
  OBVIOUS
<1> QED BY <1>1, <1>2, <1>3 DEF Bits, Bit

Vectors == {"", "66", "F2", "F3"}
Maps == {"0F", "0F38", "0F3A"}
Segments == {"CS", "SS", "DS", "ES", "FS", "GS"}

LEMMA ByteTables ==
  /\ \A seg \in Segments : SegmentByte[seg] \in Nat
  /\ \A lock \in {"LOCK", "REP", "REPNE"} : LockOrRepByte[lock] \in Nat
  /\ \A p \in Vectors : MandatoryBits[p] \in Nat
  /\ \A m \in Maps : MapSelectBits[m] \in Nat
<1>1. \A seg \in Segments : SegmentByte[seg] \in Nat
  BY DEF Segments, SegmentByte
<1>2. \A lock \in {"LOCK", "REP", "REPNE"} : LockOrRepByte[lock] \in Nat
  BY DEF LockOrRepByte
<1>3. \A p \in Vectors : MandatoryBits[p] \in Nat
  <2>1. MandatoryBits[""] = 0 /\ MandatoryBits["66"] = 1
    BY DEF MandatoryBits
  <2>2. MandatoryBits["F3"] = 2 /\ MandatoryBits["F2"] = 3
    BY DEF MandatoryBits
  <2>3. 0 \in Nat /\ 1 \in Nat /\ 2 \in Nat /\ 3 \in Nat
    OBVIOUS
  <2> QED BY <2>1, <2>2, <2>3, Zenon DEF Vectors
<1>4. \A m \in Maps : MapSelectBits[m] \in Nat
  BY DEF Maps, MapSelectBits
<1> QED BY <1>1, <1>2, <1>3, <1>4

LEMMA VexNumbers ==
  ASSUME NEW vex \in VexOrEvexPrefix
  PROVE  vex.nr \in Nat /\ vex.v \in Nat /\ vex.len \in Nat /\ vex.suffix \in Nat /\ vex.aaa \in Nat
BY DEF VexOrEvexPrefix

LEMMA VexFlags ==
  ASSUME NEW vex \in VexOrEvexPrefix
  PROVE  vex.nb \in 0..1 /\ vex.nx \in 0..1 /\ vex.w \in 0..1 /\ vex.z \in 0..1 /\ vex.bc \in 0..1
BY DEF VexOrEvexPrefix

LEMMA VexNames ==
  ASSUME NEW vex \in VexOrEvexPrefix
  PROVE  vex.pfx \in Vectors /\ vex.map \in Maps \cup {""}
BY DEF VexOrEvexPrefix, Vectors, Maps

\* An optional byte of an encoding.
LEMMA NoneOrByte ==
  ASSUME NEW s, NEW byte, byte \in Nat \/ s = << >>, s = << >> \/ s = <<byte>>
  PROVE  s \in Seq(Nat)
<1>1. CASE s = << >>
  BY <1>1
<1>2. CASE s # << >>
  <2>1. byte \in Nat /\ s = <<byte>>
    BY <1>2
  <2> QED BY <2>1
<1> QED BY <1>1, <1>2

ShortVex(nr, low, len, pfx) == <<197, 128 * nr + (8 * low + 4 * len + pfx)>>
LongVex(nr, nx, nb, map, w, low, len, pfx) ==
  <<196, 128 * nr + 64 * nx + 32 * nb + map, 128 * w + (8 * low + 4 * len + pfx)>>
Evex(r0, nx, nb, r1, map, w, low, pfx, z, len, bc, v4, aaa) ==
  <<98, 128 * r0 + 64 * nx + 32 * nb + 16 * r1 + map, 128 * w + 8 * low + 4 + pfx,
    128 * z + 32 * len + 16 * bc + 8 * v4 + aaa>>

LEMMA VexBytes ==
  ASSUME NEW nr \in Nat, NEW nx \in Nat, NEW nb \in Nat, NEW map \in Nat, NEW w \in Nat,
         NEW low \in Nat, NEW len \in Nat, NEW pfx \in Nat
  PROVE  ShortVex(nr, low, len, pfx) \in Seq(Nat) /\ LongVex(nr, nx, nb, map, w, low, len, pfx) \in Seq(Nat)
<1>1. 128 * nr + (8 * low + 4 * len + pfx) \in Nat
  OBVIOUS
<1>2. 128 * nr + 64 * nx + 32 * nb + map \in Nat /\ 128 * w + (8 * low + 4 * len + pfx) \in Nat
  OBVIOUS
<1> QED BY <1>1, <1>2 DEF ShortVex, LongVex

LEMMA EvexBytes ==
  ASSUME NEW r0 \in Nat, NEW nx \in Nat, NEW nb \in Nat, NEW r1 \in Nat, NEW map \in Nat, NEW w \in Nat,
         NEW low \in Nat, NEW pfx \in Nat, NEW z \in Nat, NEW len \in Nat, NEW bc \in Nat,
         NEW v4 \in Nat, NEW aaa \in Nat
  PROVE  Evex(r0, nx, nb, r1, map, w, low, pfx, z, len, bc, v4, aaa) \in Seq(Nat)
<1>1. 128 * r0 + 64 * nx + 32 * nb + 16 * r1 + map \in Nat
  OBVIOUS
<1>2. 128 * w + 8 * low + 4 + pfx \in Nat /\ 128 * z + 32 * len + 16 * bc + 8 * v4 + aaa \in Nat
  OBVIOUS
<1> QED BY <1>1, <1>2 DEF Evex

LEMMA LegacyFields ==
  ASSUME NEW leg \in LegacyPrefixes
  PROVE  leg.rex \in RexPrefix /\ leg.lock \in {"", "LOCK", "REP", "REPNE"}
BY DEF LegacyPrefixes

LEMMA InstructionFields ==
  ASSUME NEW i \in DecodedInstruction
  PROVE  /\ i.leg \in LegacyPrefixes /\ i.vex \in VexOrEvexPrefix /\ i.seg \in Segments \cup {""}
         /\ i.op \in Nat /\ i.imm \in Seq(Seq(Byte)) /\ i.code \in Seq(Byte)
<1>1. i.leg \in LegacyPrefixes /\ i.vex \in VexOrEvexPrefix
  BY DEF DecodedInstruction
<1>2. i.seg \in Segments \cup {""}
  BY DEF DecodedInstruction, Segments
<1>3. i.op \in Nat /\ i.imm \in Seq(Seq(Byte)) /\ i.code \in Seq(Byte)
  BY DEF DecodedInstruction
<1> QED BY <1>1, <1>2, <1>3

LEMMA RexByteType ==
  ASSUME NEW rex \in RexPrefix
  PROVE  RexByte(rex) \in Nat
<1>1. rex.b \in 0..1 /\ rex.r \in 0..1 /\ rex.w \in 0..1 /\ rex.x \in 0..1
  BY DEF RexPrefix
<1> QED BY <1>1 DEF RexByte

\* The parts of a prefix.
SegmentBytesOf(i) == IF i.seg = "" THEN << >> ELSE <<SegmentByte[i.seg]>>
AddressBytesOf(i) == ByteIf(i.addr, AddressSizeOverrideByte)

LEMMA PrefixParts ==
  ASSUME NEW spec, spec.type \in {"legacy", "VEX", "EVEX"},
         NEW i \in DecodedInstruction, ValidatePrefix(spec, i)
  PROVE  /\ SegmentBytesOf(i) \in Seq(Nat) /\ AddressBytesOf(i) \in Seq(Nat)
         /\ EncodeRexPrefix(i) \in Seq(Nat) /\ EncodeLockOrRepPrefix(i) \in Seq(Nat)
         /\ EncodeOperandSizeOverridePrefix(i) \in Seq(Nat)
         /\ spec.type # "legacy" => /\ i.kind = spec.type
                                    /\ EncodeVexPrefix(spec, i) \in Seq(Nat)
                                    /\ EncodeEvexPrefix(spec, i) \in Seq(Nat)
<1>1. PICK leg \in LegacyPrefixes : leg = i.leg
  BY InstructionFields
<1> DEFINE vex == i.vex
<1>2. vex \in VexOrEvexPrefix
  BY InstructionFields
<1>3. SegmentBytesOf(i) \in Seq(Nat)
  <2>1. i.seg # "" => SegmentByte[i.seg] \in Nat
    BY InstructionFields, ByteTables
  <2>2. PICK s : s = IF i.seg = "" THEN << >> ELSE <<SegmentByte[i.seg]>>
    OBVIOUS
  <2>3. \/ s = << >>
        \/ SegmentByte[i.seg] \in Nat /\ s = <<SegmentByte[i.seg]>>
    BY <2>1, <2>2, Zenon
  <2> QED BY <2>2, <2>3, NoneOrByte, Zenon DEF SegmentBytesOf
<1>4. AddressBytesOf(i) \in Seq(Nat)
  BY ByteIfType DEF AddressBytesOf, AddressSizeOverrideByte
<1>5. /\ EncodeRexPrefix(i) \in Seq(Nat) /\ EncodeLockOrRepPrefix(i) \in Seq(Nat)
      /\ EncodeOperandSizeOverridePrefix(i) \in Seq(Nat)
  <2>1. PICK rex \in Nat : rex = RexByte(leg.rex)
    BY LegacyFields, RexByteType
  <2>2. EncodeRexPrefix(i) \in Seq(Nat)
    BY <1>1, <2>1, ByteIfType DEF EncodeRexPrefix
  <2>3. leg.lock # "" => LockOrRepByte[leg.lock] \in Nat
    BY LegacyFields, ByteTables
  <2>4. \/ EncodeLockOrRepPrefix(i) = << >>
        \/ LockOrRepByte[leg.lock] \in Nat /\ EncodeLockOrRepPrefix(i) = <<LockOrRepByte[leg.lock]>>
    BY <1>1, <2>3, Zenon DEF EncodeLockOrRepPrefix
  <2>5. EncodeLockOrRepPrefix(i) \in Seq(Nat)
    BY <2>4, NoneOrByte, Zenon
  <2>6. EncodeOperandSizeOverridePrefix(i) \in Seq(Nat)
    BY ByteIfType DEF EncodeOperandSizeOverridePrefix, OperandSizeOverrideByte
  <2> QED BY <2>2, <2>5, <2>6
<1>6. vex.nr \in Nat /\ vex.v \in Nat /\ vex.len \in Nat /\ vex.aaa \in Nat
  BY <1>2, VexNumbers
<1>7. MandatoryBits[vex.pfx] \in Nat
  BY <1>2, VexNames, ByteTables
<1>8. vex.nr \in Nat /\ vex.len \in Nat
  BY <1>6
<1>9. vex.nb \in Nat /\ vex.nx \in Nat /\ vex.w \in Nat /\ vex.z \in Nat /\ vex.bc \in Nat
  <2>1. 0..1 \subseteq Nat
    OBVIOUS
  <2> QED BY <1>2, <2>1, VexFlags, Zenon
<1>10. ASSUME spec.type # "legacy" PROVE vex.map # "" /\ i.kind = spec.type
  BY <1>2, <1>10 DEF ValidatePrefix, ValidateVexPrefix, ValidateEvexPrefix, ValidateVexFields,
                    ValidateMapSelectBits
<1>11. ASSUME spec.type # "legacy" PROVE MapSelectBits[vex.map] \in Nat
  <2>1. vex.map \in Maps
    BY <1>2, VexNames, <1>10, <1>11
  <2> QED BY <2>1, ByteTables
<1>12. ASSUME spec.type # "legacy" PROVE EncodeVexPrefix(spec, i) \in Seq(Nat)
  <2> DEFINE low == Bits(IF spec.vex.usage = "NOT_USED" THEN 15 ELSE vex.v, 0, 4)
             short == ShortVex(vex.nr, low, vex.len, MandatoryBits[vex.pfx])
             long == LongVex(vex.nr, vex.nx, vex.nb, MapSelectBits[vex.map], vex.w, low, vex.len,
                             MandatoryBits[vex.pfx])
  <2>1. low \in Nat
    BY <1>6, BitsType
  <2>2. EncodeVexPrefix(spec, i) =
          IF vex.nx = 1 /\ vex.nb = 1 /\ vex.w = 0 /\ vex.map = "0F" THEN short ELSE long
    BY Zenon DEF EncodeVexPrefix, ShortVex, LongVex
  <2>3. short \in Seq(Nat) /\ long \in Seq(Nat)
    <3> HIDE DEF low
    <3> QED BY <1>7, <1>11, <1>12, <1>8, <1>9, <2>1, VexBytes, Zenon
  <2> HIDE DEF short, long
  <2> QED BY <2>2, <2>3
<1>13. ASSUME spec.type # "legacy" PROVE EncodeEvexPrefix(spec, i) \in Seq(Nat)
  <2> DEFINE low == Bits(IF spec.vex.usage = "NOT_USED" THEN 31 ELSE vex.v, 0, 4)
             evex == Evex(Bit(vex.nr, 0), vex.nx, vex.nb, Bit(vex.nr, 1), MapSelectBits[vex.map], vex.w, low,
                          MandatoryBits[vex.pfx], vex.z, Bits(vex.len, 0, 2), vex.bc, Bit(vex.v, 4),
                          Bits(vex.aaa, 0, 3))
  <2>1. low \in Nat
    BY <1>6, BitsType
  <2>2. EncodeEvexPrefix(spec, i) = evex
    BY <1>2, Zenon DEF EncodeEvexPrefix, Evex
  <2>3. /\ Bit(vex.nr, 0) \in Nat /\ Bit(vex.nr, 1) \in Nat /\ Bits(vex.len, 0, 2) \in Nat
        /\ Bit(vex.v, 4) \in Nat /\ Bits(vex.aaa, 0, 3) \in Nat
    BY <1>6, BitsType, Zenon
  <2>4. evex \in Seq(Nat)
    <3> HIDE DEF low
    <3> QED BY <1>7, <1>11, <1>13, <1>9, <2>1, <2>3, EvexBytes, Zenon
  <2> QED BY <2>2, <2>4, Zenon
<1> QED BY <1>3, <1>4, <1>5, <1>10, <1>12, <1>13

LEMMA PrefixBytes ==
  ASSUME NEW spec, spec.type \in {"legacy", "VEX", "EVEX"},
         NEW i \in DecodedInstruction, ValidatePrefix(spec, i)
  PROVE  EncodePrefix(spec, i) \in Seq(Nat)
<1>1. EncodeLegacyPrefixes(i) \in Seq(Nat)
  BY PrefixParts, Joined DEF EncodeLegacyPrefixes
<1>2. spec.type # "legacy" => /\ i.kind = spec.type
                              /\ EncodeVexPrefix(spec, i) \in Seq(Nat)
                              /\ EncodeEvexPrefix(spec, i) \in Seq(Nat)
  BY PrefixParts
<1>3. PICK prefix \in Seq(Nat) :
        prefix = CASE spec.type = "legacy" -> EncodeLegacyPrefixes(i)
                   [] spec.type # "legacy" /\ i.kind = "VEX"  -> EncodeVexPrefix(spec, i)
                   [] spec.type # "legacy" /\ i.kind = "EVEX" -> EncodeEvexPrefix(spec, i)
  <2>1. CASE spec.type = "legacy"
    BY <1>1, <2>1
  <2>2. CASE spec.type = "VEX"
    BY <1>2, <2>2
  <2>3. CASE spec.type = "EVEX"
    BY <1>2, <2>3
  <2> QED BY <2>1, <2>2, <2>3
<1>4. EncodePrefix(spec, i) = (SegmentBytesOf(i) \o AddressBytesOf(i)) \o prefix
  BY <1>3, Zenon DEF EncodePrefix, SegmentBytesOf, AddressBytesOf
<1> QED BY <1>4, PrefixParts, Joined

IsWide(op) == op > 65535
TopOf(op) == op \div 65536
IsWidest(op) == op > 16777215
FirstOf(op) == (op \div 16777216) % 256
OpcodeFrom(op) ==
  ByteIf(IsWidest(op), FirstOf(op)) \o ByteIf(IsWide(op), TopOf(op) % 256)
    \o ByteIf(op > 255, (op \div 256) % 256) \o <<op % 256>>

LEMMA TopIs ==
  ASSUME NEW op \in Nat
  PROVE  /\ TopOf(op) = (op \div 256) \div 256 /\ (IsWide(op) <=> (op \div 256) \div 256 >= 1) /\ TopOf(op) \in Nat
         /\ TopOf(op) < 256 => ~ IsWidest(op) /\ TopOf(op) % 256 = TopOf(op)
<1>1. TopOf(op) = (op \div 256) \div 256 /\ (IsWide(op) <=> (op \div 256) \div 256 >= 1) /\ TopOf(op) \in Nat
  BY SMT DEF TopOf, IsWide
<1>2. ASSUME TopOf(op) < 256 PROVE ~ IsWidest(op) /\ TopOf(op) % 256 = TopOf(op)
  <2>1. op < 16777216
    BY <1>2, SMT DEF TopOf
  <2>2. PICK top \in Nat : top = TopOf(op)
    BY <1>1
  <2>3. top % 256 = top
    BY <1>2, <2>2
  <2> QED BY <2>1, <2>2, <2>3 DEF IsWidest
<1> QED BY <1>1, <1>2

LEMMA OpcodeFromType ==
  ASSUME NEW op \in Nat
  PROVE  OpcodeFrom(op) \in Seq(Nat)
<1>1. PICK top \in Nat : top = TopOf(op)
  BY TopIs
<1>2. /\ FirstOf(op) \in Nat
      /\ top % 256 \in Nat /\ (op \div 256) % 256 \in Nat /\ op % 256 \in Nat
  BY DEF FirstOf
<1>3. PICK w \in Nat, x \in Nat, y \in Nat, z \in Nat :
        w = FirstOf(op) /\ x = TopOf(op) % 256 /\ y = (op \div 256) % 256 /\ z = op % 256
  BY <1>1, <1>2
<1>4. PICK r \in Seq(Nat), s \in Seq(Nat), t \in Seq(Nat) :
        r = ByteIf(IsWidest(op), w) /\ s = ByteIf(IsWide(op), x) /\ t = ByteIf(op > 255, y)
  BY ByteIfType
<1>5. r \o s \o t \o <<z>> \in Seq(Nat)
  OBVIOUS
<1> QED BY <1>3, <1>4, <1>5 DEF OpcodeFrom

LEMMA OpcodeBytes ==
  ASSUME NEW spec, OpcodeOf(spec) \in Nat, NEW i \in DecodedInstruction
  PROVE  EncodeOpcode(spec, i) \in Seq(Nat)
<1> DEFINE raw == IF i.op > 0 THEN i.op ELSE OpcodeOf(spec)
           op == IF spec.type = "legacy" THEN raw ELSE raw % 256
<1>1. raw \in Nat
  BY InstructionFields
<1>2. op \in Nat
  <2> HIDE DEF raw
  <2>1. raw % 256 \in Nat
    BY <1>1
  <2> QED BY <1>1, <2>1
<1>3. EncodeOpcode(spec, i) = OpcodeFrom(op)
  BY SMT DEF EncodeOpcode, OpcodeFrom, IsWide, TopOf, IsWidest, FirstOf
<1> HIDE DEF op
<1> QED BY <1>2, <1>3, OpcodeFromType

LEMMA ModRmBytes ==
  ASSUME NEW spec, NEW i \in DecodedInstruction
  PROVE  EncodeModRM(spec, i) \in Seq(Nat)
<1> DEFINE m == ModRmOf(i)
           s == SibOf(i)
<1>1. m \in ModRm /\ s \in Sib
  BY ModRmOfType
<1>2. ASSUME NEW modrm \in ModRm
      PROVE  modrm.mod \in 0..3 /\ modrm.mod \in Nat /\ modrm.reg \in Nat /\ modrm.rm \in Nat /\ modrm.disp \in Int
  BY DEF ModRm
<1>3. m.mod \in 0..3 /\ m.mod \in Nat /\ m.reg \in Nat /\ m.rm \in Nat /\ m.disp \in Int
  BY <1>1, <1>2
<1>4. ASSUME NEW sib \in Sib
       PROVE  sib.scale \in Nat /\ sib.index \in Nat /\ sib.base \in Nat
  BY DEF Sib
<1>5. s.scale \in Nat /\ s.index \in Nat /\ s.base \in Nat
  BY <1>1, <1>4
<1>6. ASSUME NEW a \in Nat, NEW b \in Nat, NEW c \in Nat
      PROVE  Compose233BitValues(a, b, c) \in Nat
  <2>1. a % 4 \in Nat /\ b % 8 \in Nat /\ c % 8 \in Nat
    OBVIOUS
  <2>2. PICK x \in Nat, y \in Nat, z \in Nat : x = a % 4 /\ y = b % 8 /\ z = c % 8
    BY <2>1
  <2>3. 64 * x + 8 * y + z \in Nat
    OBVIOUS
  <2> QED BY <2>2, <2>3, Zenon DEF Compose233BitValues
<1>7. Compose233BitValues(m.mod, m.reg, m.rm) \in Nat
  BY <1>3, <1>6, Zenon
<1>8. Compose233BitValues(s.scale, s.index, s.base) \in Nat
  BY <1>5, <1>6, Zenon
<1> DEFINE n == NumModRmDisplacementBytes(m, s)
           disp == CASE n = 0 -> << >> [] n = 1 -> <<m.disp % 256>> [] n = 4 -> EmitDWord(m.disp)
<1>9. n \in {0, 1, 4}
  BY <1>3 DEF NumModRmDisplacementBytes
<1>10. disp \in Seq(Nat)
  <2> HIDE DEF n
  <2>1. PICK d \in Int : d = m.disp
    BY <1>3
  <2>2. d % 256 \in Nat /\ (d \div 256) % 256 \in Nat
    OBVIOUS
  <2>3. (d \div 65536) % 256 \in Nat /\ (d \div 16777216) % 256 \in Nat
    OBVIOUS
  <2>4. <<d % 256>> \in Seq(Nat) /\ EmitDWord(d) \in Seq(Nat)
    BY <2>2, <2>3 DEF EmitDWord
  <2>5. CASE n = 0
    BY <2>5
  <2>6. CASE n = 1
    BY <2>1, <2>4, <2>6
  <2>7. CASE n = 4
    BY <2>1, <2>4, <2>7
  <2> QED BY <1>9, <2>5, <2>6, <2>7
<1>11. <<Compose233BitValues(m.mod, m.reg, m.rm)>> \in Seq(Nat)
  BY <1>7
<1>12. ByteIf(ModRmRequiresSib(m), Compose233BitValues(s.scale, s.index, s.base)) \in Seq(Nat)
  BY <1>8, ByteIfType
<1>13. EncodeModRM(spec, i) =
         IF spec.modrm = "NO" THEN << >>
         ELSE <<Compose233BitValues(m.mod, m.reg, m.rm)>>
                \o ByteIf(ModRmRequiresSib(m), Compose233BitValues(s.scale, s.index, s.base)) \o disp
  BY Zenon DEF EncodeModRM
<1> HIDE DEF disp
<1>14. << >> \in Seq(Nat)
  OBVIOUS
<1> QED BY <1>10, <1>11, <1>12, <1>13, <1>14, Joined, ZenonT(40)

\* Every byte of an encoding that EncodeInstruction returns is a number.
LEMMA EncodingType ==
  ASSUME NEW n \in DOMAIN Database, NEW i \in DecodedInstruction, Validate(Database[n].spec, i)
  PROVE  Encode(Database[n].spec, i) \in Seq(Nat)
<1> DEFINE spec == Database[n].spec
<1>1. EncodePrefix(spec, i) \in Seq(Nat)
  BY DatabaseTypes, PrefixBytes DEF Validate
<1>2. EncodeOpcode(spec, i) \in Seq(Nat)
  BY DatabaseTypes, OpcodeBytes
<1>3. EncodeModRM(spec, i) \in Seq(Nat)
  BY ModRmBytes
<1>4. EncodeImmediateValues(i) \in Seq(Nat)
  BY InstructionFields, BytesAreNumbers, FlattenType, Joined DEF EncodeImmediateValues
<1>5. EncodeVexSuffix(spec, i) \in Seq(Nat)
  <2>1. i.vex.suffix \in Nat
    <3>1. i.vex \in VexOrEvexPrefix
      BY InstructionFields
    <3>2. i.vex.suffix \in Nat
      BY <3>1, VexNumbers
    <3> QED BY <3>2
  <2>2. PICK byte \in Nat : byte = IF i.kind = "VEX" THEN i.vex.suffix ELSE 0
    BY <2>1
  <2> QED BY <2>2, ByteIfType DEF EncodeVexSuffix
<1>6. Encode(spec, i) = (((EncodePrefix(spec, i) \o EncodeOpcode(spec, i)) \o EncodeModRM(spec, i))
                           \o EncodeImmediateValues(i)) \o EncodeVexSuffix(spec, i)
  BY Zenon DEF Encode
<1> HIDE DEF spec
<1>7. EncodePrefix(spec, i) \o EncodeOpcode(spec, i) \in Seq(Nat)
  BY <1>1, <1>2, Joined
<1>8. (EncodePrefix(spec, i) \o EncodeOpcode(spec, i)) \o EncodeModRM(spec, i) \in Seq(Nat)
  BY <1>3, <1>7, Joined
<1>9. Encode(spec, i) \in Seq(Nat)
  BY <1>4, <1>5, <1>6, <1>8, Joined
<1> QED BY <1>9 DEF spec

-----------------------------------------------------------------------------
(* The opcode that the parser reads.  FoldLeft recurses on the subsets of    *)
(* the positions, from the last one down; an opcode has at most four bytes.  *)

LEMMA MaxOfFew ==
  ASSUME NEW S \in SUBSET (0..4), S # {}
  PROVE  Max(S) \in S /\ \A y \in S : Max(S) >= y
<1>1. \E x \in S : \A y \in S : x >= y
  <2>1. CASE 4 \in S
    BY <2>1
  <2>2. CASE 4 \notin S /\ 3 \in S
    BY <2>2
  <2>3. CASE 4 \notin S /\ 3 \notin S /\ 2 \in S
    BY <2>3
  <2>4. CASE 4 \notin S /\ 3 \notin S /\ 2 \notin S /\ 1 \in S
    BY <2>4
  <2>5. CASE 4 \notin S /\ 3 \notin S /\ 2 \notin S /\ 1 \notin S
    <3>1. ASSUME NEW y \in S PROVE y = 0
      <4>1. y \in 0..4 /\ y # 4 /\ y # 3 /\ y # 2 /\ y # 1
        BY <2>5
      <4> QED BY <4>1
    <3>2. S = {0}
      BY <3>1
    <3>3. 0 >= 0
      OBVIOUS
    <3> QED BY <3>2, <3>3, Zenon
  <2> QED BY <2>1, <2>2, <2>3, <2>4, <2>5
<1> QED BY <1>1 DEF Max

LEMMA LastOf ==
  ASSUME NEW n \in 1..4
  PROVE  Max(1..n) = n
<1>1. Max(1..n) \in 1..n /\ \A y \in 1..n : Max(1..n) >= y
  <2>1. \E x \in 1..n : \A y \in 1..n : x >= y
    OBVIOUS
  <2> QED BY <2>1 DEF Max
<1> QED BY <1>1

Appended(op, byte) == 256 * op + byte
OpcodeOfBytes(seq) == FoldLeft(LAMBDA op, byte : 256 * op + byte, 0, seq)

\* A fixed point of the recursion: the bytes at the positions in s, the last one lowest.
At(s, k, seq, op) == IF k \in s THEN Appended(op, seq[k]) ELSE op
Composed(s, seq) == At(s, 4, seq, At(s, 3, seq, At(s, 2, seq, At(s, 1, seq, 0))))

\* The number that the first n bytes are, the last one lowest.
OpcodeNumber(seq, n) ==
  CASE n = 0 -> 0
    [] n = 1 -> seq[1]
    [] n = 2 -> 256 * seq[1] + seq[2]
    [] n = 3 -> 256 * (256 * seq[1] + seq[2]) + seq[3]
    [] n = 4 -> 256 * (256 * (256 * seq[1] + seq[2]) + seq[3]) + seq[4]

LEMMA OpcodeOfBytesIs ==
  ASSUME NEW seq \in Seq(Nat), Len(seq) <= 4
  PROVE  OpcodeOfBytes(seq) = OpcodeNumber(seq, Len(seq))
<1> DEFINE D == DOMAIN seq
           Step(s, f) == IF s = {} THEN 0 ELSE 256 * f[s \ {Max(s)}] + seq[Max(s)]
           Is(f) == f = [s \in SUBSET D |-> Step(s, f)]
           it == CHOOSE f : Is(f)
           h == [s \in SUBSET D |-> Composed(s, seq)]
<1>1. OpcodeOfBytes(seq) = it[D]
  BY DEF OpcodeOfBytes, FoldLeft, MapThenFoldSet
<1>2. PICK N \in 0..4 : N = Len(seq) /\ D = 1..N
  <2>1. Len(seq) \in Nat /\ D = 1..Len(seq)
    OBVIOUS
  <2>2. Len(seq) \in 0..4
    <3>1. PICK L \in Nat : L = Len(seq)
      BY <2>1
    <3>2. L <= 4
      BY <3>1
    <3>3. L \in 0..4
      BY <3>2
    <3> QED BY <3>1, <3>3
  <2> QED BY <2>1, <2>2, Zenon
<1>3. ASSUME NEW s \in SUBSET D PROVE h[s] = Step(s, h)
  <2>1. CASE s = {}
    BY <2>1 DEF Composed, At
  <2>2. CASE s # {}
    <3>1. PICK x \in s : x = Max(s) /\ \A y \in s : x >= y
      <4>1. s \in SUBSET (0..4)
        BY <1>2
      <4> QED BY <2>2, <4>1, MaxOfFew
    <3>2. s \ {x} \in SUBSET D
      OBVIOUS
    <3>3. Step(s, h) = Appended(Composed(s \ {x}, seq), seq[x])
      BY <2>2, <3>1, <3>2 DEF Appended
    <3>4. Composed(s, seq) = Appended(Composed(s \ {x}, seq), seq[x])
      <4>1. x \in {1, 2, 3, 4}
        BY <1>2
      <4>2. CASE x = 1
        BY <1>2, <3>1, <4>2 DEF Composed, At
      <4>3. CASE x = 2
        BY <1>2, <3>1, <4>3 DEF Composed, At
      <4>4. CASE x = 3
        BY <1>2, <3>1, <4>4 DEF Composed, At
      <4>5. CASE x = 4
        BY <1>2, <3>1, <4>5 DEF Composed, At
      <4> QED BY <4>1, <4>2, <4>3, <4>4, <4>5
    <3> QED BY <3>3, <3>4
  <2> QED BY <2>1, <2>2
<1>4. Is(h)
  <2> HIDE DEF Step
  <2> QED BY <1>3
<1>5. Is(it)
  <2> HIDE DEF Is, h
  <2> QED BY <1>4
<1>6. it[{}] = 0
  BY <1>5
<1> DEFINE Composes(n) == it[1..n] = OpcodeNumber(seq, n)
<1>7. ASSUME NEW m \in 0..3, m + 1 <= N, Composes(m)
      PROVE  Composes(m + 1)
  <2>1. PICK n \in 1..4 : n = m + 1
    OBVIOUS
  <2> HIDE DEF it
  <2>2. 1..n \in SUBSET D /\ 1..n # {}
    BY <1>2, <1>7, <2>1
  <2>3. (1..n) \ {n} = 1..m
    BY <2>1
  <2>4. Max(1..n) = n
    BY LastOf
  <2>5. it[1..n] = 256 * it[1..m] + seq[n]
    BY <1>5, <2>2, <2>3, <2>4, ZenonT(40)
  <2>6. seq[n] \in Nat
    BY <1>2, <1>7, <2>1
  <2>7. OpcodeNumber(seq, n) = 256 * OpcodeNumber(seq, m) + seq[n]
    BY <1>7, <2>1, <2>6, SMT DEF OpcodeNumber
  <2>8. it[1..n] = OpcodeNumber(seq, n)
    BY <1>7, <2>5, <2>7, Zenon
  <2> QED BY <2>1, <2>8, Zenon
<1>8. Composes(0)
  <2>1. 1..0 = {}
    OBVIOUS
  <2> HIDE DEF it
  <2> QED BY <1>6, <2>1 DEF OpcodeNumber
<1> HIDE DEF it, Composes
<1>9. 1 <= N => Composes(1)
  BY <1>7, <1>8
<1>10. 2 <= N => Composes(2)
  BY <1>7, <1>9
<1>11. 3 <= N => Composes(3)
  BY <1>7, <1>10
<1>12. 4 <= N => Composes(4)
  BY <1>7, <1>11
<1>13. N = 0 \/ N = 1 \/ N = 2 \/ N = 3 \/ N = 4
  OBVIOUS
<1>14. Composes(N)
  BY <1>8, <1>9, <1>10, <1>11, <1>12, <1>13
<1> QED BY <1>1, <1>2, <1>14 DEF Composes

LEMMA OpcodeNumberType ==
  ASSUME NEW seq \in Seq(Nat), NEW n \in 0..4, n <= Len(seq)
  PROVE  OpcodeNumber(seq, n) \in Nat
<1>1. \A k \in 1..n : seq[k] \in Nat
  OBVIOUS
<1>2. CASE n = 0
  BY <1>2 DEF OpcodeNumber
<1>3. CASE n = 1
  BY <1>1, <1>3 DEF OpcodeNumber
<1>4. CASE n = 2
  <2>1. PICK a \in Nat, b \in Nat : a = seq[1] /\ b = seq[2]
    BY <1>1, <1>4
  <2> QED BY <1>4, <2>1 DEF OpcodeNumber
<1>5. CASE n = 3
  <2>1. PICK a \in Nat, b \in Nat, c \in Nat : a = seq[1] /\ b = seq[2] /\ c = seq[3]
    BY <1>1, <1>5
  <2> QED BY <1>5, <2>1, SMTT(40) DEF OpcodeNumber
<1>6. CASE n = 4
  <2>1. PICK a \in Nat, b \in Nat, c \in Nat, d \in Nat : a = seq[1] /\ b = seq[2] /\ c = seq[3] /\ d = seq[4]
    BY <1>1, <1>6, SMTT(40)
  <2>2. OpcodeNumber(seq, 4) = 256 * (256 * (256 * a + b) + c) + d
    BY <2>1 DEF OpcodeNumber
  <2>3. 256 * (256 * (256 * a + b) + c) + d \in Nat
    OBVIOUS
  <2> QED BY <1>6, <2>2, <2>3
<1> QED BY <1>2, <1>3, <1>4, <1>5, <1>6

LEMMA OpcodeOfBytesType ==
  ASSUME NEW seq \in Seq(Nat), Len(seq) <= 4
  PROVE  OpcodeOfBytes(seq) \in Nat
<1>1. PICK n \in Nat : n = Len(seq)
  OBVIOUS
<1>2. n \in 0..4
  BY <1>1, SMTT(40)
<1> QED BY <1>1, <1>2, OpcodeOfBytesIs, OpcodeNumberType

-----------------------------------------------------------------------------
(* The lookup of specifications.                                             *)

LEMMA MinOf ==
  ASSUME NEW S \in SUBSET Nat, S # {}
  PROVE  Min(S) \in S
BY LeastExists DEF Min

\* Two instructions that a specification cannot tell apart, but for their opcodes.
Alike(i, j) ==
  /\ j.kind = i.kind /\ j.leg = i.leg /\ j.addr = i.addr /\ j.modrm = i.modrm /\ j.sib = i.sib
  /\ j.vex.pfx = i.vex.pfx /\ j.vex.map = i.vex.map /\ j.vex.w = i.vex.w
  /\ j.vex.len = i.vex.len /\ j.vex.bc = i.vex.bc

OpcodeMatches(spec, op) == \/ OpcodeOf(spec) = op
                           \/ spec.inop # "NO" /\ OpcodeOf(spec) = op - (op % 8)

LEMMA PrefixesMatchAlike ==
  ASSUME NEW spec, NEW i, NEW j, Alike(i, j), PrefixesAndOpcodeMatchSpecification(spec, i),
         OpcodeMatches(spec, j.op)
  PROVE  PrefixesAndOpcodeMatchSpecification(spec, j)
<1>1. j.kind = spec.type
  BY DEF Alike, PrefixesAndOpcodeMatchSpecification
<1>2. CASE spec.type = "EVEX"
  <2>1. EvexPrefixMatchesSpecification(spec, i)
    BY <1>2, Zenon DEF PrefixesAndOpcodeMatchSpecification
  <2>2. EvexPrefixMatchesSpecification(spec, j)
    BY <2>1, Zenon DEF Alike, EvexPrefixMatchesSpecification, MandatoryPrefixAndMapSelectMatchSpecification
  <2> QED BY <1>1, <1>2, <2>2 DEF PrefixesAndOpcodeMatchSpecification, OpcodeMatches
<1>3. CASE spec.type = "VEX"
  <2>1. VexPrefixMatchesSpecification(spec, i)
    BY <1>3 DEF PrefixesAndOpcodeMatchSpecification
  <2>2. VexPrefixMatchesSpecification(spec, j)
    BY <2>1, Zenon DEF Alike, VexPrefixMatchesSpecification, MandatoryPrefixAndMapSelectMatchSpecification
  <2> QED BY <1>1, <1>3, <2>2 DEF PrefixesAndOpcodeMatchSpecification, OpcodeMatches
<1>4. CASE spec.type # "EVEX" /\ spec.type # "VEX"
  <2>1. LegacyPrefixesMatchSpecification(spec, i)
    BY <1>4 DEF PrefixesAndOpcodeMatchSpecification
  <2>2. LegacyPrefixesMatchSpecification(spec, j)
    BY <2>1, Zenon DEF Alike, LegacyPrefixesMatchSpecification
  <2> QED BY <1>1, <1>4, <2>2 DEF PrefixesAndOpcodeMatchSpecification, OpcodeMatches
<1> QED BY <1>2, <1>3, <1>4

LEMMA ModRmMatchesAlike ==
  ASSUME NEW spec, NEW ops, NEW i, NEW j, Alike(i, j), ModRmUsageMatchesSpecification(spec, ops, i)
  PROVE  ModRmUsageMatchesSpecification(spec, ops, j)
<1>1. ModRmOf(j) = ModRmOf(i) /\ SibOf(j) = SibOf(i)
  BY Zenon DEF Alike, ModRmOf, SibOf
<1>2. ASSUME NEW mode
      PROVE  ModRmAddressingModeMatchesInstructionOperandAddressingMode(j, mode)
               = ModRmAddressingModeMatchesInstructionOperandAddressingMode(i, mode)
  BY <1>1, Zenon DEF ModRmAddressingModeMatchesInstructionOperandAddressingMode
<1>3. AddressingModeMatchesSpecification(ops, j) = AddressingModeMatchesSpecification(ops, i)
  BY <1>2, Zenon DEF AddressingModeMatchesSpecification
<1>4. ModRmUsageMatchesSpecification(spec, ops, j) = ModRmUsageMatchesSpecification(spec, ops, i)
  BY <1>1, <1>3, Zenon DEF ModRmUsageMatchesSpecification
<1> QED BY <1>4

LEMMA MatchesAlike ==
  ASSUME NEW e, NEW i, NEW j, NEW check, Alike(i, j), InstructionMatchesSpecification(e, i, check),
         OpcodeMatches(e.spec, j.op)
  PROVE  InstructionMatchesSpecification(e, j, check)
<1>1. PrefixesAndOpcodeMatchSpecification(e.spec, j)
  BY PrefixesMatchAlike DEF InstructionMatchesSpecification
<1>2. ModRmUsageMatchesSpecification(e.spec, e.ops, i) => ModRmUsageMatchesSpecification(e.spec, e.ops, j)
  BY ModRmMatchesAlike
<1> QED BY <1>1, <1>2, Zenon DEF InstructionMatchesSpecification

\* The fields that an instruction has, whatever their values.
Shaped(i) == DOMAIN i = DOMAIN NoInstruction /\ DOMAIN i.vex = DOMAIN NoVexBits

\* A lookup that does not fail returns a specification that the instruction matches, also when it
\* was found by the opcode without the operand in its lowest bits.
LEMMA Lookup ==
  ASSUME NEW i, Shaped(i), i.op \in Int, NEW check, NEW n, n = GetEncodingSpecification(i, check), n # 0
  PROVE  n \in DOMAIN Database /\ InstructionMatchesSpecification(Database[n], i, check)
<1> DEFINE masked == [i EXCEPT !.op = @ - (@ % 8)]
           all == GetInstructionIndices(Database, Opcodes, i, check)
           other == WithOperandInOpcode(Database, GetInstructionIndices(Database, Opcodes, masked, check))
<1>1. ASSUME NEW op PROVE GetCandidates(Database, Opcodes, op) \subseteq DOMAIN Database
  BY DEF GetCandidates, FirstNonEmpty, WithOpcode, WithOperandInOpcode, Opcodes
<1>2. all \subseteq DOMAIN Database /\ other \subseteq DOMAIN Database
  BY <1>1 DEF GetInstructionIndices, WithOperandInOpcode
<1>3. n = First(FirstNonEmpty(all, other))
  BY DEF GetEncodingSpecification, FindEncodingSpecification
<1>4. n \in FirstNonEmpty(all, other)
  <2>1. DOMAIN Database \subseteq Nat
    BY DatabaseAssumption
  <2>2. FirstNonEmpty(all, other) \in SUBSET Nat
    BY <1>2, <2>1 DEF FirstNonEmpty
  <2> HIDE DEF all, other
  <2>3. FirstNonEmpty(all, other) # {}
    BY <1>3 DEF First
  <2> QED BY <1>3, <2>2, <2>3, MinOf DEF First
<1>5. n \in all \/ n \in other
  <2> HIDE DEF all, other
  <2> QED BY <1>4 DEF FirstNonEmpty
<1>6. n \in DOMAIN Database
  <2> HIDE DEF all, other
  <2> QED BY <1>2, <1>5
<1>7. CASE n \in all
  BY <1>6, <1>7 DEF GetInstructionIndices
<1>8. CASE n \in other
  <2>1. Database[n].spec.inop # "NO" /\ InstructionMatchesSpecification(Database[n], masked, check)
    BY <1>8 DEF WithOperandInOpcode, GetInstructionIndices
  <2>2. PICK op \in Int : op = i.op
    OBVIOUS
  <2>3. Alike(masked, i)
    BY DEF Alike, Shaped, NoInstruction
  <2>4. masked.op = op - (op % 8)
    BY <2>2 DEF Shaped, NoInstruction
  <2>5. op - (op % 8) = (op - (op % 8)) - ((op - (op % 8)) % 8)
    OBVIOUS
  <2>6. OpcodeMatches(Database[n].spec, masked.op)
    BY <2>1 DEF InstructionMatchesSpecification, PrefixesAndOpcodeMatchSpecification, OpcodeMatches
  <2>7. OpcodeMatches(Database[n].spec, i.op)
    <3> HIDE DEF masked
    <3> QED BY <2>1, <2>2, <2>4, <2>5, <2>6, Zenon DEF OpcodeMatches
  <2> HIDE DEF masked
  <2> QED BY <1>6, <2>1, <2>3, <2>7, MatchesAlike
<1> QED BY <1>5, <1>7, <1>8

-----------------------------------------------------------------------------
(* A call of ConsumeBinaryEncoding.                                          *)

BeforeLookup == {"prefixes", "vex", "evex", "legacy", "opcode"}
Settled == {"imm", "code", "suffix", "done"}
Afterwards == {"modrm"} \cup Settled

ParserInv ==
  /\ bytes \in Seq(Nat)
  /\ ~Parsing => phase = "prefixes"
  /\ phase \in BeforeLookup \cup Afterwards \cup {"error"}
  /\ phase \in BeforeLookup => rest \in Seq(Nat)
  /\ Shaped(instruction)
  /\ phase \in Afterwards =>
       /\ specification \in DOMAIN Database
       /\ instruction.op \in Int
       /\ InstructionMatchesSpecification(Database[specification], instruction, FALSE)
  /\ phase \in Settled => InstructionMatchesSpecification(Database[specification], instruction, TRUE)

LEMMA ShapedFields ==
  ASSUME NEW i, Shaped(i), NEW v
  PROVE  /\ Shaped([i EXCEPT !.kind = v]) /\ Shaped([i EXCEPT !.leg = v]) /\ Shaped([i EXCEPT !.seg = v])
         /\ Shaped([i EXCEPT !.addr = v]) /\ Shaped([i EXCEPT !.op = v]) /\ Shaped([i EXCEPT !.modrm = v])
         /\ Shaped([i EXCEPT !.sib = v]) /\ Shaped([i EXCEPT !.imm = v]) /\ Shaped([i EXCEPT !.code = v])
         /\ DOMAIN v = DOMAIN NoVexBits => Shaped([i EXCEPT !.vex = v])
BY DEF Shaped, NoInstruction

\* What every step of a call has to show of a failure, of a prefix, and of what follows the lookup.
LEMMA FailKeeps ==
  ASSUME ParserInv, Parsing, UNCHANGED clientVars, Fail
  PROVE  ParserInv'
BY DEF ParserInv, Parsing, clientVars, Fail, BeforeLookup, Afterwards, Settled

LEMMA PrefixKeeps ==
  ASSUME ParserInv, Parsing, UNCHANGED clientVars, phase \in BeforeLookup,
         NEW n \in Nat, NEW i, Shaped(i), NEW next \in BeforeLookup, Consume(n, i, next)
  PROVE  ParserInv'
<1>1. rest' \in Seq(Nat)
  BY DEF ParserInv, Consume
<1>2. next \notin Afterwards /\ next \notin Settled
  BY DEF BeforeLookup, Afterwards, Settled
<1>3. bytes' = bytes /\ Parsing' /\ phase' = next /\ instruction' = i
  BY DEF Consume, Parsing, clientVars
<1> QED BY <1>1, <1>2, <1>3 DEF ParserInv

LEMMA SettledKeeps ==
  ASSUME ParserInv, Parsing, UNCHANGED clientVars, phase \in Settled,
         NEW n, NEW i, Shaped(i), Alike(instruction, i), i.op = instruction.op,
         NEW next \in Settled, Consume(n, i, next)
  PROVE  ParserInv'
<1>1. next \notin BeforeLookup /\ next \in Afterwards /\ phase \in Afterwards
  BY DEF BeforeLookup, Afterwards, Settled
<1>2. bytes' = bytes /\ Parsing' /\ phase' = next /\ instruction' = i /\ specification' = specification
  BY DEF Consume, Parsing, clientVars
<1>3. /\ specification \in DOMAIN Database /\ i.op \in Int
      /\ InstructionMatchesSpecification(Database[specification], instruction, FALSE)
      /\ InstructionMatchesSpecification(Database[specification], instruction, TRUE)
  BY <1>1 DEF ParserInv
<1>4. OpcodeMatches(Database[specification].spec, i.op)
  BY <1>3 DEF InstructionMatchesSpecification, PrefixesAndOpcodeMatchSpecification, OpcodeMatches
<1>5. /\ InstructionMatchesSpecification(Database[specification], i, FALSE)
      /\ InstructionMatchesSpecification(Database[specification], i, TRUE)
  BY <1>3, <1>4, MatchesAlike
<1>6. bytes' \in Seq(Nat)
  BY <1>2 DEF ParserInv
<1> QED BY <1>1, <1>2, <1>3, <1>5, <1>6 DEF ParserInv

LEMMA PrefixesKeep ==
  ASSUME ParserInv, Parsing, UNCHANGED clientVars,
         \/ ConsumeSegmentOverridePrefix \/ ConsumeAddressSizeOverridePrefix \/ ConsumePrefixes
         \/ AddLockOrRepPrefix \/ AddOperandSizeOverridePrefix \/ ParseRexPrefix \/ EndOfPrefixes
  PROVE  ParserInv'
<1>1. Shaped(instruction) /\ 0 \in Nat /\ 1 \in Nat
  BY DEF ParserInv
<1>2. CASE ConsumeSegmentOverridePrefix
  <2>1. phase \in BeforeLookup
    BY <1>2 DEF ConsumeSegmentOverridePrefix, BeforeLookup
  <2>2. PICK v : Consume(1, [instruction EXCEPT !.seg = v], phase)
    BY <1>2 DEF ConsumeSegmentOverridePrefix
  <2> QED BY <1>1, <2>1, <2>2, ShapedFields, PrefixKeeps
<1>3. CASE ConsumeAddressSizeOverridePrefix
  <2>1. phase \in BeforeLookup /\ Consume(1, [instruction EXCEPT !.addr = TRUE], phase)
    BY <1>3 DEF ConsumeAddressSizeOverridePrefix, BeforeLookup
  <2> QED BY <1>1, <2>1, ShapedFields, PrefixKeeps
<1>4. CASE ConsumePrefixes
  <2>1. phase \in BeforeLookup
    BY <1>4 DEF ConsumePrefixes, BeforeLookup
  <2>2. PICK next : /\ next = IF NextIs({196, 197}) THEN "vex" ELSE IF NextIs({98}) THEN "evex" ELSE "legacy"
                    /\ Consume(0, instruction, next)
    BY <1>4 DEF ConsumePrefixes
  <2>3. next \in BeforeLookup
    BY <2>2 DEF BeforeLookup
  <2> QED BY <1>1, <2>1, <2>2, <2>3, PrefixKeeps
<1>5. CASE AddLockOrRepPrefix
  <2>1. phase = "legacy" /\ phase \in BeforeLookup
    BY <1>5 DEF AddLockOrRepPrefix, BeforeLookup
  <2>2. CASE Fail
    BY <2>2, FailKeeps
  <2>3. CASE ~ Fail
    <3>1. PICK v : Consume(1, [instruction EXCEPT !.leg = v], "legacy")
      BY <1>5, <2>3 DEF AddLockOrRepPrefix
    <3> QED BY <1>1, <2>1, <3>1, ShapedFields, PrefixKeeps
  <2> QED BY <2>2, <2>3
<1>6. CASE AddOperandSizeOverridePrefix
  <2>1. phase = "legacy" /\ phase \in BeforeLookup
    BY <1>6 DEF AddOperandSizeOverridePrefix, BeforeLookup
  <2>2. PICK v : Consume(1, [instruction EXCEPT !.leg = v], "legacy")
    BY <1>6 DEF AddOperandSizeOverridePrefix
  <2> QED BY <1>1, <2>1, <2>2, ShapedFields, PrefixKeeps
<1>7. CASE ParseRexPrefix
  <2>1. phase = "legacy" /\ phase \in BeforeLookup
    BY <1>7 DEF ParseRexPrefix, BeforeLookup
  <2>2. CASE Fail
    BY <2>2, FailKeeps
  <2>3. CASE ~ Fail
    <3>1. PICK v : Consume(1, [instruction EXCEPT !.leg = v], "legacy")
      <4>1. Consume(1, [instruction EXCEPT !.leg.hasrex = TRUE,
                          !.leg.rex = [w |-> Bit(rest[1], 3), r |-> Bit(rest[1], 2), x |-> Bit(rest[1], 1),
                                       b |-> Bit(rest[1], 0)]], "legacy")
        BY <1>7, <2>3 DEF ParseRexPrefix
      <4> DEFINE leg == [[instruction.leg EXCEPT !.hasrex = TRUE]
                           EXCEPT !.rex = [w |-> Bit(rest[1], 3), r |-> Bit(rest[1], 2), x |-> Bit(rest[1], 1),
                                           b |-> Bit(rest[1], 0)]]
      <4>2. Consume(1, [instruction EXCEPT !.leg = leg], "legacy")
        BY <1>1, <4>1 DEF Shaped, NoInstruction
      <4> QED BY <4>2
    <3> QED BY <1>1, <2>1, <3>1, ShapedFields, PrefixKeeps
  <2> QED BY <2>2, <2>3
<1>8. CASE EndOfPrefixes
  <2>1. phase \in BeforeLookup /\ "opcode" \in BeforeLookup
    BY <1>8 DEF EndOfPrefixes, BeforeLookup
  <2>2. Fail \/ Consume(0, instruction, "opcode")
    BY <1>8 DEF EndOfPrefixes
  <2> QED BY <1>1, <2>1, <2>2, FailKeeps, PrefixKeeps
<1> QED BY <1>2, <1>3, <1>4, <1>5, <1>6, <1>7, <1>8

LEMMA VexKeeps ==
  ASSUME ParserInv, Parsing, UNCHANGED clientVars, ConsumeVexPrefix \/ ConsumeEvexPrefix
  PROVE  ParserInv'
<1>1. Shaped(instruction) /\ phase \in BeforeLookup /\ "opcode" \in BeforeLookup
  BY DEF ParserInv, ConsumeVexPrefix, ConsumeEvexPrefix, BeforeLookup
<1>2. ASSUME NEW n \in Nat, NEW i, NEW kind, NEW v, DOMAIN v = DOMAIN NoVexBits,
             i = [instruction EXCEPT !.kind = kind, !.vex = v], Consume(n, i, "opcode")
      PROVE  ParserInv'
  <2>1. Shaped(i)
    BY <1>1, <1>2 DEF Shaped, NoInstruction
  <2> QED BY <1>1, <1>2, <2>1, PrefixKeeps
<1>3. ASSUME NEW byte PROVE DOMAIN VexTail(byte) = DOMAIN NoVexBits
  BY DEF VexTail, NoVexBits
<1>4. CASE Fail
  BY <1>4, FailKeeps
<1>5. CASE ~ Fail /\ ConsumeVexPrefix
  <2>1. CASE rest[1] = 196
    <3> DEFINE v == [VexTail(rest[3]) EXCEPT !.w = Bit(rest[3], 7), !.map = MapOf(Bits(rest[2], 0, 5)),
                       !.nr = Bit(rest[2], 7), !.nx = Bit(rest[2], 6), !.nb = Bit(rest[2], 5)]
               i == [instruction EXCEPT !.kind = "VEX", !.vex = v]
    <3>1. Consume(3, i, "opcode")
      BY <1>5, <2>1 DEF ConsumeVexPrefix
    <3>2. DOMAIN v = DOMAIN NoVexBits
      BY <1>3
    <3> HIDE DEF v
    <3> QED BY <1>2, <3>1, <3>2
  <2>2. CASE rest[1] # 196
    <3> DEFINE v == [VexTail(rest[2]) EXCEPT !.map = "0F", !.nr = Bit(rest[2], 7), !.nx = 1, !.nb = 1]
               i == [instruction EXCEPT !.kind = "VEX", !.vex = v]
    <3>1. Consume(2, i, "opcode")
      BY <1>5, <2>2 DEF ConsumeVexPrefix
    <3>2. DOMAIN v = DOMAIN NoVexBits
      BY <1>3
    <3> HIDE DEF v
    <3> QED BY <1>2, <3>1, <3>2
  <2> QED BY <2>1, <2>2
<1>6. CASE ~ Fail /\ ConsumeEvexPrefix
  <2> DEFINE v == [NoVexBits EXCEPT
                     !.nr = 2 * Bit(rest[2], 7) + Bit(rest[2], 4), !.nx = Bit(rest[2], 6), !.nb = Bit(rest[2], 5),
                     !.map = MapOf(Bits(rest[2], 0, 2)), !.w = Bit(rest[3], 7), !.pfx = PrefixOf(Bits(rest[3], 0, 2)),
                     !.z = Bit(rest[4], 7), !.len = Bits(rest[4], 5, 7), !.bc = Bit(rest[4], 4),
                     !.v = Bits(rest[3], 3, 7) + 16 * Bit(rest[4], 3), !.aaa = Bits(rest[4], 0, 3)]
             i == [instruction EXCEPT !.kind = "EVEX", !.vex = v]
  <2>1. Consume(4, i, "opcode")
    BY <1>6 DEF ConsumeEvexPrefix
  <2>2. DOMAIN v = DOMAIN NoVexBits
    OBVIOUS
  <2> HIDE DEF v
  <2> QED BY <1>2, <2>1, <2>2
<1> QED BY <1>4, <1>5, <1>6

LEMMA OpcodeLengthType ==
  ASSUME rest \in Seq(Nat), rest # << >>
  PROVE  OpcodeLength \in 1..4 /\ (instruction.kind = "legacy" => LegacyOpcode(OpcodeLength) \in Nat)
<1>1. PICK last \in 0..4 : last = Min({Len(rest), MaxOpcodeBytes})
  <2> DEFINE S == {Len(rest), MaxOpcodeBytes}
  <2>1. S \in SUBSET Nat /\ S # {}
    BY DEF MaxOpcodeBytes
  <2>2. Min(S) \in S /\ \A x \in S : Min(S) <= x
    <3> HIDE DEF S
    <3> QED BY <2>1, LeastExists DEF Min
  <2>3. Min(S) \in Nat /\ Min(S) <= 4
    BY <2>1, <2>2 DEF MaxOpcodeBytes
  <2> HIDE DEF S
  <2>4. Min(S) \in 0..4
    BY <2>3
  <2> QED BY <2>4 DEF S
<1>2. OpcodesFound(2) \cup {1} \in SUBSET (0..4)
  <2>1. \A n \in OpcodesFound(2) : n \in 2..last
    BY <1>1 DEF OpcodesFound
  <2>2. 1 \in 0..4 /\ 2..last \subseteq 0..4
    OBVIOUS
  <2> QED BY <2>1, <2>2
<1>3. Max(OpcodesFound(2) \cup {1}) \in OpcodesFound(2) \cup {1}
  BY <1>2, MaxOfFew
<1>4. Max(OpcodesFound(2) \cup {1}) \in 1..4
  <2>1. \A n \in OpcodesFound(2) : n \in 2..last
    BY <1>1 DEF OpcodesFound
  <2> QED BY <1>3, <2>1
<1>5. OpcodeLength \in 1..4
  BY <1>4 DEF OpcodeLength
<1>6. ASSUME instruction.kind = "legacy" PROVE LegacyOpcode(OpcodeLength) \in Nat
  <2>1. PICK n \in 1..4 : n = OpcodeLength
    BY <1>5
  <2>2. n <= Len(rest)
    <3>1. Len(rest) \in Nat /\ Len(rest) >= 1
      OBVIOUS
    <3>2. last <= Len(rest)
      <4> DEFINE S == {Len(rest), MaxOpcodeBytes}
      <4>1. S \in SUBSET Nat /\ S # {} /\ Len(rest) \in S
        BY DEF MaxOpcodeBytes
      <4>2. \A x \in S : Min(S) <= x
        <5> HIDE DEF S
        <5> QED BY <4>1, LeastExists DEF Min
      <4> HIDE DEF S
      <4>3. Min(S) <= Len(rest)
        BY <4>1, <4>2
      <4> QED BY <1>1, <4>3 DEF S
    <3>3. n \in OpcodesFound(2) \/ n = 1
      BY <1>3, <1>6, <2>1 DEF OpcodeLength
    <3>4. n \in OpcodesFound(2) => n \in 2..last
      BY <1>1 DEF OpcodesFound
    <3> QED BY <3>1, <3>2, <3>3, <3>4
  <2>3. SubSeq(rest, 1, n) \in Seq(Nat) /\ Len(SubSeq(rest, 1, n)) = n
    BY <2>2
  <2>4. OpcodeOfBytes(SubSeq(rest, 1, n)) \in Nat
    <3>1. PICK seq \in Seq(Nat) : seq = SubSeq(rest, 1, n) /\ Len(seq) = n
      BY <2>3
    <3>2. Len(seq) <= 4
      BY <3>1
    <3>3. OpcodeOfBytes(seq) \in Nat
      BY <3>2, OpcodeOfBytesType
    <3> QED BY <3>1, <3>3, Zenon
  <2> QED BY <2>1, <2>4, Zenon DEF LegacyOpcode, OpcodeOfBytes
<1> QED BY <1>5, <1>6

LEMMA MapOpcodes == \A m \in Maps : MapOpcode[m] \in Nat
<1>1. MapOpcode["0F"] = 15 /\ MapOpcode["0F38"] = 3896 /\ MapOpcode["0F3A"] = 3898
  BY DEF MapOpcode
<1> QED BY <1>1 DEF Maps

\* The lookup by the opcode, and the one that follows once the ModR/M byte is known.
LEMMA OpcodeKeeps ==
  ASSUME ParserInv, Parsing, UNCHANGED clientVars, ConsumeOpcode
  PROVE  ParserInv'
<1>1. CASE Fail
  BY <1>1, FailKeeps
<1>2. CASE ~ Fail
  <2>1. /\ phase = "opcode" /\ rest # << >>
        /\ instruction.kind = "legacy" \/ instruction.vex.map \in DOMAIN MapSelectBits
    BY <1>2, Zenon DEF ConsumeOpcode
  <2>2. Shaped(instruction) /\ rest \in Seq(Nat)
    BY <2>1 DEF ParserInv, BeforeLookup
  <2>3. PICK op : op = IF instruction.kind = "legacy" THEN LegacyOpcode(OpcodeLength)
                       ELSE 256 * MapOpcode[instruction.vex.map] + rest[1]
    OBVIOUS
  <2>4. op \in Int
    <3>1. CASE instruction.kind = "legacy"
      BY <2>1, <2>2, <2>3, <3>1, OpcodeLengthType
    <3>2. CASE instruction.kind # "legacy"
      <4>1. instruction.vex.map \in Maps
        BY <2>1, <3>2 DEF MapSelectBits, Maps
      <4>2. PICK map \in Nat : map = MapOpcode[instruction.vex.map]
        BY <4>1, MapOpcodes
      <4>3. PICK byte \in Nat : byte = rest[1]
        BY <2>1, <2>2
      <4> QED BY <2>3, <3>2, <4>2, <4>3
    <3> QED BY <3>1, <3>2
  <2>5. PICK i, n : /\ i = [instruction EXCEPT !.op = op]
                    /\ n = GetEncodingSpecification(i, FALSE) /\ n # 0
                    /\ specification' = n /\ instruction' = i /\ phase' = "modrm"
    BY <1>2, <2>1, <2>3, Zenon DEF ConsumeOpcode
  <2>6. Shaped(i) /\ i.op = op
    BY <2>2, <2>5, ShapedFields DEF Shaped, NoInstruction
  <2>7. n \in DOMAIN Database /\ InstructionMatchesSpecification(Database[n], i, FALSE)
    BY <2>4, <2>5, <2>6, Lookup
  <2>8. "modrm" \in Afterwards /\ "modrm" \notin Settled /\ "modrm" \notin BeforeLookup
    BY DEF Afterwards, Settled, BeforeLookup
  <2>9. bytes' = bytes /\ bytes \in Seq(Nat) /\ Parsing'
    BY DEF clientVars, Parsing, ParserInv
  <2> QED BY <2>4, <2>5, <2>6, <2>7, <2>8, <2>9 DEF ParserInv
<1> QED BY <1>1, <1>2

\* The last two steps of ConsumeModRmAndSIBIfNeeded.
LooksUp(i, from) ==
  \E n \in {GetEncodingSpecification(i, TRUE)} :
    IF n = 0 THEN Fail
    ELSE /\ specification' = n
         /\ instruction' = i
         /\ rest' = SubSeq(rest, from, Len(rest))
         /\ phase' = "imm"
ReadsDisplacement(modrm, sib, read, count) ==
  IF Len(rest) < read + count THEN Fail
  ELSE \E disp \in {Displacement(SubSeq(rest, read + 1, read + count))} :
       \E i \in {[instruction EXCEPT !.sib = sib, !.modrm = <<[modrm EXCEPT !.disp = disp]>>]} :
         LooksUp(i, read + count + 1)
ReadsSib(modrm, read) ==
  IF Len(rest) < read THEN Fail
  ELSE \E sib \in {IF read = 2 THEN <<ParseSib(rest[2])>> ELSE << >>} :
       \E count \in {NumModRmDisplacementBytes(modrm, IF read = 2 THEN sib[1] ELSE DefaultSib)} :
         ReadsDisplacement(modrm, sib, read, count)

LEMMA ModRmKeeps ==
  ASSUME ParserInv, Parsing, UNCHANGED clientVars, ConsumeModRmAndSIBIfNeeded
  PROVE  ParserInv'
<1>1. phase = "modrm"
  BY DEF ConsumeModRmAndSIBIfNeeded
<1>2. /\ Shaped(instruction) /\ specification \in DOMAIN Database /\ instruction.op \in Int
      /\ InstructionMatchesSpecification(Database[specification], instruction, FALSE)
  BY <1>1 DEF ParserInv, Afterwards
<1>3. "imm" \in Afterwards /\ "imm" \in Settled /\ "imm" \notin BeforeLookup
  BY DEF Afterwards, Settled, BeforeLookup
<1>4. bytes' = bytes /\ bytes \in Seq(Nat) /\ Parsing'
  BY DEF clientVars, Parsing, ParserInv
<1>5. CASE Fail
  BY <1>5, FailKeeps
<1>6. CASE Database[specification].spec.modrm = "NO"
  <2>1. Consume(0, instruction, "imm")
    BY <1>6 DEF ConsumeModRmAndSIBIfNeeded
  <2>2. InstructionMatchesSpecification(Database[specification], instruction, TRUE)
    BY <1>2, <1>6 DEF InstructionMatchesSpecification, ModRmUsageMatchesSpecification
  <2>3. phase' = "imm" /\ instruction' = instruction /\ specification' = specification
    BY <2>1 DEF Consume
  <2> QED BY <1>2, <1>3, <1>4, <2>2, <2>3 DEF ParserInv
<1>7. CASE ~ Fail /\ Database[specification].spec.modrm # "NO"
  <2>1. PICK sib, modrm, i, n : /\ i = [instruction EXCEPT !.sib = sib, !.modrm = modrm]
                                /\ n = GetEncodingSpecification(i, TRUE) /\ n # 0
                                /\ specification' = n /\ instruction' = i /\ phase' = "imm"
    <3>1. PICK m, read : ReadsSib(m, read)
      BY <1>7, Zenon DEF ConsumeModRmAndSIBIfNeeded, ReadsSib, ReadsDisplacement, LooksUp
    <3>2. PICK sib, count : ReadsDisplacement(m, sib, read, count)
      BY <1>7, <3>1, Zenon DEF ReadsSib
    <3>3. PICK disp, i : /\ i = [instruction EXCEPT !.sib = sib, !.modrm = <<[m EXCEPT !.disp = disp]>>]
                         /\ LooksUp(i, read + count + 1)
      BY <1>7, <3>2, Zenon DEF ReadsDisplacement
    <3>4. PICK n : /\ n = GetEncodingSpecification(i, TRUE) /\ n # 0
                   /\ specification' = n /\ instruction' = i /\ phase' = "imm"
      BY <1>7, <3>3, Zenon DEF LooksUp
    <3> QED BY <3>3, <3>4
  <2>2. Shaped(i) /\ i.op \in Int
    BY <1>2, <2>1 DEF Shaped, NoInstruction
  <2>3. n \in DOMAIN Database /\ InstructionMatchesSpecification(Database[n], i, TRUE)
    BY <2>1, <2>2, Lookup
  <2>4. InstructionMatchesSpecification(Database[n], i, FALSE)
    BY <2>3 DEF InstructionMatchesSpecification
  <2> QED BY <1>3, <1>4, <2>1, <2>2, <2>3, <2>4 DEF ParserInv
<1> QED BY <1>5, <1>6, <1>7

\* What follows the lookup changes fields that no specification looks at; a specification with a
\* VEX suffix is one of a VEX prefix, which the instruction then has.
LEMMA SettledSteps ==
  ASSUME ParserInv, Parsing, UNCHANGED clientVars,
         ConsumeImmediateValuesIfNeeded \/ ConsumeCodeOffsetIfNeeded \/ ConsumeVexSuffixIfNeeded
  PROVE  ParserInv'
<1>1. phase \in Settled /\ "code" \in Settled /\ "suffix" \in Settled /\ "done" \in Settled
  BY DEF ConsumeImmediateValuesIfNeeded, ConsumeCodeOffsetIfNeeded, ConsumeVexSuffixIfNeeded, Settled
<1>2. Shaped(instruction)
  BY DEF ParserInv
<1>3. CASE Fail
  BY <1>3, FailKeeps
<1>4. CASE ~ Fail /\ ConsumeImmediateValuesIfNeeded
  <2>1. PICK n, v, i : i = [instruction EXCEPT !.imm = v] /\ Consume(n, i, "code")
    BY <1>4, Zenon DEF ConsumeImmediateValuesIfNeeded
  <2>2. Shaped(i) /\ Alike(instruction, i) /\ i.op = instruction.op
    BY <1>2, <2>1 DEF Shaped, NoInstruction, Alike
  <2> QED BY <1>1, <2>1, <2>2, SettledKeeps
<1>5. CASE ~ Fail /\ ConsumeCodeOffsetIfNeeded
  <2>1. PICK n, v, i : i = [instruction EXCEPT !.code = v] /\ Consume(n, i, "suffix")
    BY <1>5, Zenon DEF ConsumeCodeOffsetIfNeeded
  <2>2. Shaped(i) /\ Alike(instruction, i) /\ i.op = instruction.op
    BY <1>2, <2>1 DEF Shaped, NoInstruction, Alike
  <2> QED BY <1>1, <2>1, <2>2, SettledKeeps
<1>6. CASE ~ Fail /\ ConsumeVexSuffixIfNeeded
  <2> DEFINE spec == Database[specification].spec
  <2>1. CASE spec.type = "legacy" \/ ~ spec.vex.is4
    <3>1. Consume(0, instruction, "done")
      BY <1>6, <2>1 DEF ConsumeVexSuffixIfNeeded
    <3>2. Alike(instruction, instruction)
      BY DEF Alike
    <3> QED BY <1>1, <1>2, <3>1, <3>2, SettledKeeps
  <2>2. CASE ~ (spec.type = "legacy" \/ ~ spec.vex.is4)
    <3>1. PICK byte, i : /\ i = [MutableVex(instruction) EXCEPT !.vex.suffix = byte]
                         /\ Consume(1, i, "done")
      BY <1>6, <2>2, Zenon DEF ConsumeVexSuffixIfNeeded
    <3>2. phase \in Afterwards
      BY <1>1 DEF Afterwards
    <3>3. /\ specification \in DOMAIN Database
          /\ InstructionMatchesSpecification(Database[specification], instruction, TRUE)
      BY <1>1, <3>2 DEF ParserInv
    <3>4. spec.type = "VEX"
      BY <2>2, <3>3, DatabaseTypes
    <3>5. instruction.kind = "VEX"
      BY <3>3, <3>4 DEF InstructionMatchesSpecification, PrefixesAndOpcodeMatchSpecification
    <3>6. i = [instruction EXCEPT !.vex.suffix = byte]
      BY <3>1, <3>5 DEF MutableVex
    <3>7. Shaped(i) /\ Alike(instruction, i) /\ i.op = instruction.op
      BY <1>2, <3>6 DEF Shaped, NoInstruction, NoVexBits, Alike
    <3> QED BY <1>1, <3>1, <3>7, SettledKeeps
  <2> QED BY <2>1, <2>2
<1> QED BY <1>3, <1>4, <1>5, <1>6

LEMMA ParserNextKeeps ==
  ASSUME ParserInv, Parsing, UNCHANGED clientVars, ParserNext
  PROVE  ParserInv'
BY PrefixesKeep, VexKeeps, OpcodeKeeps, ModRmKeeps, SettledSteps DEF ParserNext

LEMMA CodecInitKeeps == CodecInit => ParserInv
<1> SUFFICES ASSUME CodecInit PROVE ParserInv
  OBVIOUS
<1>1. bytes = << >> /\ bytes \in Seq(Nat)
  BY DEF CodecInit
<1>2. phase = "prefixes" /\ instruction = NoInstruction /\ rest \in Seq(Nat)
  <2>1. PICK input \in Inputs \cup {<< >>} : ParserInit(input)
    BY DEF CodecInit
  <2>2. input \in Seq(Byte)
    <3>1. CASE input \in Inputs
      BY <3>1, CodecAssumption
    <3>2. CASE input = << >>
      BY <3>2
    <3> QED BY <2>1, <3>1, <3>2
  <2>3. input \in Seq(Nat)
    BY <2>2, BytesAreNumbers
  <2> QED BY <2>1, <2>3 DEF ParserInit
<1>3. Shaped(instruction)
  BY <1>2 DEF Shaped, NoInstruction
<1>4. phase \in BeforeLookup /\ phase \notin Afterwards /\ phase \notin Settled
  BY <1>2 DEF BeforeLookup, Afterwards, Settled
<1> QED BY <1>1, <1>2, <1>3, <1>4 DEF ParserInv

\* The client hands the parser numbers; while it assigns operands and encodes, no call runs.
LEMMA CodecNextKeeps == ParserInv /\ ClientInv /\ [CodecNext]_vars => ParserInv'
<1> SUFFICES ASSUME ParserInv, ClientInv, [CodecNext]_vars PROVE ParserInv'
  OBVIOUS
<1>1. ASSUME ~ Parsing, bytes' \in Seq(Nat), rest' \in Seq(Nat), UNCHANGED <<instruction, specification, phase>>
      PROVE  ParserInv'
  <2>1. phase = "prefixes" /\ phase' = phase
    BY <1>1 DEF ParserInv
  <2>2. phase' \in BeforeLookup /\ phase' \notin Afterwards /\ phase' \notin Settled
    BY <2>1 DEF BeforeLookup, Afterwards, Settled
  <2> QED BY <1>1, <2>1, <2>2, ZenonT(40) DEF ParserInv
<1>2. ~ Parsing => rest \in Seq(Nat)
  BY DEF ParserInv, BeforeLookup
<1>3. bytes \in Seq(Nat)
  BY DEF ParserInv
<1>4. CASE AssignRegister \/ AssignMemory
  <2>1. stage = "assign" /\ UNCHANGED <<parserVars, bytes>>
    BY <1>4, ZenonT(40) DEF AssignRegister, AssignMemory, Assign
  <2> QED BY <1>1, <1>2, <1>3, <2>1 DEF Parsing, parserVars
<1>5. CASE EncodeInstruction
  <2>1. stage = "assign" /\ UNCHANGED parserVars
    BY <1>5 DEF EncodeInstruction
  <2>2. bytes' \in Seq(Nat)
    <3>1. CASE Validate(SpecOf, instr)
      BY <1>5, <3>1, EncodingType DEF EncodeInstruction, SpecOf, ClientInv
    <3>2. CASE ~ Validate(SpecOf, instr)
      <4>1. bytes' = << >>
        BY <1>5, <3>2 DEF EncodeInstruction
      <4> QED BY <4>1
    <3> QED BY <3>1, <3>2
  <2> QED BY <1>1, <1>2, <2>1, <2>2 DEF Parsing, parserVars
<1>6. CASE ParseAll
  <2>1. stage = "encoded" /\ bytes' = bytes /\ rest' = bytes \o Following
        /\ UNCHANGED <<instruction, specification, phase>>
    BY <1>6 DEF ParseAll
  <2>2. Following \in Seq(Nat)
    BY CodecAssumption, BytesAreNumbers
  <2>3. rest' \in Seq(Nat)
    BY <1>3, <2>1, <2>2, Joined
  <2> QED BY <1>1, <1>3, <2>1, <2>3 DEF Parsing
<1>7. CASE ParseCut
  <2>1. PICK n \in 0..(Len(bytes) - 1) :
          /\ stage = "encoded" /\ bytes' = bytes /\ rest' = SubSeq(bytes, 1, n)
          /\ UNCHANGED <<instruction, specification, phase>>
    BY <1>7 DEF ParseCut
  <2>2. rest' \in Seq(Nat)
    BY <1>3, <2>1
  <2> QED BY <1>1, <1>3, <2>1, <2>2 DEF Parsing
<1>8. CASE Parse
  BY <1>8, ParserNextKeeps DEF Parse
<1>9. CASE UNCHANGED vars
  BY <1>9 DEF vars, parserVars, clientVars, ParserInv, Parsing
<1> QED BY <1>4, <1>5, <1>6, <1>7, <1>8, <1>9 DEF CodecNext, HasReturned

\* Between any two calls that a client makes, and within each, the parser holds a well-formed
\* instruction, numbers that it has still to read, and a specification that matches what it read.
THEOREM ParserInvariance == CodecSpec => [](ClientInv /\ ParserInv)
<1>1. CodecInit => ClientInv /\ ParserInv
  BY ClientInit, CodecInitKeeps
<1>2. (ClientInv /\ ParserInv) /\ [CodecNext]_vars => (ClientInv /\ ParserInv)'
  BY ClientNext, CodecNextKeeps
<1> QED BY <1>1, <1>2, PTL DEF CodecSpec

\* Whatever bytes it is given, ConsumeBinaryEncoding reads the immediate values of a specification
\* that the whole instruction matches, the ModR/M byte included.
THEOREM SettledSpecificationMatches == CodecSpec => []SpecificationMatches
<1>1. ParserInv => SpecificationMatches
  BY DEF ParserInv, SpecificationMatches, Settled
<1> QED BY <1>1, ParserInvariance, PTL

-----------------------------------------------------------------------------
(* Why a call ends.                                                          *)

LEMMA Positions ==
  /\ Position("prefixes") = 1 /\ Position("vex") = 2 /\ Position("evex") = 3 /\ Position("legacy") = 4
  /\ Position("opcode") = 5 /\ Position("modrm") = 6 /\ Position("imm") = 7 /\ Position("code") = 8
  /\ Position("suffix") = 9 /\ Position("done") = 10 /\ Position("error") = 11
<1>1. /\ DOMAIN Order = 1..11
      /\ Order[1] = "prefixes" /\ Order[2] = "vex" /\ Order[3] = "evex" /\ Order[4] = "legacy"
      /\ Order[5] = "opcode" /\ Order[6] = "modrm" /\ Order[7] = "imm" /\ Order[8] = "code"
      /\ Order[9] = "suffix" /\ Order[10] = "done" /\ Order[11] = "error"
  BY DEF Order
<1>2. ASSUME NEW n \in 1..11, NEW m \in 1..11, Order[m] = Order[n] PROVE m = n
  BY <1>2 DEF Order
<1>3. ASSUME NEW n \in 1..11 PROVE Position(Order[n]) = n
  BY <1>1, <1>2 DEF Position
<1> QED BY <1>1, <1>3

LEMMA AllButTheFirst ==
  ASSUME NEW s \in Seq(Int), s # << >>
  PROVE  Len(SubSeq(s, 2, Len(s))) = Len(s) - 1 /\ Len(s) \in Nat
<1>1. Len(s) \in Nat /\ Len(s) >= 1
  OBVIOUS
<1>2. PICK n \in Nat : n = Len(s) /\ n >= 1
  BY <1>1
<1>3. SubSeq(s, 2, n) = [k \in 1..(n - 1) |-> s[k + 1]]
  BY <1>2
<1>4. Len(SubSeq(s, 2, n)) = n - 1
  BY <1>2, <1>3
<1> QED BY <1>2, <1>4

\* The first disjunct of Advances for the steps that stay in a loop, the second for all others.
LEMMA ParserNextAdvances ==
  ASSUME ParserInv, ParserNext
  PROVE  Advances
<1> DEFINE Stays == phase \in {"prefixes", "legacy"} /\ rest # << >> /\ rest' = SubSeq(rest, 2, Len(rest))
           Moves == Position(phase') > Position(phase)
<1>1. ASSUME Stays PROVE Advances
  <2>1. PICK s \in Seq(Int) : s = rest /\ s # << >>
    BY <1>1 DEF ParserInv, BeforeLookup
  <2>2. Len(SubSeq(s, 2, Len(s))) = Len(s) - 1 /\ Len(s) \in Nat
    BY <2>1, AllButTheFirst
  <2>3. Len(rest') < Len(rest)
    BY <1>1, <2>1, <2>2
  <2> QED BY <2>3 DEF Advances
<1>2. ASSUME NEW i, NEW next, rest # << >>, phase \in {"prefixes", "legacy"}, Consume(1, i, next) PROVE Stays
  <2>1. rest' = SubSeq(rest, 1 + 1, Len(rest)) /\ 1 + 1 = 2
    BY <1>2 DEF Consume
  <2> QED BY <1>2, <2>1
<1>3. ASSUME Fail, phase \in BeforeLookup \cup Afterwards PROVE Moves
  BY <1>3, Positions DEF Fail, BeforeLookup, Afterwards, Settled
<1>4. CASE ConsumeSegmentOverridePrefix
  BY <1>1, <1>2, <1>4 DEF ConsumeSegmentOverridePrefix, NextIs
<1>5. CASE ConsumeAddressSizeOverridePrefix
  BY <1>1, <1>2, <1>5 DEF ConsumeAddressSizeOverridePrefix, NextIs
<1>6. CASE AddOperandSizeOverridePrefix
  BY <1>1, <1>2, <1>6 DEF AddOperandSizeOverridePrefix, NextIs
<1>7. CASE AddLockOrRepPrefix
  BY <1>1, <1>2, <1>3, <1>7 DEF AddLockOrRepPrefix, NextIs, Advances, BeforeLookup
<1>8. CASE ParseRexPrefix
  BY <1>1, <1>2, <1>3, <1>8 DEF ParseRexPrefix, NextIs, Advances, BeforeLookup
<1>9. CASE ConsumePrefixes
  BY <1>9, Positions DEF ConsumePrefixes, Consume, Advances
<1>10. CASE EndOfPrefixes
  BY <1>10, Positions DEF EndOfPrefixes, Consume, Fail, Advances
<1>11. CASE ConsumeVexPrefix \/ ConsumeEvexPrefix
  <2>1. phase \in {"vex", "evex"} /\ phase' \in {"opcode", "error"}
    BY <1>11 DEF ConsumeVexPrefix, ConsumeEvexPrefix, Consume, Fail
  <2>2. Position(phase) \in {2, 3} /\ Position(phase') \in {5, 11}
    BY <2>1, Positions
  <2> QED BY <2>2 DEF Advances
<1>12. CASE ConsumeOpcode
  <2>1. phase = "opcode" /\ phase' \in {"modrm", "error"}
    BY <1>12 DEF ConsumeOpcode, Fail
  <2>2. Position(phase) = 5 /\ Position(phase') \in {6, 11}
    BY <2>1, Positions
  <2> QED BY <2>2 DEF Advances
<1>13. CASE ConsumeModRmAndSIBIfNeeded
  <2>1. phase = "modrm" /\ phase' \in {"imm", "error"}
    BY <1>13, ZenonT(40) DEF ConsumeModRmAndSIBIfNeeded, Consume, Fail
  <2>2. Position(phase) = 6 /\ Position(phase') \in {7, 11}
    BY <2>1, Positions
  <2> QED BY <2>2 DEF Advances
<1>14. CASE ConsumeImmediateValuesIfNeeded
  <2>1. phase = "imm" /\ phase' \in {"code", "error"}
    BY <1>14 DEF ConsumeImmediateValuesIfNeeded, Consume, Fail
  <2>2. Position(phase) = 7 /\ Position(phase') \in {8, 11}
    BY <2>1, Positions
  <2> QED BY <2>2 DEF Advances
<1>15. CASE ConsumeCodeOffsetIfNeeded
  <2>1. phase = "code" /\ phase' \in {"suffix", "error"}
    BY <1>15 DEF ConsumeCodeOffsetIfNeeded, Consume, Fail
  <2>2. Position(phase) = 8 /\ Position(phase') \in {9, 11}
    BY <2>1, Positions
  <2> QED BY <2>2 DEF Advances
<1>16. CASE ConsumeVexSuffixIfNeeded
  <2>1. phase = "suffix" /\ phase' \in {"done", "error"}
    BY <1>16 DEF ConsumeVexSuffixIfNeeded, Consume, Fail
  <2>2. Position(phase) = 9 /\ Position(phase') \in {10, 11}
    BY <2>1, Positions
  <2> QED BY <2>2 DEF Advances
<1> QED BY <1>4, <1>5, <1>6, <1>7, <1>8, <1>9, <1>10, <1>11, <1>12, <1>13, <1>14, <1>15, <1>16 DEF ParserNext

\* Over any bytes, a step of a call consumes one of them or goes on to a function that runs later:
\* no call of ConsumeBinaryEncoding goes round in its loops for ever.
THEOREM CallsAdvance == CodecSpec => CallAdvances
<1>1. ParserInv /\ [CodecNext]_vars => [Parsing => Advances]_parserVars
  <2> SUFFICES ASSUME ParserInv, [CodecNext]_vars, Parsing, parserVars' # parserVars PROVE Advances
    OBVIOUS
  <2>1. CASE AssignRegister \/ AssignMemory \/ EncodeInstruction \/ ParseAll \/ ParseCut
    BY <2>1, ZenonT(40) DEF AssignRegister, AssignMemory, Assign, EncodeInstruction, ParseAll, ParseCut, Parsing
  <2>2. CASE Parse
    BY <2>2, ParserNextAdvances DEF Parse
  <2> QED BY <2>1, <2>2 DEF CodecNext, HasReturned, vars
<1> QED BY <1>1, ParserInvariance, PTL DEF CodecSpec, CallAdvances

-----------------------------------------------------------------------------
(* Itineraries: folds.  FoldLeft takes the last position of a set of       *)
(* positions first.                                                        *)

\* A set with zero and with all successors of its numbers has all numbers.
LEMMA Reaches ==
  ASSUME NEW S, 0 \in S, \A k \in Nat : k \in S => k + 1 \in S
  PROVE  \A n \in Nat : n \in S
<1> SUFFICES ASSUME NEW n \in Nat, n \notin S PROVE FALSE
  OBVIOUS
<1>1. PICK m \in Nat \ S : \A e \in Nat \ S : m <= e
  <2>1. Nat \ S \in SUBSET Nat /\ Nat \ S # {}
    OBVIOUS
  <2> QED BY <2>1, LeastExists
<1>2. m # 0
  OBVIOUS
<1>3. m - 1 \in Nat /\ ~ (m <= m - 1) /\ (m - 1) + 1 = m
  BY <1>2
<1>4. m - 1 \in S
  BY <1>1, <1>3
<1> QED BY <1>3, <1>4

LEMMA MaxIs ==
  ASSUME NEW S \in SUBSET Nat, NEW m \in S, \A e \in S : e <= m
  PROVE  Max(S) = m
<1>1. \A d \in S : (\A e \in S : d >= e) => d = m
  OBVIOUS
<1>2. \A e \in S : m >= e
  OBVIOUS
<1>3. Max(S) \in S /\ \A e \in S : Max(S) >= e
  BY <1>2 DEF Max
<1> QED BY <1>1, <1>3

\* The candidates after one more variable of the programme, and the
\* micro-operations that are left after one more of them was looked at.
TryBoth(candidates, slot) ==
  candidates \cup
  UNION {{Place(c, slot, load) : load \in LoadsOf(slot[1], c.left)} :
           c \in {c \in candidates : MayUse(c, slot)}}

Subtract(acc, op) ==
  IF BagIn(op.portMask, acc.rhs)
  THEN [acc EXCEPT !.rhs = @ (-) SetToBag({op.portMask})]
  ELSE [acc EXCEPT !.lhs = Append(@, op)]

\* What the folds of the itineraries do with one element.
Applied(name, acc, x) ==
  IF name = "add" THEN acc + x
  ELSE IF name = "try" THEN TryBoth(acc, x)
  ELSE Subtract(acc, x)

FoldedOver(name, base, seq, n, h) ==
  h = [s \in SUBSET (1 .. n) |->
         IF s = {} THEN base ELSE Applied(name, h[s \ {Max(s)}], seq[Max(s)])]

\* There is a fixed point of that recursion, whatever the length of the
\* sequence.
LEMMA FoldExists ==
  ASSUME NEW name, NEW base, NEW seq, NEW n \in Nat
  PROVE  \E h : FoldedOver(name, base, seq, n, h)
<1> DEFINE Folds(f, s) ==
             f[s] = IF s = {} THEN base ELSE Applied(name, f[s \ {Max(s)}], seq[Max(s)])
           S == {k \in Nat : \E f : \A s \in SUBSET (1 .. k) : Folds(f, s)}
<1>1. 0 \in S
  <2>1. PICK f : f = [s \in {{}} |-> base]
    OBVIOUS
  <2>2. \A s \in SUBSET (1 .. 0) : s = {}
    OBVIOUS
  <2>3. \A s \in SUBSET (1 .. 0) : Folds(f, s)
    BY <2>1, <2>2
  <2> QED BY <2>3
<1>2. ASSUME NEW k \in Nat, k \in S PROVE k + 1 \in S
  <2>1. PICK f : \A s \in SUBSET (1 .. k) : Folds(f, s)
    BY <1>2
  <2>2. PICK m \in Nat : m = k + 1
    OBVIOUS
  <2>3. PICK g : g = [s \in SUBSET (1 .. m) |->
                        IF m \in s THEN Applied(name, f[s \ {m}], seq[m]) ELSE f[s]]
    OBVIOUS
  <2>4. ASSUME NEW s \in SUBSET (1 .. m) PROVE Folds(g, s)
    <3>1. CASE m \in s
      <4>1. \A e \in s : e <= m
        OBVIOUS
      <4>2. s \in SUBSET Nat
        OBVIOUS
      <4>3. Max(s) = m
        BY <3>1, <4>1, <4>2, MaxIs
      <4>4. PICK r : r = s \ {m}
        OBVIOUS
      <4>5. r \in SUBSET (1 .. m) /\ m \notin r
        <5>1. s \subseteq 1 .. m
          OBVIOUS
        <5> HIDE DEF Folds
        <5> QED BY <4>4, <5>1
      <4>6. g[r] = f[r] /\ g[s] = Applied(name, f[r], seq[m])
        BY <2>3, <3>1, <4>4, <4>5
      <4> QED BY <3>1, <4>3, <4>4, <4>6
    <3>2. CASE m \notin s
      <4>1. s \in SUBSET (1 .. k)
        BY <2>2, <3>2
      <4>2. g[s] = f[s] /\ Folds(f, s)
        BY <2>1, <2>3, <3>2, <4>1
      <4>3. PICK r : r = s \ {Max(s)} /\ r \in SUBSET (1 .. m) /\ m \notin r
        BY <3>2
      <4>4. g[r] = f[r]
        BY <2>3, <4>3
      <4> QED BY <4>2, <4>3, <4>4
    <3> QED BY <3>1, <3>2
  <2> HIDE DEF Folds
  <2> QED BY <2>2, <2>4
<1>3. n \in S
  <2> HIDE DEF S
  <2> QED BY <1>1, <1>2, Reaches
<1>4. PICK f : \A s \in SUBSET (1 .. n) : Folds(f, s)
  BY <1>3
<1>5. PICK h : h = [s \in SUBSET (1 .. n) |-> f[s]]
  OBVIOUS
<1>6. ASSUME NEW s \in SUBSET (1 .. n)
      PROVE  h[s] = IF s = {} THEN base ELSE Applied(name, h[s \ {Max(s)}], seq[Max(s)])
  <2>1. s \ {Max(s)} \in SUBSET (1 .. n)
    OBVIOUS
  <2>2. h[s] = f[s] /\ h[s \ {Max(s)}] = f[s \ {Max(s)}]
    BY <1>5, <2>1
  <2> QED BY <1>4, <2>2
<1> QED BY <1>5, <1>6 DEF FoldedOver

\* it[k] is the value after the first k elements of seq.
Steps(name, base, seq, n, it) ==
  it[0] = base /\ \A k \in 1 .. n : it[k] = Applied(name, it[k - 1], seq[k])

LEMMA FoldSteps ==
  ASSUME NEW name, NEW base, NEW seq, NEW n \in Nat, NEW h,
         FoldedOver(name, base, seq, n, h)
  PROVE  \E it : Steps(name, base, seq, n, it) /\ it[n] = h[1 .. n]
<1>1. PICK it : it = [k \in 0 .. n |-> h[1 .. k]]
  OBVIOUS
<1>2. ASSUME NEW s \in SUBSET (1 .. n)
      PROVE  h[s] = IF s = {} THEN base ELSE Applied(name, h[s \ {Max(s)}], seq[Max(s)])
  BY DEF FoldedOver
<1>3. it[0] = base
  <2>1. 1 .. 0 = {} /\ {} \in SUBSET (1 .. n) /\ 0 \in 0 .. n
    OBVIOUS
  <2>2. h[{}] = base
    BY <1>2, <2>1
  <2> QED BY <1>1, <2>1, <2>2
<1>4. ASSUME NEW k \in 1 .. n PROVE it[k] = Applied(name, it[k - 1], seq[k])
  <2>1. PICK s : s = 1 .. k
    OBVIOUS
  <2>2. s \in SUBSET (1 .. n) /\ s # {} /\ s \ {k} = 1 .. k - 1
    <3>1. \A e \in s : e \in 1 .. n
      BY <2>1
    <3>2. s \ {k} = 1 .. k - 1 /\ k \in s
      BY <2>1
    <3> QED BY <3>1, <3>2
  <2>3. Max(s) = k
    <3>1. s \in SUBSET Nat /\ k \in s /\ \A e \in s : e <= k
      BY <2>1
    <3> QED BY <3>1, MaxIs
  <2>4. it[k] = h[s] /\ it[k - 1] = h[1 .. k - 1]
    BY <1>1, <2>1
  <2> QED BY <1>2, <2>2, <2>3, <2>4
<1>5. it[n] = h[1 .. n]
  BY <1>1
<1> QED BY <1>3, <1>4, <1>5 DEF Steps

-----------------------------------------------------------------------------
(* Itineraries: sums over finite sets, and of sequences.                   *)

LEMMA SumsExist ==
  ASSUME NEW D, IsFiniteSet(D), NEW g, \A x \in D : g[x] \in Nat
  PROVE  \E h : Sums(g, D, h) /\ \A s \in SUBSET D : h[s] \in Nat
<1> DEFINE Level(k) == {s \in SUBSET D : Cardinality(s) <= k}
           Sum(h, s) == h[s] = IF s = {} THEN 0 ELSE g[Chosen(s)] + h[s \ {Chosen(s)}]
           S == {k \in Nat : \E h : \A s \in Level(k) : h[s] \in Nat /\ Sum(h, s)}
<1>1. \A s \in SUBSET D : IsFiniteSet(s) /\ Cardinality(s) \in Nat
  BY FS_Subset, FS_CardinalityType
<1>2. 0 \in S
  <2>1. PICK h : h = [s \in {{}} |-> 0]
    OBVIOUS
  <2>2. ASSUME NEW s \in Level(0) PROVE s = {}
    <3>1. Cardinality(s) \in Nat /\ Cardinality(s) <= 0 /\ IsFiniteSet(s)
      BY <1>1
    <3>2. Cardinality(s) = 0
      BY <3>1
    <3> QED BY <3>1, <3>2, FS_EmptySet
  <2>3. \A s \in Level(0) : h[s] \in Nat /\ Sum(h, s)
    BY <2>1, <2>2
  <2> QED BY <2>3
<1>3. ASSUME NEW k \in Nat, k \in S PROVE k + 1 \in S
  <2>1. PICK f : \A s \in Level(k) : f[s] \in Nat /\ Sum(f, s)
    BY <1>3
  <2>2. PICK h : h = [s \in SUBSET D |-> IF s \in Level(k) THEN f[s]
                                         ELSE g[Chosen(s)] + f[s \ {Chosen(s)}]]
    OBVIOUS
  <2>3. ASSUME NEW s \in Level(k + 1), s # {}
        PROVE  /\ Chosen(s) \in D /\ s \ {Chosen(s)} \in Level(k)
               /\ h[s \ {Chosen(s)}] = f[s \ {Chosen(s)}]
    <3>1. PICK x \in s : x = Chosen(s)
      BY <2>3 DEF Chosen
    <3>2. PICK r : r = s \ {x}
      OBVIOUS
    <3>3. s \in SUBSET D /\ Cardinality(s) <= k + 1 /\ r \in SUBSET D
      BY <3>2
    <3>4. Cardinality(r) = Cardinality(s) - 1
      BY <1>1, <3>2, <3>3, FS_RemoveElement
    <3>5. Cardinality(s) \in Nat /\ Cardinality(r) \in Nat
      BY <1>1, <3>3
    <3>6. Cardinality(r) <= k
      BY <3>3, <3>4, <3>5
    <3>7. r \in Level(k)
      BY <3>3, <3>6
    <3> QED BY <2>2, <3>1, <3>2, <3>3, <3>7
  <2>4. ASSUME NEW s \in Level(k + 1) PROVE h[s] \in Nat /\ Sum(h, s)
    <3>1. s \in SUBSET D
      OBVIOUS
    <3>2. {} \in Level(k)
      <4>1. Cardinality({}) = 0
        BY FS_EmptySet
      <4> QED BY <4>1
    <3>3. CASE s = {}
      <4>1. h[s] = f[s] /\ f[s] = 0
        BY <2>1, <2>2, <3>1, <3>2, <3>3
      <4> QED BY <3>3, <4>1
    <3>4. CASE s # {}
      <4>1. PICK x, r : x = Chosen(s) /\ r = s \ {x}
        OBVIOUS
      <4>2. x \in D /\ r \in Level(k) /\ h[r] = f[r]
        BY <2>3, <3>4, <4>1
      <4>3. f[r] \in Nat /\ g[x] \in Nat
        BY <2>1, <4>2
      <4>4. h[s] = g[x] + f[r]
        <5>1. CASE s \in Level(k)
          <6>1. h[s] = f[s] /\ Sum(f, s)
            BY <2>1, <2>2, <3>1, <5>1
          <6> QED BY <3>4, <4>1, <6>1
        <5>2. CASE s \notin Level(k)
          BY <2>2, <3>1, <4>1, <5>2
        <5> QED BY <5>1, <5>2
      <4> HIDE DEF Level
      <4> QED BY <3>4, <4>1, <4>2, <4>3, <4>4
    <3> QED BY <3>3, <3>4
  <2> HIDE DEF Level, Sum
  <2> QED BY <2>4
<1>4. PICK c \in Nat : c = Cardinality(D)
  BY FS_CardinalityType
<1>5. c \in S
  <2> HIDE DEF S
  <2> QED BY <1>2, <1>3, Reaches
<1>6. PICK f : \A s \in Level(c) : f[s] \in Nat /\ Sum(f, s)
  BY <1>5
<1>7. ASSUME NEW s \in SUBSET D PROVE s \in Level(c)
  <2>1. Cardinality(s) <= c
    BY <1>4, FS_Subset
  <2> QED BY <2>1
<1>8. \A s \in SUBSET D : f[s] \in Nat /\ Sum(f, s)
  <2> HIDE DEF Level, Sum
  <2> QED BY <1>6, <1>7
<1> QED BY <1>8 DEF Sums

LEMMA SumType ==
  ASSUME NEW D, IsFiniteSet(D), NEW g, \A x \in D : g[x] \in Nat
  PROVE  SumOver(g, D) \in Nat
<1> DEFINE Is(f) == f = [s \in SUBSET D |->
                           IF s = {} THEN 0
                           ELSE g[CHOOSE x \in s : TRUE] + f[s \ {CHOOSE x \in s : TRUE}]]
           it == CHOOSE f : Is(f)
<1>1. SumOver(g, D) = it[D]
  BY DEF SumOver, FoldFunctionOnSet, MapThenFoldSet
<1>2. PICK f : Sums(g, D, f) /\ \A s \in SUBSET D : f[s] \in Nat
  BY SumsExist
<1>3. PICK h : h = [s \in SUBSET D |-> f[s]]
  OBVIOUS
<1>4. Is(h)
  <2>1. ASSUME NEW s \in SUBSET D
        PROVE  h[s] = IF s = {} THEN 0
                      ELSE g[CHOOSE x \in s : TRUE] + h[s \ {CHOOSE x \in s : TRUE}]
    <3>1. s \ {CHOOSE x \in s : TRUE} \in SUBSET D
      OBVIOUS
    <3>2. h[s] = f[s] /\ h[s \ {CHOOSE x \in s : TRUE}] = f[s \ {CHOOSE x \in s : TRUE}]
      BY <1>3, <3>1
    <3> QED BY <1>2, <3>2 DEF Sums, Chosen
  <2> QED BY <1>3, <2>1
<1>5. Is(it)
  <2> HIDE DEF Is
  <2> QED BY <1>4
<1> HIDE DEF it
<1>6. PICK j : j = it /\ Is(j)
  BY <1>5
<1>7. Sums(g, D, j) /\ Sums(g, D, h)
  <2>1. ASSUME NEW i, Is(i) PROVE Sums(g, D, i)
    BY <2>1 DEF Sums, Chosen
  <2> HIDE DEF Is
  <2> QED BY <1>4, <1>6, <2>1
<1>8. j[D] = h[D]
  BY <1>7, OneSum
<1>9. h[D] = f[D] /\ f[D] \in Nat
  BY <1>2, <1>3
<1> QED BY <1>1, <1>6, <1>8, <1>9

LEMMA SumOfSequence ==
  ASSUME NEW seq \in Seq(Nat)
  PROVE  FoldLeft(+, 0, seq) \in Nat
<1> DEFINE D == DOMAIN seq
           Is(f) == f = [s \in SUBSET D |->
                           IF s = {} THEN 0 ELSE f[s \ {Max(s)}] + seq[Max(s)]]
           h == CHOOSE f : Is(f)
<1>1. FoldLeft(+, 0, seq) = h[D]
  BY DEF FoldLeft, MapThenFoldSet
<1>2. PICK n \in Nat : n = Len(seq)
  OBVIOUS
<1>3. D = 1 .. n
  BY <1>2
<1>4. \A f : Is(f) <=> FoldedOver("add", 0, seq, n, f)
  BY <1>3 DEF FoldedOver, Applied
<1> HIDE DEF Is
<1>5. FoldedOver("add", 0, seq, n, h)
  BY <1>4, FoldExists
<1> HIDE DEF h, D
<1>6. PICK it : Steps("add", 0, seq, n, it) /\ it[n] = h[1 .. n]
  BY <1>5, FoldSteps
<1>7. it[0] = 0 /\ \A k \in 1 .. n : it[k] = it[k - 1] + seq[k]
  BY <1>6 DEF Steps, Applied
<1> DEFINE S == {k \in Nat : k <= n => it[k] \in Nat}
<1>8. 0 \in S
  BY <1>7
<1>9. ASSUME NEW k \in Nat, k \in S PROVE k + 1 \in S
  <2> SUFFICES ASSUME k + 1 <= n PROVE it[k + 1] \in Nat
    OBVIOUS
  <2>1. PICK m \in 1 .. n : m = k + 1 /\ m - 1 = k
    OBVIOUS
  <2>2. it[k] \in Nat
    BY <1>9, <2>1
  <2>3. seq[m] \in Nat
    BY <1>2
  <2>4. it[m] = it[m - 1] + seq[m]
    BY <1>7
  <2> QED BY <2>1, <2>2, <2>3, <2>4
<1>10. n \in S
  <2> HIDE DEF S
  <2> QED BY <1>8, <1>9, Reaches
<1>11. h[D] \in Nat
  BY <1>3, <1>6, <1>10
<1> QED BY <1>1, <1>11

\* The length of joined sequences is the sum of theirs, given by what E adds
\* up to.
AddsUp(seqs, n, E) ==
  /\ E[0] = 0 /\ \A k \in 0 .. n : E[k] \in Nat
  /\ \A k \in 1 .. n : E[k] = E[k - 1] + Len(seqs[k])

LEMMA FlattenLength ==
  ASSUME NEW A, NEW seqs \in Seq(Seq(A)), NEW n \in Nat, n = Len(seqs), NEW E,
         AddsUp(seqs, n, E)
  PROVE  FlattenSeq(seqs) \in Seq(A) /\ Len(FlattenSeq(seqs)) = E[n]
<1>1. PICK f \in [1 .. n -> Seq(A)] :
        Flattens(seqs, n, f) /\ FlattenSeq(seqs) = IF n = 0 THEN seqs ELSE f[n]
  BY IsFlattened
<1>2. CASE n = 0
  <2>1. seqs \in [1 .. 0 -> Seq(A)]
    <3>1. seqs \in [1 .. n -> Seq(A)]
      OBVIOUS
    <3> QED BY <1>2, <3>1
  <2>2. \A k \in 1 .. 0 : FALSE
    OBVIOUS
  <2>3. seqs \in [1 .. 0 -> A]
    BY <2>1, <2>2
  <2>4. seqs \in Seq(A)
    BY <2>3
  <2>5. Len(seqs) = E[n]
    BY <1>2 DEF AddsUp
  <2> QED BY <1>1, <1>2, <2>4, <2>5
<1>3. CASE n # 0
  <2> DEFINE S == {k \in Nat : 1 <= k /\ k <= n => Len(f[k]) = E[k]}
  <2>1. 0 \in S
    OBVIOUS
  <2>2. ASSUME NEW k \in Nat, k \in S PROVE k + 1 \in S
    <3> SUFFICES ASSUME k + 1 <= n PROVE Len(f[k + 1]) = E[k + 1]
      OBVIOUS
    <3>1. PICK m \in 1 .. n : m = k + 1 /\ m - 1 = k
      OBVIOUS
    <3>2. f[m] = IF m = 1 THEN seqs[m] ELSE f[m - 1] \o seqs[m]
      BY <1>1 DEF Flattens, Flatten
    <3>3. seqs[m] \in Seq(A) /\ E[m] = E[k] + Len(seqs[m])
      <4>1. seqs[m] \in Seq(A)
        OBVIOUS
      <4>2. E[m] = E[m - 1] + Len(seqs[m])
        BY DEF AddsUp
      <4> QED BY <3>1, <4>1, <4>2
    <3>4. CASE m = 1
      <4>1. k = 0 /\ f[m] = seqs[m] /\ Len(seqs[m]) \in Nat
        BY <3>1, <3>2, <3>3, <3>4
      <4>2. E[m] = Len(seqs[m])
        BY <3>3, <4>1 DEF AddsUp
      <4> QED BY <3>1, <4>1, <4>2
    <3>5. CASE m # 1
      <4>1. k \in 1 .. n
        BY <3>1, <3>5
      <4>2. f[k] \in Seq(A)
        BY <4>1
      <4>3. Len(f[k]) = E[k]
        <5>1. 1 <= k /\ k <= n
          BY <4>1
        <5> QED BY <2>2, <5>1
      <4>4. f[m] = f[k] \o seqs[m]
        BY <3>1, <3>2, <3>5
      <4>5. Len(f[m]) = Len(f[k]) + Len(seqs[m])
        <5>1. PICK s, t \in Seq(A) : s = f[k] /\ t = seqs[m]
          BY <3>3, <4>2
        <5>2. Len(s \o t) = Len(s) + Len(t)
          BY ConcatProperties
        <5> QED BY <4>4, <5>1, <5>2
      <4> QED BY <3>1, <3>3, <4>3, <4>5
    <3> QED BY <3>4, <3>5
  <2>3. n \in S
    <3> HIDE DEF S
    <3> QED BY <2>1, <2>2, Reaches
  <2>4. n \in 1 .. n
    BY <1>3
  <2> QED BY <1>1, <1>3, <2>3, <2>4
<1> QED BY <1>2, <1>3

\* Where each of the joined sequences is.
PartsOf(seqs, E, flat, m) ==
  /\ Len(flat) = E[m]
  /\ \A n \in 1..m : E[n] <= E[m] /\ \A i \in 1..Len(seqs[n]) : flat[E[n - 1] + i] = seqs[n][i]

LEMMA OneMorePart ==
  ASSUME NEW A, NEW seqs, NEW N \in Nat, NEW E, AddsUp(seqs, N, E), NEW k \in 0..N, NEW m \in 1..N, m = k + 1,
         NEW flat \in Seq(A), NEW s \in Seq(A), s = seqs[m], PartsOf(seqs, E, flat, k)
  PROVE  PartsOf(seqs, E, flat \o s, m)
<1>1. PICK e \in Nat, l \in Nat : e = E[k] /\ l = Len(s) /\ Len(flat) = e
  BY DEF PartsOf, AddsUp
<1>2. E[m] = e + l /\ m - 1 = k
  BY <1>1 DEF AddsUp
<1>3. Len(flat \o s) = e + l
  BY <1>1, ConcatProperties
<1>4. ASSUME NEW i \in 1..l PROVE (flat \o s)[e + i] = s[i]
  BY <1>1, SMTT(40)
<1>5. ASSUME NEW i \in 1..e PROVE (flat \o s)[i] = flat[i]
  BY <1>1
<1>6. ASSUME NEW n \in 1..m
      PROVE  E[n] <= E[m] /\ \A i \in 1..Len(seqs[n]) : (flat \o s)[E[n - 1] + i] = seqs[n][i]
  <2>1. CASE n = m
    <3>1. E[n] <= E[m]
      BY <1>1, <1>2, <2>1
    <3>2. seqs[n] = s /\ E[n - 1] = e
      BY <1>1, <1>2, <2>1
    <3> QED BY <1>1, <1>4, <3>1, <3>2
  <2>2. CASE n # m
    <3>1. n \in 1..k /\ n \in 1..N /\ n - 1 \in 0..N
      BY <2>2
    <3>2. PICK p \in Nat, q \in Nat : p = E[n - 1] /\ q = E[n] /\ q <= e
      <4>1. E[n - 1] \in Nat /\ E[n] \in Nat
        BY <3>1 DEF AddsUp
      <4>2. E[n] <= E[k]
        BY <3>1 DEF PartsOf
      <4> QED BY <1>1, <4>1, <4>2
    <3>3. q <= E[m]
      BY <1>1, <1>2, <3>2
    <3>4. ASSUME NEW i \in 1..Len(seqs[n]) PROVE (flat \o s)[p + i] = seqs[n][i]
      <4>1. q = p + Len(seqs[n])
        BY <3>1, <3>2 DEF AddsUp
      <4>2. p + i \in 1..e
        <5>1. Len(seqs[n]) \in Int
          BY <3>1 DEF AddsUp
        <5>2. PICK c \in Int : c = Len(seqs[n])
          BY <5>1
        <5>3. i \in 1..c /\ q = p + c
          BY <4>1, <5>2
        <5>4. ASSUME NEW p1 \in Nat, NEW q1 \in Nat, NEW e1 \in Nat, NEW c1 \in Int, NEW i1 \in 1..c1,
                     q1 <= e1, q1 = p1 + c1
              PROVE  p1 + i1 \in 1..e1
          BY <5>4
        <5>5. q <= e
          BY <3>2
        <5> QED BY <5>3, <5>4, <5>5, Zenon
      <4>3. flat[p + i] = seqs[n][i]
        BY <3>1, <3>2 DEF PartsOf
      <4> QED BY <1>5, <4>2, <4>3
    <3> QED BY <3>2, <3>3, <3>4
  <2> QED BY <2>1, <2>2
<1> QED BY <1>2, <1>3, <1>6 DEF PartsOf

LEMMA FlattenedParts ==
  ASSUME NEW A, NEW seqs \in Seq(Seq(A)), NEW N \in Nat, N = Len(seqs), NEW E, AddsUp(seqs, N, E)
  PROVE  FlattenSeq(seqs) \in Seq(A) /\ PartsOf(seqs, E, FlattenSeq(seqs), N)
<1>1. PICK f \in [1..N -> Seq(A)] :
        Flattens(seqs, N, f) /\ FlattenSeq(seqs) = IF N = 0 THEN seqs ELSE f[N]
  BY IsFlattened
<1>2. FlattenSeq(seqs) \in Seq(A) /\ Len(FlattenSeq(seqs)) = E[N]
  BY FlattenLength
<1>3. CASE N = 0
  <2>1. \A n \in 1..N : FALSE
    BY <1>3
  <2> QED BY <1>2, <2>1 DEF PartsOf
<1>4. CASE N # 0
  <2> DEFINE S == {k \in Nat : 1 <= k /\ k <= N => PartsOf(seqs, E, f[k], k)}
  <2>1. 0 \in S
    OBVIOUS
  <2>2. ASSUME NEW k \in Nat, k \in S PROVE k + 1 \in S
    <3> SUFFICES ASSUME k + 1 <= N PROVE PartsOf(seqs, E, f[k + 1], k + 1)
      OBVIOUS
    <3>1. PICK m \in 1..N : m = k + 1 /\ m - 1 = k
      OBVIOUS
    <3>2. f[m] = IF m = 1 THEN seqs[m] ELSE f[m - 1] \o seqs[m]
      BY <1>1 DEF Flattens, Flatten
    <3>3. PICK s \in Seq(A) : s = seqs[m]
      OBVIOUS
    <3>4. k \in 0..N
      BY <3>1
    <3>5. PICK before \in Seq(A) : /\ f[m] = before \o s
                                   /\ PartsOf(seqs, E, before, k)
      <4>1. CASE m = 1
        <5>1. PICK none \in Seq(A) : none = <<>>
          <6>1. <<>> \in Seq(A)
            OBVIOUS
          <6> QED BY <6>1, Zenon
        <5>2. Len(none) = 0 /\ none \o s = s
          BY <5>1
        <5>3. k = 0 /\ E[k] = 0 /\ \A n \in 1..k : FALSE
          <6>1. k = 0
            BY <3>1, <4>1
          <6>2. E[0] = 0
            BY DEF AddsUp
          <6>3. \A n \in 1..k : FALSE
            BY <6>1
          <6> QED BY <6>1, <6>2, <6>3
        <5>4. PartsOf(seqs, E, none, k)
          BY <5>2, <5>3, Zenon DEF PartsOf
        <5>5. f[m] = none \o s
          BY <3>2, <3>3, <4>1, <5>2
        <5> QED BY <5>4, <5>5
      <4>2. CASE m # 1
        <5>1. k \in 1..N /\ 1 <= k /\ k <= N
          BY <3>1, <4>2
        <5>2. PartsOf(seqs, E, f[k], k) /\ f[k] \in Seq(A)
          BY <2>2, <5>1
        <5>3. f[m] = f[k] \o s
          BY <3>1, <3>2, <3>3, <4>2
        <5> QED BY <5>2, <5>3
      <4> QED BY <4>1, <4>2
    <3>6. PartsOf(seqs, E, before \o s, m)
      BY <3>1, <3>3, <3>4, <3>5, OneMorePart
    <3> QED BY <3>1, <3>5, <3>6, Zenon
  <2>3. N \in S
    <3> HIDE DEF S
    <3> QED BY <2>1, <2>2, Reaches
  <2>4. 1 <= N
    BY <1>4
  <2> QED BY <1>1, <1>2, <1>4, <2>3, <2>4
<1> QED BY <1>3, <1>4

\* A sequence of one or two elements, repeated.
LEMMA RepeatLength ==
  ASSUME NEW A, NEW s \in Seq(A), NEW l \in {1, 2}, l = Len(s), NEW n \in Nat
  PROVE  Repeat(n, s) \in Seq(A) /\ Len(Repeat(n, s)) = n * l
<1>1. PICK seqs : seqs = [i \in 1 .. n |-> s]
  OBVIOUS
<1>2. seqs \in Seq(Seq(A)) /\ Len(seqs) = n /\ \A k \in 1 .. n : seqs[k] = s
  <2>1. PICK T : T = Seq(A)
    OBVIOUS
  <2>2. seqs \in Seq(T) /\ Len(seqs) = n
    BY <1>1, <2>1
  <2> QED BY <1>1, <2>1, <2>2
<1>3. PICK E : E = [k \in 0 .. n |-> k * l]
  OBVIOUS
<1>4. \A k \in 0 .. n : E[k] \in Nat
  BY <1>3
<1>5. E[0] = 0 /\ E[n] = n * l
  BY <1>3
<1>6. ASSUME NEW k \in 1 .. n PROVE E[k] = E[k - 1] + Len(seqs[k])
  <2>1. E[k] = k * l /\ E[k - 1] = (k - 1) * l /\ Len(seqs[k]) = l
    BY <1>2, <1>3
  <2>2. CASE l = 1
    BY <2>1, <2>2
  <2>3. CASE l = 2
    BY <2>1, <2>3
  <2> QED BY <2>2, <2>3
<1>7. FlattenSeq(seqs) \in Seq(A) /\ Len(FlattenSeq(seqs)) = E[n]
  <2>1. seqs \in Seq(Seq(A)) /\ n = Len(seqs)
    BY <1>2
  <2>2. AddsUp(seqs, n, E)
    BY <1>4, <1>5, <1>6 DEF AddsUp
  <2> QED BY <2>1, <2>2, FlattenLength
<1> QED BY <1>1, <1>5, <1>7 DEF Repeat

-----------------------------------------------------------------------------
(* Itineraries: what the solver returns.                                   *)

Loads == UNION {[PortMasks[mask] -> 0 .. Unit] : mask \in MaskIndices}

\* A micro-operation of a solution: on the ports of its mask, one in all.
UsedUops ==
  {uop \in [mask : MaskIndices, load : Loads] :
     /\ uop.load \in [PortMasks[uop.mask] -> 0 .. Unit]
     /\ SumOver(uop.load, PortMasks[uop.mask]) = Unit}

LEMMA MasksAreFinite ==
  ASSUME NEW mask \in MaskIndices
  PROVE  IsFiniteSet(PortMasks[mask]) /\ PortMasks[mask] \subseteq Ports
BY DecompositionAssumption DEF MaskIndices, Ports

LEMMA MaskNumbers ==
  /\ Len(PortMasks) \in Nat
  /\ MaskIndices = 1 .. Len(PortMasks)
BY DecompositionAssumption DEF MaskIndices

LEMMA LoadType ==
  ASSUME NEW uops \in Seq(MaskIndices), NEW balanced, NEW port \in Ports
  PROVE  Observe(Load(uops, balanced))[port] \in Nat
<1>1. ASSUME NEW mask \in MaskIndices PROVE Share(mask, balanced, port) \in Nat
  <2>1. Unit \in Nat
    BY DecompositionAssumption
  <2>2. ASSUME port \in PortMasks[mask] PROVE Unit \div Cardinality(PortMasks[mask]) \in Nat
    <3>1. IsFiniteSet(PortMasks[mask]) /\ PortMasks[mask] # {}
      BY <2>2, MasksAreFinite
    <3>2. Cardinality(PortMasks[mask]) \in Nat /\ Cardinality(PortMasks[mask]) # 0
      BY <3>1, FS_CardinalityType, FS_EmptySet
    <3>3. PICK c \in Nat \ {0} : c = Cardinality(PortMasks[mask])
      BY <3>2
    <3>4. Unit \div c \in Nat
      BY <2>1
    <3> QED BY <3>3, <3>4
  <2> QED BY <2>1, <2>2 DEF Share
<1>2. PICK seq : seq = [i \in DOMAIN uops |-> Share(uops[i], balanced, port)]
  OBVIOUS
<1>3. seq \in Seq(Nat)
  <2>1. PICK n \in Nat : n = Len(uops) /\ DOMAIN uops = 1 .. n
    OBVIOUS
  <2>2. \A i \in 1 .. n : uops[i] \in MaskIndices
    BY <2>1
  <2>3. seq \in [1 .. n -> Nat]
    BY <1>1, <1>2, <2>1, <2>2
  <2> QED BY <2>3
<1>4. Load(uops, balanced)[port] = FoldLeft(+, 0, seq)
  BY <1>2 DEF Load
<1>5. FoldLeft(+, 0, seq) \in Nat
  BY <1>3, SumOfSequence
<1> QED BY <1>4, <1>5 DEF Observe

LEMMA SlotsType ==
  ASSUME NEW measurements, \A port \in Ports : measurements[port] \in Nat
  PROVE  Slots(measurements) \in Seq(MaskIndices \X Nat)
<1>1. ASSUME NEW mask \in MaskIndices PROVE MaxUopsPerMask(measurements, mask) \in Nat
  <2>1. PICK s \in Nat : s = SumOver(measurements, PortMasks[mask])
    BY MasksAreFinite, SumType
  <2>2. Unit \in Nat \ {0}
    BY DecompositionAssumption
  <2>3. s \div Unit \in Nat
    BY <2>2
  <2> QED BY <2>1, <2>3 DEF MaxUopsPerMask
<1>2. PICK m \in Nat : m = Len(PortMasks) /\ MaskIndices = 1 .. m
  BY MaskNumbers
<1>3. PICK A : A = MaskIndices \X Nat
  OBVIOUS
<1>4. PICK seqs : seqs = [mask \in MaskIndices |->
                            [n \in 1 .. MaxUopsPerMask(measurements, mask) |-> <<mask, n>>]]
  OBVIOUS
<1>5. ASSUME NEW mask \in MaskIndices PROVE seqs[mask] \in Seq(A)
  <2>1. PICK c \in Nat : c = MaxUopsPerMask(measurements, mask)
    BY <1>1
  <2>2. seqs[mask] = [n \in 1 .. c |-> <<mask, n>>]
    BY <1>4, <2>1
  <2>3. seqs[mask] \in [1 .. c -> A]
    BY <1>3, <2>2
  <2> QED BY <2>3
<1>6. seqs \in Seq(Seq(A)) /\ Len(seqs) = m
  <2>1. PICK T : T = Seq(A)
    OBVIOUS
  <2>2. seqs \in [1 .. m -> T]
    BY <1>2, <1>4, <1>5, <2>1
  <2>3. seqs \in Seq(T) /\ Len(seqs) = m
    BY <2>2
  <2> QED BY <2>1, <2>3
<1>7. PICK f \in [1 .. m -> Seq(A)] : FlattenSeq(seqs) = IF m = 0 THEN seqs ELSE f[m]
  <2>1. seqs \in Seq(Seq(A)) /\ m = Len(seqs)
    BY <1>6
  <2> QED BY <2>1, IsFlattened
<1>8. m # 0 /\ m \in 1 .. m
  <2>1. StoreDataMask \in 1 .. m
    BY <1>2, DecompositionAssumption DEF MaskIndices
  <2> QED BY <2>1
<1>9. FlattenSeq(seqs) \in Seq(A)
  BY <1>7, <1>8
<1> QED BY <1>3, <1>4, <1>9 DEF Slots

\* Candidates that only use micro-operations of UsedUops.
Proper(candidates) == \A c \in candidates : c.used \in Seq(UsedUops)

LEMMA PlaceProper ==
  ASSUME NEW candidates, Proper(candidates), NEW slot \in MaskIndices \X Nat
  PROVE  Proper(TryBoth(candidates, slot))
<1> SUFFICES ASSUME NEW c \in candidates, NEW load \in LoadsOf(slot[1], c.left)
             PROVE  Place(c, slot, load).used \in Seq(UsedUops)
  BY DEF Proper, TryBoth
<1>1. slot[1] \in MaskIndices /\ c.used \in Seq(UsedUops)
  BY DEF Proper
<1>2. PICK uop : uop = [mask |-> slot[1], load |-> load]
  OBVIOUS
<1>3. /\ load \in [PortMasks[slot[1]] -> 0 .. Unit]
      /\ SumOver(load, PortMasks[slot[1]]) = Unit
  BY DEF LoadsOf
<1>4. load \in Loads
  BY <1>1, <1>3 DEF Loads
<1>5. uop.mask = slot[1] /\ uop.load = load /\ uop \in [mask : MaskIndices, load : Loads]
  BY <1>1, <1>2, <1>4
<1>6. uop \in UsedUops
  BY <1>3, <1>5 DEF UsedUops
<1>7. Place(c, slot, load).used = Append(c.used, uop)
  BY <1>2 DEF Place
<1> QED BY <1>1, <1>6, <1>7

LEMMA SolutionsAreProper ==
  ASSUME NEW measurements, \A port \in Ports : measurements[port] \in Nat, NEW numUops
  PROVE  Proper(Solutions(measurements, numUops))
<1>1. PICK seq : seq = Slots(measurements)
  OBVIOUS
<1>2. seq \in Seq(MaskIndices \X Nat)
  BY <1>1, SlotsType
<1>3. PICK base : base = {[used |-> << >>, left |-> measurements]}
  OBVIOUS
<1> DEFINE D == DOMAIN seq
           Is(f) == f = [s \in SUBSET D |->
                           IF s = {} THEN base ELSE TryBoth(f[s \ {Max(s)}], seq[Max(s)])]
           h == CHOOSE f : Is(f)
<1>4. \A c \in Solutions(measurements, numUops) : c \in h[D]
  BY <1>1, <1>3 DEF Solutions, FoldLeft, MapThenFoldSet, TryBoth
<1>5. PICK n \in Nat : n = Len(seq)
  BY <1>2
<1>6. D = 1 .. n
  BY <1>2, <1>5
<1>7. \A f : Is(f) <=> FoldedOver("try", base, seq, n, f)
  BY <1>6 DEF FoldedOver, Applied
<1> HIDE DEF Is
<1>8. FoldedOver("try", base, seq, n, h)
  BY <1>7, FoldExists
<1> HIDE DEF h, D
<1>9. PICK it : Steps("try", base, seq, n, it) /\ it[n] = h[1 .. n]
  BY <1>8, FoldSteps
<1>10. it[0] = base /\ \A k \in 1 .. n : it[k] = TryBoth(it[k - 1], seq[k])
  BY <1>9 DEF Steps, Applied
<1> DEFINE S == {k \in Nat : k <= n => Proper(it[k])}
<1>11. 0 \in S
  <2>1. << >> \in Seq(UsedUops)
    OBVIOUS
  <2>2. \A c \in base : c.used = << >>
    BY <1>3
  <2>3. Proper(base)
    BY <2>1, <2>2 DEF Proper
  <2> QED BY <1>10, <2>3
<1>12. ASSUME NEW k \in Nat, k \in S PROVE k + 1 \in S
  <2> SUFFICES ASSUME k + 1 <= n PROVE Proper(it[k + 1])
    OBVIOUS
  <2>1. PICK m \in 1 .. n : m = k + 1 /\ m - 1 = k
    OBVIOUS
  <2>2. Proper(it[k])
    BY <1>12, <2>1
  <2>3. seq[m] \in MaskIndices \X Nat
    BY <1>2, <1>5
  <2>4. it[m] = TryBoth(it[k], seq[m])
    BY <1>10, <2>1
  <2> QED BY <2>1, <2>2, <2>3, <2>4, PlaceProper
<1>13. n \in S
  <2> HIDE DEF S
  <2> QED BY <1>11, <1>12, Reaches
<1>14. Proper(h[D])
  BY <1>6, <1>9, <1>13
<1> QED BY <1>4, <1>14 DEF Proper

-----------------------------------------------------------------------------
(* Itineraries: the order of the micro-operations has as many of them as   *)
(* the solution.                                                           *)

\* Where a solution uses a mask of S.
UsesOf(used, S) == {i \in DOMAIN used : used[i].mask \in S}

LEMMA UsesCount ==
  ASSUME NEW used \in Seq(UsedUops), NEW S
  PROVE  IsFiniteSet(UsesOf(used, S)) /\ Cardinality(UsesOf(used, S)) \in Nat
<1>1. PICK n \in Nat : DOMAIN used = 1 .. n
  OBVIOUS
<1>2. IsFiniteSet(UsesOf(used, S))
  BY <1>1, FS_Interval, FS_Subset DEF UsesOf
<1> QED BY <1>2, FS_CardinalityType

LEMMA UsesAddUp ==
  ASSUME NEW used \in Seq(UsedUops), NEW S, NEW T, S \cap T = {}, NEW R, R = S \cup T
  PROVE  Cardinality(UsesOf(used, R)) =
           Cardinality(UsesOf(used, S)) + Cardinality(UsesOf(used, T))
<1>1. PICK A, B, C : A = UsesOf(used, S) /\ B = UsesOf(used, T) /\ C = UsesOf(used, R)
  OBVIOUS
<1>2. /\ IsFiniteSet(A) /\ Cardinality(A) \in Nat
      /\ IsFiniteSet(B) /\ Cardinality(B) \in Nat
  BY <1>1, UsesCount
<1>3. C = A \cup B /\ A \cap B = {}
  BY <1>1 DEF UsesOf
<1>4. Cardinality(C) = Cardinality(A) + Cardinality(B) - Cardinality({})
  BY <1>2, <1>3, FS_Union
<1> QED BY <1>1, <1>2, <1>4, FS_EmptySet

LEMMA NoUses ==
  ASSUME NEW used \in Seq(UsedUops)
  PROVE  Cardinality(UsesOf(used, {})) = 0
<1>1. UsesOf(used, {}) = {}
  BY DEF UsesOf
<1> QED BY <1>1, FS_EmptySet

Histogram(used) ==
  [mask \in MaskIndices |-> Cardinality({i \in DOMAIN used : used[i].mask = mask})]

LEMMA HistogramCounts ==
  ASSUME NEW used \in Seq(UsedUops), NEW mask \in MaskIndices
  PROVE  /\ Histogram(used)[mask] \in Nat
         /\ Histogram(used)[mask] = Cardinality(UsesOf(used, {mask}))
<1>1. UsesOf(used, {mask}) = {i \in DOMAIN used : used[i].mask = mask}
  BY DEF UsesOf
<1>2. Cardinality(UsesOf(used, {mask})) \in Nat
  BY UsesCount
<1> QED BY <1>1, <1>2 DEF Histogram

Computations(remaining) ==
  FlattenSeq([mask \in MaskIndices |->
                IF mask \in ComputationMasks THEN Repeat(remaining[mask], <<mask>>) ELSE << >>])

LEMMA ComputationsLength ==
  ASSUME NEW used \in Seq(UsedUops), NEW remaining,
         \A mask \in ComputationMasks : remaining[mask] = Histogram(used)[mask]
  PROVE  /\ Computations(remaining) \in Seq(ComputationMasks)
         /\ Len(Computations(remaining)) = Cardinality(UsesOf(used, ComputationMasks))
<1>1. PICK m \in Nat : m = Len(PortMasks) /\ MaskIndices = 1 .. m
  BY MaskNumbers
<1>2. PICK seqs : seqs = [mask \in MaskIndices |->
                            IF mask \in ComputationMasks THEN Repeat(remaining[mask], <<mask>>)
                            ELSE << >>]
  OBVIOUS
<1>3. ASSUME NEW mask \in MaskIndices
      PROVE  /\ seqs[mask] \in Seq(ComputationMasks)
             /\ Len(seqs[mask]) = IF mask \in ComputationMasks THEN Histogram(used)[mask] ELSE 0
  <2>1. CASE mask \in ComputationMasks
    <3>1. PICK c \in Nat : c = Histogram(used)[mask]
      BY HistogramCounts
    <3>2. <<mask>> \in Seq(ComputationMasks) /\ Len(<<mask>>) = 1 /\ 1 \in {1, 2}
      BY <2>1
    <3>3. Repeat(c, <<mask>>) \in Seq(ComputationMasks) /\ Len(Repeat(c, <<mask>>)) = c * 1
      BY <3>2, RepeatLength
    <3>4. seqs[mask] = Repeat(c, <<mask>>) /\ c * 1 = c
      BY <1>2, <2>1, <3>1
    <3> QED BY <2>1, <3>1, <3>3, <3>4
  <2>2. CASE mask \notin ComputationMasks
    <3>1. seqs[mask] = << >> /\ << >> \in Seq(ComputationMasks) /\ Len(<< >>) = 0
      BY <1>2, <2>2
    <3> QED BY <2>2, <3>1
  <2> QED BY <2>1, <2>2
<1>4. PICK E : E = [k \in 0 .. m |-> Cardinality(UsesOf(used, 1 .. k \cap ComputationMasks))]
  OBVIOUS
<1>5. E[0] = 0
  <2>1. 1 .. 0 \cap ComputationMasks = {} /\ 0 \in 0 .. m
    OBVIOUS
  <2> QED BY <1>4, <2>1, NoUses
<1>6. \A k \in 0 .. m : E[k] \in Nat
  <2>1. ASSUME NEW k \in 0 .. m
        PROVE  Cardinality(UsesOf(used, 1 .. k \cap ComputationMasks)) \in Nat
    BY UsesCount
  <2> QED BY <1>4, <2>1
<1>7. ASSUME NEW k \in 1 .. m PROVE E[k] = E[k - 1] + Len(seqs[k])
  <2>1. PICK S, T : S = 1 .. k - 1 \cap ComputationMasks /\ T = {k} \cap ComputationMasks
    OBVIOUS
  <2>2. S \cap T = {} /\ 1 .. k \cap ComputationMasks = S \cup T
    BY <2>1
  <2>3. k \in 0 .. m /\ k - 1 \in 0 .. m
    OBVIOUS
  <2>4. PICK R : R = 1 .. k \cap ComputationMasks
    OBVIOUS
  <2>5. E[k] = Cardinality(UsesOf(used, R))
    BY <1>4, <2>3, <2>4
  <2>6. E[k - 1] = Cardinality(UsesOf(used, S))
    BY <1>4, <2>1, <2>3
  <2>7. Cardinality(UsesOf(used, R)) =
          Cardinality(UsesOf(used, S)) + Cardinality(UsesOf(used, T))
    BY <2>2, <2>4, UsesAddUp
  <2>8. Cardinality(UsesOf(used, T)) = Len(seqs[k])
    <3>1. k \in MaskIndices
      BY <1>1
    <3>2. CASE k \in ComputationMasks
      <4>1. T = {k}
        BY <2>1, <3>2
      <4> QED BY <1>3, <3>1, <3>2, <4>1, HistogramCounts
    <3>3. CASE k \notin ComputationMasks
      <4>1. T = {}
        BY <2>1, <3>3
      <4> QED BY <1>3, <3>1, <3>3, <4>1, NoUses
    <3> QED BY <3>2, <3>3
  <2> QED BY <2>5, <2>6, <2>7, <2>8
<1>8. seqs \in Seq(Seq(ComputationMasks)) /\ Len(seqs) = m
  <2>1. PICK T : T = Seq(ComputationMasks)
    OBVIOUS
  <2>2. seqs \in [1 .. m -> T]
    BY <1>1, <1>2, <1>3, <2>1
  <2>3. seqs \in Seq(T) /\ Len(seqs) = m
    BY <2>2
  <2> QED BY <2>1, <2>3
<1>9. FlattenSeq(seqs) \in Seq(ComputationMasks) /\ Len(FlattenSeq(seqs)) = E[m]
  <2>1. AddsUp(seqs, m, E)
    BY <1>5, <1>6, <1>7 DEF AddsUp
  <2> QED BY <1>8, <2>1, FlattenLength
<1>10. E[m] = Cardinality(UsesOf(used, ComputationMasks))
  <2>1. 1 .. m \cap ComputationMasks = ComputationMasks
    BY <1>1 DEF ComputationMasks
  <2> QED BY <1>4, <2>1
<1> QED BY <1>2, <1>9, <1>10 DEF Computations

\* All uses are of a computation or of one of the special masks.
LEMMA UsesOfAll ==
  ASSUME NEW used \in Seq(UsedUops), NEW c, c = Cardinality(UsesOf(used, ComputationMasks)),
         NEW h, h = Histogram(used)
  PROVE  Len(used) = c + h[LoadStoreMask] + h[StoreDataMask]
                     + (IF StoreAddressMask = LoadStoreMask THEN 0 ELSE h[StoreAddressMask])
<1>1. {LoadStoreMask, StoreAddressMask, StoreDataMask} \subseteq MaskIndices
      /\ StoreDataMask \notin {LoadStoreMask, StoreAddressMask}
  BY DecompositionAssumption DEF MaskIndices
<1>2. PICK n \in Nat : n = Len(used) /\ DOMAIN used = 1 .. n
  OBVIOUS
<1>3. UsesOf(used, MaskIndices) = 1 .. n
  <2>1. \A i \in 1 .. n : used[i] \in UsedUops
    BY <1>2
  <2> QED BY <1>2, <2>1 DEF UsesOf, UsedUops
<1>4. Cardinality(1 .. n) = n
  BY FS_Interval
<1>5. PICK A, B, C : /\ A = ComputationMasks \cup {LoadStoreMask}
                     /\ B = A \cup {StoreDataMask}
                     /\ C = IF StoreAddressMask = LoadStoreMask THEN {} ELSE {StoreAddressMask}
  OBVIOUS
<1>6. /\ ComputationMasks \cap {LoadStoreMask} = {} /\ A \cap {StoreDataMask} = {}
      /\ B \cap C = {} /\ B \cup C = MaskIndices
  BY <1>1, <1>5 DEF ComputationMasks
<1>7. \A mask \in MaskIndices : h[mask] = Cardinality(UsesOf(used, {mask}))
  BY HistogramCounts
<1>8. Cardinality(UsesOf(used, A)) = c + h[LoadStoreMask]
  <2>1. Cardinality(UsesOf(used, A)) =
          Cardinality(UsesOf(used, ComputationMasks)) + Cardinality(UsesOf(used, {LoadStoreMask}))
    BY <1>5, <1>6, UsesAddUp
  <2> QED BY <1>1, <1>7, <2>1
<1>9. Cardinality(UsesOf(used, B)) = Cardinality(UsesOf(used, A)) + h[StoreDataMask]
  <2>1. Cardinality(UsesOf(used, B)) =
          Cardinality(UsesOf(used, A)) + Cardinality(UsesOf(used, {StoreDataMask}))
    BY <1>5, <1>6, UsesAddUp
  <2> QED BY <1>1, <1>7, <2>1
<1>10. n = Cardinality(UsesOf(used, B)) + Cardinality(UsesOf(used, C))
  BY <1>3, <1>4, <1>6, UsesAddUp
<1>11. Cardinality(UsesOf(used, C)) =
         IF StoreAddressMask = LoadStoreMask THEN 0 ELSE h[StoreAddressMask]
  <2>1. CASE StoreAddressMask = LoadStoreMask
    BY <1>5, <2>1, NoUses
  <2>2. CASE StoreAddressMask # LoadStoreMask
    BY <1>1, <1>5, <1>7, <2>2
  <2> QED BY <2>1, <2>2
<1> QED BY <1>2, <1>8, <1>9, <1>10, <1>11

-----------------------------------------------------------------------------
(* Itineraries: what comes where in a signature.                           *)

OtherMasks == MaskIndices \ {StoreDataMask}
AddressMasks == {LoadStoreMask, StoreAddressMask}

\* An address generation and its store, over and over.
Paired(s) ==
  /\ s \in Seq(MaskIndices)
  /\ \E n \in Nat :
       /\ Len(s) = 2 * n
       /\ \A j \in 1 .. n : s[2 * j - 1] \in AddressMasks /\ s[2 * j] = StoreDataMask

LEMMA RepeatPaired ==
  ASSUME NEW mask \in AddressMasks, NEW n \in Nat
  PROVE  Paired(Repeat(n, <<mask, StoreDataMask>>))
<1>1. mask \in MaskIndices /\ StoreDataMask \in MaskIndices
  BY DecompositionAssumption DEF AddressMasks, MaskIndices
<1>2. PICK s \in Seq(MaskIndices) : s = <<mask, StoreDataMask>>
  <2>1. <<mask, StoreDataMask>> \in Seq(MaskIndices)
    BY <1>1
  <2> QED BY <2>1
<1>3. Len(s) = 2 /\ s[1] = mask /\ s[2] = StoreDataMask /\ DOMAIN s = 1 .. 2
  BY <1>2
<1>4. PICK seqs : seqs = [i \in 1 .. n |-> s]
  OBVIOUS
<1>5. seqs \in Seq(Seq(MaskIndices)) /\ Len(seqs) = n /\ \A k \in 1 .. n : seqs[k] = s
  <2>1. PICK T : T = Seq(MaskIndices)
    OBVIOUS
  <2>2. seqs \in Seq(T) /\ Len(seqs) = n
    BY <1>4, <2>1
  <2> QED BY <1>4, <2>1, <2>2
<1>6. PICK E : E = [k \in 0 .. n |-> k * 2]
  OBVIOUS
<1>7. AddsUp(seqs, n, E)
  <2>1. \A k \in 0 .. n : E[k] \in Nat
    BY <1>6
  <2>2. E[0] = 0
    BY <1>6
  <2>3. ASSUME NEW k \in 1 .. n PROVE E[k] = E[k - 1] + Len(seqs[k])
    <3>1. E[k] = k * 2 /\ E[k - 1] = (k - 1) * 2
      BY <1>6
    <3>2. Len(seqs[k]) = 2
      BY <1>3, <1>5
    <3> QED BY <3>1, <3>2
  <2> QED BY <2>1, <2>2, <2>3 DEF AddsUp
<1>8. PICK flat \in Seq(MaskIndices) : flat = FlattenSeq(seqs) /\ PartsOf(seqs, E, flat, n)
  BY <1>5, <1>7, FlattenedParts
<1>9. Len(flat) = 2 * n
  BY <1>6, <1>8 DEF PartsOf
<1>10. ASSUME NEW j \in 1 .. n
       PROVE  flat[2 * j - 1] \in AddressMasks /\ flat[2 * j] = StoreDataMask
  <2>1. \A i \in 1 .. Len(seqs[j]) : flat[E[j - 1] + i] = seqs[j][i]
    BY <1>8 DEF PartsOf
  <2>2. seqs[j] = s
    BY <1>5
  <2>3. flat[E[j - 1] + 1] = mask /\ flat[E[j - 1] + 2] = StoreDataMask
    <3>1. 1 \in 1 .. Len(s) /\ 2 \in 1 .. Len(s)
      BY <1>3
    <3> QED BY <1>3, <2>1, <2>2, <3>1
  <2>4. E[j - 1] + 1 = 2 * j - 1 /\ E[j - 1] + 2 = 2 * j
    BY <1>6
  <2> QED BY <2>3, <2>4
<1>11. Repeat(n, <<mask, StoreDataMask>>) = flat
  BY <1>2, <1>4, <1>8 DEF Repeat
<1> QED BY <1>9, <1>10, <1>11 DEF Paired

LEMMA PairedAfterPaired ==
  ASSUME NEW s, NEW t, Paired(s), Paired(t)
  PROVE  Paired(s \o t)
<1>1. PICK a \in Seq(MaskIndices), m \in Nat :
        /\ a = s /\ Len(a) = 2 * m
        /\ \A j \in 1 .. m : a[2 * j - 1] \in AddressMasks /\ a[2 * j] = StoreDataMask
  BY DEF Paired
<1>2. PICK b \in Seq(MaskIndices), n \in Nat :
        /\ b = t /\ Len(b) = 2 * n
        /\ \A j \in 1 .. n : b[2 * j - 1] \in AddressMasks /\ b[2 * j] = StoreDataMask
  BY DEF Paired
<1>3. PICK c : c = a \o b
  OBVIOUS
<1>4. /\ c \in Seq(MaskIndices) /\ Len(c) = 2 * (m + n)
      /\ \A i \in 1 .. 2 * m : c[i] = a[i]
      /\ \A i \in 1 .. 2 * n : c[2 * m + i] = b[i]
  <2>1. c \in Seq(MaskIndices) /\ Len(c) = Len(a) + Len(b)
    BY <1>3, ConcatProperties
  <2>2. \A i \in 1 .. Len(a) : c[i] = a[i]
    BY <1>3
  <2>3. \A i \in 1 .. Len(b) : c[Len(a) + i] = b[i]
    BY <1>3
  <2> QED BY <1>1, <1>2, <2>1, <2>2, <2>3
<1>5. ASSUME NEW j \in 1 .. m + n
      PROVE  c[2 * j - 1] \in AddressMasks /\ c[2 * j] = StoreDataMask
  <2>1. CASE j <= m
    <3>1. j \in 1 .. m /\ 2 * j - 1 \in 1 .. 2 * m /\ 2 * j \in 1 .. 2 * m
      BY <2>1
    <3> QED BY <1>1, <1>4, <3>1
  <2>2. CASE ~ (j <= m)
    <3>1. PICK i \in 1 .. n : j = m + i
      <4>1. j - m \in 1 .. n /\ j = m + (j - m)
        BY <2>2
      <4> QED BY <4>1
    <3>2. 2 * i - 1 \in 1 .. 2 * n /\ 2 * i \in 1 .. 2 * n
      OBVIOUS
    <3>3. 2 * j - 1 = 2 * m + (2 * i - 1) /\ 2 * j = 2 * m + 2 * i
      BY <3>1
    <3>4. c[2 * j - 1] = b[2 * i - 1] /\ c[2 * j] = b[2 * i]
      BY <1>4, <3>2, <3>3
    <3> QED BY <1>2, <3>4
  <2> QED BY <2>1, <2>2
<1>6. m + n \in Nat
  OBVIOUS
<1> QED BY <1>1, <1>2, <1>3, <1>4, <1>5, <1>6 DEF Paired

\* Micro-operations without a store, pairs, and the stores for which there is no
\* address; if there are some, all addresses are in pairs.
InOrder(s) ==
  \E u \in Seq(OtherMasks), w \in Seq({StoreDataMask}) :
    \E v \in Seq(MaskIndices) :
      /\ Paired(v) /\ s = (u \o v) \o w
      /\ w # << >> => u \in Seq(ComputationMasks)

LongSeq(s, A, l) == s \in Seq(A) /\ Len(s) = l

LEMMA Concatenated ==
  ASSUME NEW A, NEW s, NEW t, NEW l \in Nat, NEW m \in Nat, LongSeq(s, A, l), LongSeq(t, A, m)
  PROVE  LongSeq(s \o t, A, l + m)
<1>1. PICK a, b \in Seq(A) : a = s /\ b = t
  BY DEF LongSeq
<1>2. a \o b \in Seq(A) /\ Len(a \o b) = Len(a) + Len(b)
  BY ConcatProperties
<1> QED BY <1>1, <1>2 DEF LongSeq

\* The signature has as many elements as the solution (the CHECK_EQ of
\* GetMicroOps), and they are in order.
LEMMA SignatureIsOrdered ==
  ASSUME NEW used \in Seq(UsedUops)
  PROVE  /\ OrderMicroOperations(Histogram(used)).signature \in Seq(MaskIndices)
         /\ Len(OrderMicroOperations(Histogram(used)).signature) = Len(used)
         /\ InOrder(OrderMicroOperations(Histogram(used)).signature)
<1>1. PICK ls, sa, sd \in MaskIndices :
        /\ ls = LoadStoreMask /\ sa = StoreAddressMask /\ sd = StoreDataMask
        /\ sd # ls /\ sd # sa
  BY DecompositionAssumption DEF MaskIndices
<1>2. PICK h : h = Histogram(used)
  OBVIOUS
<1>3. h = [mask \in MaskIndices |-> h[mask]] /\ \A mask \in MaskIndices : h[mask] \in Nat
  <2>1. \A mask \in MaskIndices : h[mask] \in Nat
    BY <1>2, HistogramCounts
  <2> QED BY <1>2, <2>1 DEF Histogram
<1>4. PICK a, b, g \in Nat : a = h[sd] /\ b = h[sa] /\ g = h[ls] /\ (sa = ls => b = g)
  BY <1>3
<1>5. PICK p \in Nat : p = AtMost(a, b) /\ p <= a /\ p <= b
  BY DEF AtMost
<1>6. PICK unpaired : unpaired = [h EXCEPT ![sd] = @ - p, ![sa] = @ - p]
  OBVIOUS
<1>7. /\ unpaired[sd] = a - p
      /\ unpaired[sa] = b - p
      /\ unpaired[ls] = IF sa = ls THEN b - p ELSE g
      /\ unpaired = [mask \in MaskIndices |-> unpaired[mask]]
      /\ \A mask \in ComputationMasks : unpaired[mask] = h[mask]
  <2>1. \A mask \in MaskIndices :
          unpaired[mask] = IF mask = sa \/ mask = sd THEN h[mask] - p ELSE h[mask]
    BY <1>1, <1>3, <1>6
  <2>2. unpaired = [mask \in MaskIndices |-> unpaired[mask]]
    BY <1>3, <1>6
  <2> QED BY <1>1, <1>4, <2>1, <2>2 DEF ComputationMasks
<1>8. PICK q \in Nat : /\ q = AtMost(unpaired[sd], unpaired[ls])
                       /\ q <= a - p /\ q <= (IF sa = ls THEN b - p ELSE g)
  BY <1>5, <1>7 DEF AtMost
<1>9. PICK remaining : remaining = [unpaired EXCEPT ![sd] = @ - q, ![ls] = @ - q]
  OBVIOUS
<1>10. /\ remaining[sd] = a - p - q
       /\ remaining[ls] = (IF sa = ls THEN b - p ELSE g) - q
       /\ sa # ls => remaining[sa] = b - p
       /\ \A mask \in ComputationMasks : remaining[mask] = h[mask]
  <2>1. \A mask \in MaskIndices :
          remaining[mask] = IF mask = ls \/ mask = sd THEN unpaired[mask] - q ELSE unpaired[mask]
    BY <1>1, <1>7, <1>9
  <2> QED BY <1>1, <1>7, <2>1 DEF ComputationMasks
<1>11. PICK r1, r2, r5 \in Nat : /\ r1 = remaining[ls] /\ r5 = remaining[sd]
                                 /\ r2 = IF sa = ls THEN 0 ELSE remaining[sa]
  BY <1>5, <1>8, <1>10
<1>12. PICK x1, x2, x3, x4, x5, x6 :
         /\ x1 = Repeat(r1, <<ls>>)
         /\ x2 = IF sa = ls THEN << >> ELSE Repeat(remaining[sa], <<sa>>)
         /\ x3 = Computations(remaining)
         /\ x4 = Repeat(q, <<ls, sd>>)
         /\ x5 = Repeat(p, <<sa, sd>>)
         /\ x6 = Repeat(r5, <<sd>>)
  OBVIOUS
<1>13. OrderMicroOperations(h).signature = (x1 \o x2) \o x3 \o x4 \o x5 \o x6
  <2> DEFINE P == AtMost(h[StoreDataMask], h[StoreAddressMask])
             U == [h EXCEPT ![StoreDataMask] = @ - P, ![StoreAddressMask] = @ - P]
             Q == AtMost(U[StoreDataMask], U[LoadStoreMask])
             R == [U EXCEPT ![StoreDataMask] = @ - Q, ![LoadStoreMask] = @ - Q]
  <2>1. OrderMicroOperations(h).signature =
          (Repeat(R[LoadStoreMask], <<LoadStoreMask>>)
           \o (IF StoreAddressMask = LoadStoreMask THEN << >>
               ELSE Repeat(R[StoreAddressMask], <<StoreAddressMask>>)))
          \o Computations(R)
          \o Repeat(Q, <<LoadStoreMask, StoreDataMask>>)
          \o Repeat(P, <<StoreAddressMask, StoreDataMask>>)
          \o Repeat(R[StoreDataMask], <<StoreDataMask>>)
    BY DEF OrderMicroOperations, Computations
  <2>2. P = p
    BY <1>1, <1>4, <1>5
  <2> HIDE DEF P
  <2>3. U = unpaired
    BY <1>1, <1>6, <2>2
  <2> HIDE DEF U
  <2>4. Q = q
    BY <1>1, <1>8, <2>3
  <2> HIDE DEF Q
  <2>5. R = remaining
    BY <1>1, <1>9, <2>3, <2>4
  <2> HIDE DEF R
  <2> QED BY <1>1, <1>11, <1>12, <2>1, <2>2, <2>4, <2>5
<1>14. PICK M : M = MaskIndices
  OBVIOUS
<1>15. /\ <<ls>> \in Seq(M) /\ <<sa>> \in Seq(M) /\ <<sd>> \in Seq(M)
       /\ <<ls, sd>> \in Seq(M) /\ <<sa, sd>> \in Seq(M) /\ << >> \in Seq(M)
  BY <1>14
<1>16. /\ Len(<<ls>>) = 1 /\ Len(<<sa>>) = 1 /\ Len(<<sd>>) = 1 /\ Len(<< >>) = 0
       /\ Len(<<ls, sd>>) = 2 /\ Len(<<sa, sd>>) = 2 /\ 1 \in {1, 2} /\ 2 \in {1, 2}
  OBVIOUS
<1>17. x1 \in Seq(M) /\ Len(x1) = r1
  <2>1. Repeat(r1, <<ls>>) \in Seq(M) /\ Len(Repeat(r1, <<ls>>)) = r1 * 1
    BY <1>15, <1>16, RepeatLength
  <2> QED BY <1>12, <2>1
<1>18. x2 \in Seq(M) /\ Len(x2) = r2
  <2>1. CASE sa = ls
    BY <1>11, <1>12, <1>15, <1>16, <2>1
  <2>2. CASE sa # ls
    <3>1. Repeat(r2, <<sa>>) \in Seq(M) /\ Len(Repeat(r2, <<sa>>)) = r2 * 1
      BY <1>15, <1>16, RepeatLength
    <3> QED BY <1>11, <1>12, <2>2, <3>1
  <2> QED BY <2>1, <2>2
<1>19. PICK c \in Nat : c = Cardinality(UsesOf(used, ComputationMasks))
  BY UsesCount
<1>20. x3 \in Seq(M) /\ x3 \in Seq(ComputationMasks) /\ Len(x3) = c
  <2>1. PICK x \in Seq(ComputationMasks) : x = x3 /\ Len(x) = c
    BY <1>2, <1>10, <1>12, <1>19, ComputationsLength
  <2>2. ComputationMasks \subseteq M
    BY <1>14 DEF ComputationMasks
  <2>3. x \in Seq(M)
    BY <2>2
  <2> QED BY <2>1, <2>3
<1>21. x4 \in Seq(M) /\ Len(x4) = q * 2
  <2>1. Repeat(q, <<ls, sd>>) \in Seq(M) /\ Len(Repeat(q, <<ls, sd>>)) = q * 2
    BY <1>15, <1>16, RepeatLength
  <2> QED BY <1>12, <2>1
<1>22. x5 \in Seq(M) /\ Len(x5) = p * 2
  <2>1. Repeat(p, <<sa, sd>>) \in Seq(M) /\ Len(Repeat(p, <<sa, sd>>)) = p * 2
    BY <1>15, <1>16, RepeatLength
  <2> QED BY <1>12, <2>1
<1>23. x6 \in Seq(M) /\ Len(x6) = r5
  <2>1. Repeat(r5, <<sd>>) \in Seq(M) /\ Len(Repeat(r5, <<sd>>)) = r5 * 1
    BY <1>15, <1>16, RepeatLength
  <2> QED BY <1>12, <2>1
<1>24. PICK d, e \in Nat : d = q * 2 /\ e = p * 2
  OBVIOUS
<1>25. /\ LongSeq(x1, M, r1) /\ LongSeq(x2, M, r2) /\ LongSeq(x3, M, c)
       /\ LongSeq(x4, M, d) /\ LongSeq(x5, M, e) /\ LongSeq(x6, M, r5)
  BY <1>17, <1>18, <1>20, <1>21, <1>22, <1>23, <1>24 DEF LongSeq
<1>26. PICK l1, l2, l3, l4, l5 \in Nat :
         l1 = r1 + r2 /\ l2 = l1 + c /\ l3 = l2 + d /\ l4 = l3 + e /\ l5 = l4 + r5
  OBVIOUS
<1>27. PICK y1 : y1 = x1 \o x2 /\ LongSeq(y1, M, l1)
  BY <1>25, <1>26, Concatenated
<1>28. PICK y2 : y2 = y1 \o x3 /\ LongSeq(y2, M, l2)
  BY <1>25, <1>26, <1>27, Concatenated
<1>29. PICK y3 : y3 = y2 \o x4 /\ LongSeq(y3, M, l3)
  BY <1>25, <1>26, <1>28, Concatenated
<1>30. PICK y4 : y4 = y3 \o x5 /\ LongSeq(y4, M, l4)
  BY <1>25, <1>26, <1>29, Concatenated
<1>31. PICK y5 : y5 = y4 \o x6 /\ LongSeq(y5, M, l5)
  BY <1>25, <1>26, <1>30, Concatenated
<1>32. Len(used) = c + g + a + (IF sa = ls THEN 0 ELSE b)
  BY <1>1, <1>2, <1>4, <1>19, UsesOfAll
<1>33. l5 = Len(used)
  <2>1. PICK n \in Nat : n = Len(used)
    OBVIOUS
  <2>2. r5 = a - p - q
    BY <1>10, <1>11
  <2>3. CASE sa = ls
    <3>1. r1 = b - p - q /\ r2 = 0 /\ b = g
      BY <1>4, <1>10, <1>11, <2>3
    <3>2. n = c + g + a
      BY <1>32, <2>1, <2>3
    <3>3. l5 = n
      BY <1>24, <1>26, <2>2, <3>1, <3>2
    <3> QED BY <2>1, <3>3
  <2>4. CASE sa # ls
    <3>1. r1 = g - q /\ r2 = b - p
      BY <1>10, <1>11, <2>4
    <3>2. n = c + g + a + b
      BY <1>32, <2>1, <2>4
    <3>3. l5 = n
      BY <1>24, <1>26, <2>2, <3>1, <3>2
    <3> QED BY <2>1, <3>3
  <2> QED BY <2>3, <2>4
<1>34. OrderMicroOperations(h).signature = y5
  BY <1>13, <1>27, <1>28, <1>29, <1>30, <1>31
<1>35. PICK u \in Seq(OtherMasks) : u = y2
  <2>1. <<ls>> \in Seq(OtherMasks) /\ <<sa>> \in Seq(OtherMasks) /\ << >> \in Seq(OtherMasks)
    <3>1. ls \in OtherMasks /\ sa \in OtherMasks
      BY <1>1 DEF OtherMasks
    <3> QED BY <3>1
  <2>2. PICK s1 \in Seq(OtherMasks) : s1 = x1
    BY <1>12, <1>16, <2>1, RepeatLength
  <2>3. PICK s2 \in Seq(OtherMasks) : s2 = x2
    <3>1. CASE sa = ls
      BY <1>12, <2>1, <3>1
    <3>2. CASE sa # ls
      <4>1. Repeat(r2, <<sa>>) \in Seq(OtherMasks)
        BY <1>16, <2>1, RepeatLength
      <4> QED BY <1>11, <1>12, <3>2, <4>1
    <3> QED BY <3>1, <3>2
  <2>4. PICK s3 \in Seq(OtherMasks) : s3 = x3
    <3>1. ComputationMasks \subseteq OtherMasks
      BY DEF ComputationMasks, OtherMasks
    <3>2. PICK x \in Seq(ComputationMasks) : x = x3
      BY <1>20
    <3>3. x \in Seq(OtherMasks)
      BY <3>1
    <3> QED BY <3>2, <3>3
  <2>5. (s1 \o s2) \o s3 \in Seq(OtherMasks)
    <3>1. PICK s \in Seq(OtherMasks) : s = s1 \o s2
      BY ConcatProperties
    <3>2. s \o s3 \in Seq(OtherMasks)
      BY ConcatProperties
    <3> QED BY <3>1, <3>2
  <2> QED BY <1>27, <1>28, <2>2, <2>3, <2>4, <2>5
<1>36. ASSUME x6 # << >> PROVE u \in Seq(ComputationMasks)
  <2>1. r5 # 0
    <3> SUFFICES ASSUME r5 = 0 PROVE FALSE
      OBVIOUS
    <3>1. Len(x6) = 0
      BY <1>23
    <3> QED BY <1>23, <1>36, <3>1
  <2>2. r5 = a - p - q
    BY <1>10, <1>11
  <2>3. p = b
    BY <1>5, <2>1, <2>2 DEF AtMost
  <2>4. q = IF sa = ls THEN b - p ELSE g
    BY <1>4, <1>5, <1>7, <1>8, <2>1, <2>2 DEF AtMost
  <2>5. r1 = 0 /\ r2 = 0
    <3>1. CASE sa = ls
      BY <1>10, <1>11, <2>3, <2>4, <3>1
    <3>2. CASE sa # ls
      BY <1>10, <1>11, <2>3, <2>4, <3>2
    <3> QED BY <3>1, <3>2
  <2>6. x1 = << >> /\ x2 = << >>
    BY <1>17, <1>18, <2>5
  <2>7. << >> \o << >> = << >> /\ << >> \o x3 = x3
    BY <1>20
  <2> QED BY <1>20, <1>27, <1>28, <1>35, <2>6, <2>7
<1>37. PICK v \in Seq(MaskIndices) : v = x4 \o x5 /\ Paired(v)
  <2>1. Paired(x4)
    BY <1>1, <1>12, RepeatPaired DEF AddressMasks
  <2>2. Paired(x5)
    BY <1>1, <1>12, RepeatPaired DEF AddressMasks
  <2>3. Paired(x4 \o x5)
    BY <2>1, <2>2, PairedAfterPaired
  <2> QED BY <2>3 DEF Paired
<1>38. PICK w \in Seq({StoreDataMask}) : w = x6
  <2>1. <<sd>> \in Seq({StoreDataMask})
    BY <1>1
  <2> QED BY <1>12, <1>16, <2>1, RepeatLength
<1>39. y5 = (u \o v) \o w
  <2>1. PICK s, t, z \in Seq(M) : s = y2 /\ t = x4 /\ z = x5
    BY <1>21, <1>22, <1>28 DEF LongSeq
  <2>2. (s \o t) \o z = s \o (t \o z)
    BY ConcatAssociative, SMTT(40)
  <2> QED BY <1>29, <1>30, <1>31, <1>35, <1>37, <1>38, <2>1, <2>2
<1>40. InOrder(y5)
  BY <1>36, <1>37, <1>38, <1>39 DEF InOrder
<1> QED BY <1>2, <1>14, <1>31, <1>33, <1>34, <1>40 DEF LongSeq

-----------------------------------------------------------------------------
(* Itineraries: every micro-operation of an outcome takes one cycle.       *)

Timed(ops) ==
  \E n \in Nat : ops = [k \in 1 .. n |-> ops[k]] /\ \A k \in 1 .. n : ops[k].latency = 1

\* Three halves are rounded to one.
LEMMA RoundedToOne ==
  ASSUME NEW u \in Nat \ {0}
  PROVE  (2 * u + u) \div (2 * u) = 1
<1>1. PICK w, n \in Nat : w = 2 * u /\ n = 2 * u + u
  OBVIOUS
<1>2. w # 0 /\ w < n /\ n < w + w
  BY <1>1
<1>3. PICK q, r : q = n \div w /\ r = (n % w)
  OBVIOUS
<1>4. q \in Nat /\ r \in 0 .. w - 1 /\ n = w * q + r
  BY <1>2, <1>3
<1>5. q # 0
  <2>1. w * 0 = 0
    OBVIOUS
  <2> QED BY <1>2, <1>4, <2>1
<1>6. q < 2
  <2> SUFFICES ASSUME q >= 2 PROVE FALSE
    BY <1>4
  <2>1. PICK d \in Nat : d = q - 2
    BY <1>4
  <2>2. q = d + 2 /\ w * d \in Nat
    BY <1>4, <2>1
  <2>3. w * (d + 2) = w * d + (w + w)
    OBVIOUS
  <2> QED BY <1>2, <1>4, <2>2, <2>3
<1> QED BY <1>1, <1>3, <1>4, <1>5, <1>6

LEMMA ResultIsTimed ==
  ASSUME NEW solution, solution.used \in Seq(UsedUops)
  PROVE  Timed(GetMicroOps(FillInResults(solution)))
<1>1. PICK used \in Seq(UsedUops) : used = solution.used
  OBVIOUS
<1>2. PICK n \in Nat : n = Len(used) /\ DOMAIN used = 1 .. n
  OBVIOUS
<1>3. PICK outcome : outcome = FillInResults(solution)
  OBVIOUS
<1>4. outcome.signature = OrderMicroOperations(Histogram(used)).signature
  BY <1>1, <1>3 DEF FillInResults, Histogram
<1>5. DOMAIN outcome.signature = 1 .. n
  <2>1. /\ OrderMicroOperations(Histogram(used)).signature \in Seq(MaskIndices)
        /\ Len(OrderMicroOperations(Histogram(used)).signature) = Len(used)
    BY SignatureIsOrdered
  <2> QED BY <1>2, <1>4, <2>1
<1>6. outcome.portLoads = [i \in DOMAIN used |-> used[i].load]
  BY <1>1, <1>3 DEF FillInResults
<1>7. PICK ops : ops = GetMicroOps(outcome)
  OBVIOUS
<1>8. PICK f : f = [i \in 1 .. n |->
                      [portMask |-> PortMasks[outcome.signature[i]],
                       latency |-> (2 * SumOver(outcome.portLoads[i], DOMAIN outcome.portLoads[i])
                                    + Unit) \div (2 * Unit)]]
  OBVIOUS
<1>9. ops = f
  BY <1>5, <1>7, <1>8 DEF GetMicroOps
<1>10. ASSUME NEW i \in 1 .. n PROVE f[i].latency = 1
  <2>1. PICK uop \in UsedUops : uop = used[i]
    BY <1>2
  <2>2. PICK load : load = uop.load
    OBVIOUS
  <2>3. outcome.portLoads[i] = load
    BY <1>2, <1>6, <2>1, <2>2
  <2>4. load \in [PortMasks[uop.mask] -> 0 .. Unit] /\ SumOver(load, PortMasks[uop.mask]) = Unit
    BY <2>2 DEF UsedUops
  <2>5. SumOver(load, DOMAIN load) = Unit
    <3>1. DOMAIN load = PortMasks[uop.mask]
      BY <2>4
    <3> QED BY <2>4, <3>1
  <2>6. f[i].latency = (2 * Unit + Unit) \div (2 * Unit)
    BY <1>8, <2>3, <2>5
  <2>7. Unit \in Nat \ {0}
    BY DecompositionAssumption
  <2> QED BY <2>6, <2>7, RoundedToOne
<1>11. ops = [k \in 1 .. n |-> ops[k]]
  BY <1>8, <1>9
<1> QED BY <1>3, <1>7, <1>9, <1>10, <1>11 DEF Timed

\* What decomposes comes from a solution.
LEMMA OutcomesAreSolutions ==
  ASSUME NEW uops \in Seq(MaskIndices), NEW balanced,
         NEW outcome \in Decompose(uops, balanced), outcome.status # "error"
  PROVE  \E s : outcome.microOps = GetMicroOps(FillInResults(s)) /\ s.used \in Seq(UsedUops)
<1>1. PICK measurements : measurements = Observe(Load(uops, balanced))
  OBVIOUS
<1>2. \A port \in Ports : measurements[port] \in Nat
  BY <1>1, LoadType
<1>3. outcome \in Run(measurements, Len(uops))
  BY <1>1 DEF Decompose
<1>4. outcome # NoUops
  <2>1. NoUops.status = "error"
    BY DEF NoUops
  <2> QED BY <2>1
<1>5. PICK s \in Solutions(measurements, Len(uops)) :
        outcome.microOps = GetMicroOps(FillInResults(s))
  <2>1. PICK s \in Solutions(measurements, Len(uops)) :
          outcome = [status |-> "ok", histogram |-> FillInResults(s).histogram,
                    microOps |-> GetMicroOps(FillInResults(s)),
                    isOrderUnique |-> FillInResults(s).isOrderUnique]
    BY <1>3, <1>4 DEF Run
  <2> QED BY <2>1
<1>6. s.used \in Seq(UsedUops)
  BY <1>2, SolutionsAreProper DEF Proper
<1> QED BY <1>5, <1>6

\* What decomposes has micro-operations of one cycle.
LEMMA OutcomesAreTimed ==
  ASSUME NEW uops \in Seq(MaskIndices), NEW balanced,
         NEW outcome \in Decompose(uops, balanced), outcome.status # "error"
  PROVE  Timed(outcome.microOps)
BY OutcomesAreSolutions, ResultIsTimed

LEMMA TimedIsNew ==
  ASSUME NEW ops, Timed(ops)
  PROVE  ops # Earlier /\ \A k \in DOMAIN ops : ops[k].latency = 1
<1>1. PICK n \in Nat : ops = [k \in 1 .. n |-> ops[k]] /\ \A k \in 1 .. n : ops[k].latency = 1
  BY DEF Timed
<1>2. DOMAIN ops = 1 .. n
  BY <1>1
<1>3. 1 \in DOMAIN Earlier /\ Earlier[1].latency = 0
  BY DEF Earlier
<1> QED BY <1>1, <1>2, <1>3

\* A state of SubtractMicroOpsFrom in which only elements of A are kept.
Keeps(A, acc) == \E b : \E s \in Seq(A) : acc = [rhs |-> b, lhs |-> s]

LEMMA SubtractKeeps ==
  ASSUME NEW A, NEW acc, Keeps(A, acc), NEW op \in A
  PROVE  Keeps(A, Subtract(acc, op))
<1>1. PICK b : \E s \in Seq(A) : acc = [rhs |-> b, lhs |-> s]
  BY DEF Keeps
<1>2. PICK s \in Seq(A) : acc = [rhs |-> b, lhs |-> s]
  BY <1>1
<1>3. PICK c : c = b (-) SetToBag({op.portMask})
  OBVIOUS
<1>4. PICK t : t = Append(s, op)
  OBVIOUS
<1>5. t \in Seq(A)
  BY <1>4
<1>6. acc.rhs = b /\ acc.lhs = s
  BY <1>2
<1>7. CASE BagIn(op.portMask, acc.rhs)
  <2>1. Subtract(acc, op) = [acc EXCEPT !.rhs = c]
    BY <1>3, <1>6, <1>7 DEF Subtract
  <2>2. Subtract(acc, op) = [rhs |-> c, lhs |-> s]
    BY <1>2, <2>1
  <2> QED BY <2>2 DEF Keeps
<1>8. CASE ~ BagIn(op.portMask, acc.rhs)
  <2>1. Subtract(acc, op) = [acc EXCEPT !.lhs = t]
    BY <1>4, <1>6, <1>8 DEF Subtract
  <2>2. Subtract(acc, op) = [rhs |-> b, lhs |-> t]
    BY <1>2, <2>1
  <2> QED BY <1>5, <2>2 DEF Keeps
<1> QED BY <1>7, <1>8

\* SubtractMicroOpsFrom, one micro-operation after the other.
SubtractedBy(it, rhs, lhs, n) ==
  /\ it[0] = [rhs |-> rhs, lhs |-> << >>]
  /\ \A k \in 1 .. n : it[k] = Subtract(it[k - 1], lhs[k])
  /\ SubtractMicroOpsFrom(rhs, lhs).microOps = it[n].lhs

LEMMA SubtractSteps ==
  ASSUME NEW rhs, NEW lhs, NEW n \in Nat, DOMAIN lhs = 1 .. n
  PROVE  \E it : SubtractedBy(it, rhs, lhs, n)
<1>1. PICK base : base = [rhs |-> rhs, lhs |-> << >>]
  OBVIOUS
<1> DEFINE D == DOMAIN lhs
           Is(f) == f = [s \in SUBSET D |->
                           IF s = {} THEN base ELSE Subtract(f[s \ {Max(s)}], lhs[Max(s)])]
           h == CHOOSE f : Is(f)
<1>2. SubtractMicroOpsFrom(rhs, lhs).microOps = h[D].lhs
  BY <1>1 DEF SubtractMicroOpsFrom, FoldLeft, MapThenFoldSet, Subtract
<1>3. \A f : Is(f) <=> FoldedOver("subtract", base, lhs, n, f)
  BY DEF FoldedOver, Applied
<1> HIDE DEF Is
<1>4. FoldedOver("subtract", base, lhs, n, h)
  BY <1>3, FoldExists
<1> HIDE DEF h
<1>5. PICK it : Steps("subtract", base, lhs, n, it) /\ it[n] = h[1 .. n]
  BY <1>4, FoldSteps
<1>6. it[0] = base /\ \A k \in 1 .. n : it[k] = Subtract(it[k - 1], lhs[k])
  BY <1>5 DEF Steps, Applied
<1>7. SubtractedBy(it, rhs, lhs, n)
  BY <1>1, <1>2, <1>5, <1>6 DEF SubtractedBy
<1> QED BY <1>7

\* What is left when the update code was taken out still takes one cycle
\* each.
LEMMA SubtractTimed ==
  ASSUME NEW rhs, NEW lhs, Timed(lhs)
  PROVE  Timed(SubtractMicroOpsFrom(rhs, lhs).microOps)
<1>1. PICK n \in Nat : lhs = [k \in 1 .. n |-> lhs[k]] /\ \A k \in 1 .. n : lhs[k].latency = 1
  BY DEF Timed
<1>2. DOMAIN lhs = 1 .. n
  BY <1>1
<1>3. PICK it : /\ it[0] = [rhs |-> rhs, lhs |-> << >>]
                /\ \A k \in 1 .. n : it[k] = Subtract(it[k - 1], lhs[k])
                /\ SubtractMicroOpsFrom(rhs, lhs).microOps = it[n].lhs
  <2>1. PICK it : SubtractedBy(it, rhs, lhs, n)
    BY <1>2, SubtractSteps, Zenon
  <2> QED BY <2>1, Zenon DEF SubtractedBy
<1>4. PICK A : A = {op \in {lhs[k] : k \in 1 .. n} : op.latency = 1}
  OBVIOUS
<1>5. \A k \in 1 .. n : lhs[k] \in A
  BY <1>1, <1>4
<1> DEFINE S == {k \in Nat : k <= n => Keeps(A, it[k])}
<1>6. 0 \in S
  <2>1. << >> \in Seq(A)
    OBVIOUS
  <2>2. Keeps(A, [rhs |-> rhs, lhs |-> << >>])
    BY <2>1 DEF Keeps
  <2> QED BY <1>3, <2>2
<1>7. ASSUME NEW k \in Nat, k \in S PROVE k + 1 \in S
  <2> SUFFICES ASSUME k + 1 <= n PROVE Keeps(A, it[k + 1])
    OBVIOUS
  <2>1. PICK m \in 1 .. n : m = k + 1 /\ m - 1 = k
    OBVIOUS
  <2>2. Keeps(A, it[k])
    BY <1>7, <2>1
  <2>3. it[m] = Subtract(it[k], lhs[m])
    BY <1>3, <2>1
  <2> QED BY <1>5, <2>1, <2>2, <2>3, SubtractKeeps
<1>8. n \in S
  <2> HIDE DEF S
  <2> QED BY <1>6, <1>7, Reaches
<1>9. PICK ops \in Seq(A) : ops = it[n].lhs
  <2>1. Keeps(A, it[n])
    BY <1>8
  <2>2. PICK b : \E s \in Seq(A) : it[n] = [rhs |-> b, lhs |-> s]
    BY <2>1 DEF Keeps
  <2>3. PICK s \in Seq(A) : it[n] = [rhs |-> b, lhs |-> s]
    BY <2>2
  <2> QED BY <2>3
<1>10. Timed(ops)
  <2>1. PICK m \in Nat : m = Len(ops)
    OBVIOUS
  <2>2. ops = [k \in 1 .. m |-> ops[k]] /\ \A k \in 1 .. m : ops[k] \in A
    BY <2>1
  <2> QED BY <1>4, <2>2 DEF Timed
<1> QED BY <1>3, <1>9, <1>10

-----------------------------------------------------------------------------
(* Itineraries: what the loop has behind it.                               *)

ProgramSpec == ProgramInit /\ [][ProgramNext]_programVars

Complete(i) ==
  \/ IsSkipped(instruction_set[i])
  \/ itineraries[i].observed /\ Timed(itineraries[i].microOps)

\* As long as no instruction has failed, those before the current one are
\* complete.
CompleteSoFar ==
  global_status = "ok" => \A i \in DOMAIN instruction_set : i < current.index => Complete(i)

ItineraryTypes ==
  /\ instruction_set \in InstructionSets
  /\ itineraries = [i \in DOMAIN instruction_set |-> itineraries[i]]
  /\ \A i \in DOMAIN instruction_set :
       itineraries[i] = [observed |-> itineraries[i].observed, microOps |-> itineraries[i].microOps]
  /\ current = [index |-> current.index, stage |-> current.stage]
  /\ current.index \in Nat

ProgramInv ==
  /\ ItineraryTypes
  /\ current.stage \in {"check", "measure", "decompose"} =>
       current.index \in DOMAIN instruction_set /\ CompleteSoFar
  /\ current.stage = "decompose" => itineraries[current.index].observed
  /\ current.stage = "done" /\ global_status = "ok" =>
       \A i \in DOMAIN instruction_set : Complete(i)

LEMMA InstructionNumbers ==
  ASSUME ItineraryTypes
  PROVE  Len(instruction_set) \in Nat /\ DOMAIN instruction_set = 1 .. Len(instruction_set)
<1>1. PICK A : instruction_set \in Seq(A)
  BY ItinerariesAssumption DEF ItineraryTypes
<1> QED BY <1>1

\* The loop goes on to the next instruction, or ends.
LEMMA NextIteration ==
  ASSUME ItineraryTypes, NEW k \in Nat, current' = Iteration(k + 1), UNCHANGED instruction_set,
         itineraries' = [i \in DOMAIN instruction_set |-> itineraries'[i]],
         \A i \in DOMAIN instruction_set :
           itineraries'[i] = [observed |-> itineraries'[i].observed,
                              microOps |-> itineraries'[i].microOps],
         global_status' = "ok" => \A i \in DOMAIN instruction_set : i <= k => Complete(i)'
  PROVE  ProgramInv'
<1>1. PICK n \in Nat : n = Len(instruction_set) /\ DOMAIN instruction_set = 1 .. n
  BY InstructionNumbers
<1>2. CASE k + 1 <= n
  <2>1. PICK m \in Nat : m = k + 1
    OBVIOUS
  <2>2. current' = [index |-> m, stage |-> "check"]
    BY <1>1, <1>2, <2>1 DEF Iteration
  <2>3. current'.index = m /\ current'.stage = "check"
    BY <2>2
  <2>4. ItineraryTypes'
    BY <2>2, <2>3 DEF ItineraryTypes
  <2>5. m \in 1 .. n
    BY <1>2, <2>1
  <2>6. \A i \in 1 .. n : i < m => i <= k
    BY <2>1
  <2>7. CompleteSoFar'
    BY <1>1, <2>3, <2>6 DEF CompleteSoFar
  <2> QED BY <1>1, <2>3, <2>4, <2>5, <2>7 DEF ProgramInv
<1>3. CASE ~ (k + 1 <= n)
  <2>1. current' = [index |-> 0, stage |-> "done"]
    BY <1>1, <1>3 DEF Iteration
  <2>2. current'.index = 0 /\ current'.stage = "done"
    BY <2>1
  <2>3. ItineraryTypes'
    BY <2>1, <2>2 DEF ItineraryTypes
  <2>4. \A i \in 1 .. n : i <= k
    BY <1>3
  <2>5. global_status' = "ok" => \A i \in DOMAIN instruction_set : Complete(i)'
    BY <1>1, <2>4
  <2> QED BY <2>2, <2>3, <2>5 DEF ProgramInv
<1> QED BY <1>2, <1>3

\* The status of an instruction that is skipped or complete, or of one that
\* fails.
LEMMA LoopGoesOn ==
  ASSUME ProgramInv, current.stage \in {"check", "measure", "decompose"},
         UNCHANGED <<instruction_set, itineraries>>, NEW status, Return(status),
         status \in {"ok", "skipped"} => Complete(current.index)
  PROVE  ProgramInv'
<1>1. PICK k \in Nat : k = current.index
  BY DEF ProgramInv, ItineraryTypes
<1>2. current' = Iteration(k + 1)
  BY <1>1 DEF Return
<1>3. ItineraryTypes
  BY DEF ProgramInv
<1>4. ASSUME global_status' = "ok", NEW i \in DOMAIN instruction_set, i <= k
      PROVE  Complete(i)'
  <2>1. status \in {"ok", "skipped"} /\ global_status = "ok"
    BY <1>4 DEF Return
  <2>2. Complete(i)
    <3>1. i \in Nat
      BY <1>3, InstructionNumbers
    <3>2. i < k \/ i = k
      BY <1>4, <3>1
    <3> QED BY <1>1, <2>1, <3>2 DEF ProgramInv, CompleteSoFar
  <2> QED BY <2>2 DEF Complete
<1> QED BY <1>2, <1>3, <1>4, NextIteration DEF ItineraryTypes

\* What an instruction is measured with.
LEMMA UopsAreOfMasks ==
  ASSUME ItineraryTypes, current.index \in DOMAIN instruction_set
  PROVE  MeasuredUops(this) \in Seq(MaskIndices)
<1>1. PICK own : own = this.uops /\ own \in Seq(MaskIndices)
  BY ItinerariesAssumption DEF this, ItineraryTypes
<1>2. UpdateCodeUops \in Seq(MaskIndices) /\ << >> \in Seq(MaskIndices)
  BY ItinerariesAssumption
<1>3. PICK more \in Seq(MaskIndices) : more = IF TouchesMemory(this) THEN UpdateCodeUops ELSE << >>
  BY <1>2
<1>4. own \o more \in Seq(MaskIndices)
  BY <1>1, <1>3
<1> QED BY <1>1, <1>3, <1>4 DEF MeasuredUops

\* The micro-operations of the solution, without those of the update code.
LEMMA SolveKeeps ==
  ASSUME ProgramInv, Solve
  PROVE  ProgramInv'
<1>1. /\ ItineraryTypes /\ current.stage = "decompose" /\ UNCHANGED instruction_set
      /\ itineraries[current.index].observed
  BY DEF ProgramInv, Solve
<1>2. PICK k \in DOMAIN instruction_set : k = current.index /\ k \in Nat
  BY <1>1 DEF ProgramInv, ItineraryTypes
<1>3. PICK uops : uops = MeasuredUops(this)
  OBVIOUS
<1>4. uops \in Seq(MaskIndices)
  BY <1>1, <1>2, <1>3, UopsAreOfMasks
<1>5. PICK outcome \in Decompose(uops, this.balanced) :
        \/ /\ outcome.status = "error"
           /\ Return("unsolved")
           /\ UNCHANGED itineraries
        \/ /\ outcome.status # "error"
           /\ \E ops : /\ \/ ops = outcome.microOps
                          \/ ops = SubtractMicroOpsFrom(update_code_micro_ops, outcome.microOps).microOps
                       /\ itineraries' = [itineraries EXCEPT ![current.index].microOps = ops]
           /\ Return("ok") \/ Return("update code missing")
  BY <1>3 DEF Solve
<1>6. CASE Return("unsolved") /\ UNCHANGED itineraries
  BY <1>1, <1>6, LoopGoesOn
<1>7. CASE /\ outcome.status # "error"
           /\ \E ops : /\ \/ ops = outcome.microOps
                          \/ ops = SubtractMicroOpsFrom(update_code_micro_ops, outcome.microOps).microOps
                       /\ itineraries' = [itineraries EXCEPT ![current.index].microOps = ops]
           /\ Return("ok") \/ Return("update code missing")
  <2>1. PICK ops : /\ \/ ops = outcome.microOps
                      \/ ops = SubtractMicroOpsFrom(update_code_micro_ops, outcome.microOps).microOps
                   /\ itineraries' = [itineraries EXCEPT ![current.index].microOps = ops]
    BY <1>7
  <2>2. Timed(ops)
    <3>1. Timed(outcome.microOps)
      BY <1>4, <1>5, <1>7, OutcomesAreTimed
    <3> QED BY <2>1, <3>1, SubtractTimed
  <2>3. PICK record : record = [observed |-> itineraries[k].observed, microOps |-> ops]
    OBVIOUS
  <2>4. itineraries' = [i \in DOMAIN instruction_set |-> IF i = k THEN record ELSE itineraries[i]]
    <3>1. [itineraries[k] EXCEPT !.microOps = ops] = record
      BY <1>1, <2>3 DEF ItineraryTypes
    <3>2. itineraries' = [itineraries EXCEPT ![k] = record]
      BY <1>2, <2>1, <3>1
    <3> QED BY <1>1, <3>2 DEF ItineraryTypes
  <2>5. current' = Iteration(k + 1) /\ (global_status' = "ok" => global_status = "ok")
    BY <1>2, <1>7 DEF Return
  <2>6. ASSUME global_status' = "ok", NEW i \in DOMAIN instruction_set, i <= k
        PROVE  Complete(i)'
    <3>1. CASE i = k
      <4>1. itineraries'[i] = record
        BY <2>4, <3>1
      <4>2. itineraries'[i].observed /\ itineraries'[i].microOps = ops
        BY <1>1, <1>2, <2>3, <4>1
      <4> QED BY <2>2, <4>2 DEF Complete, Timed
    <3>2. CASE i # k
      <4>1. i < k
        BY <1>1, <1>2, <2>6, <3>2, InstructionNumbers
      <4>2. Complete(i)
        BY <1>1, <1>2, <2>5, <2>6, <4>1 DEF ProgramInv, CompleteSoFar
      <4>3. itineraries'[i] = itineraries[i]
        BY <2>4, <3>2
      <4> QED BY <1>1, <4>2, <4>3 DEF Complete
    <3> QED BY <3>1, <3>2
  <2>7. /\ itineraries' = [i \in DOMAIN instruction_set |-> itineraries'[i]]
        /\ \A i \in DOMAIN instruction_set :
             itineraries'[i] = [observed |-> itineraries'[i].observed,
                                microOps |-> itineraries'[i].microOps]
    BY <1>1, <2>3, <2>4 DEF ItineraryTypes
  <2> QED BY <1>1, <1>2, <2>5, <2>6, <2>7, NextIteration
<1> QED BY <1>5, <1>6, <1>7

LEMMA ProgramInitInv == ProgramInit => ProgramInv
<1> SUFFICES ASSUME ProgramInit PROVE ProgramInv
  OBVIOUS
<1>1. current = [index |-> 0, stage |-> "host"]
  BY DEF ProgramInit
<1>2. current.index = 0 /\ current.stage = "host"
  BY <1>1
<1>3. /\ instruction_set \in InstructionSets
      /\ itineraries = [i \in DOMAIN instruction_set |-> [observed |-> FALSE, microOps |-> Earlier]]
  BY DEF ProgramInit
<1>4. ItineraryTypes
  BY <1>1, <1>2, <1>3 DEF ItineraryTypes
<1> QED BY <1>2, <1>4 DEF ProgramInv

LEMMA ProgramNextInv == ProgramInv /\ [ProgramNext]_programVars => ProgramInv'
<1> SUFFICES ASSUME ProgramInv, [ProgramNext]_programVars PROVE ProgramInv'
  OBVIOUS
<1>1. ItineraryTypes
  BY DEF ProgramInv
<1>2. CASE CheckHost
  <2>1. UNCHANGED <<instruction_set, itineraries>>
    BY <1>2 DEF CheckHost
  <2>2. CASE current' = [index |-> 0, stage |-> "update code"]
    <3>1. current'.index = 0 /\ current'.stage = "update code"
      BY <2>2
    <3>2. ItineraryTypes'
      BY <1>1, <2>1, <2>2, <3>1 DEF ItineraryTypes
    <3> QED BY <3>1, <3>2 DEF ProgramInv
  <2>3. CASE current' = [index |-> 0, stage |-> "done"] /\ global_status' = "wrong host"
    <3>1. current'.index = 0 /\ current'.stage = "done"
      BY <2>3
    <3>2. ItineraryTypes'
      BY <1>1, <2>1, <2>3, <3>1 DEF ItineraryTypes
    <3> QED BY <2>3, <3>1, <3>2 DEF ProgramInv
  <2> QED BY <1>2, <2>2, <2>3 DEF CheckHost
<1>3. CASE ComputeUpdateCodeMicroOps
  <2>1. UNCHANGED <<instruction_set, itineraries>>
    BY <1>3 DEF ComputeUpdateCodeMicroOps
  <2>2. CASE current' = Iteration(1)
    <3>1. current' = Iteration(0 + 1)
      BY <2>2
    <3>2. \A i \in DOMAIN instruction_set : ~ (i <= 0)
      BY <1>1, InstructionNumbers
    <3> QED BY <1>1, <2>1, <3>1, <3>2, NextIteration DEF ItineraryTypes
  <2>3. CASE current' = [index |-> 0, stage |-> "done"] /\ global_status' = "update code"
    <3>1. current'.index = 0 /\ current'.stage = "done"
      BY <2>3
    <3>2. ItineraryTypes'
      BY <1>1, <2>1, <2>3, <3>1 DEF ItineraryTypes
    <3> QED BY <2>3, <3>1, <3>2 DEF ProgramInv
  <2> QED BY <1>3, <2>2, <2>3 DEF ComputeUpdateCodeMicroOps
<1>4. CASE SkipInstruction
  <2>1. Complete(current.index)
    BY <1>4 DEF SkipInstruction, Complete, this
  <2> QED BY <1>4, <2>1, LoopGoesOn DEF SkipInstruction
<1>5. CASE Assemble
  <2>1. current.stage = "check" /\ UNCHANGED <<instruction_set, itineraries>>
    BY <1>5 DEF Assemble
  <2>2. CASE current' = [current EXCEPT !.stage = "measure"] /\ UNCHANGED global_status
    <3>1. current' = [index |-> current.index, stage |-> "measure"]
      BY <1>1, <2>2 DEF ItineraryTypes
    <3>2. current'.index = current.index /\ current'.stage = "measure"
      BY <3>1
    <3>3. ItineraryTypes'
      BY <1>1, <2>1, <3>1, <3>2 DEF ItineraryTypes
    <3>4. CompleteSoFar'
      BY <2>1, <2>2, <3>2 DEF ProgramInv, CompleteSoFar, Complete
    <3> QED BY <2>1, <3>2, <3>3, <3>4 DEF ProgramInv
  <2>3. CASE Return("assembly error")
    BY <2>1, <2>3, LoopGoesOn
  <2> QED BY <1>5, <2>2, <2>3 DEF Assemble
<1>6. CASE Measure
  <2>1. current.stage = "measure" /\ UNCHANGED instruction_set
    BY <1>6 DEF Measure
  <2>2. CASE Return("evaluation error") /\ UNCHANGED itineraries
    BY <2>1, <2>2, LoopGoesOn
  <2>3. CASE /\ itineraries' = [itineraries EXCEPT ![current.index].observed = TRUE]
             /\ current' = [current EXCEPT !.stage = "decompose"]
             /\ UNCHANGED global_status
    <3>1. current' = [index |-> current.index, stage |-> "decompose"]
      BY <1>1, <2>3 DEF ItineraryTypes
    <3>2. current'.index = current.index /\ current'.stage = "decompose"
      BY <3>1
    <3>3. PICK k \in DOMAIN instruction_set : k = current.index
      BY <2>1 DEF ProgramInv
    <3>4. PICK record : record = [observed |-> TRUE, microOps |-> itineraries[k].microOps]
      OBVIOUS
    <3>5. itineraries' = [i \in DOMAIN instruction_set |-> IF i = k THEN record ELSE itineraries[i]]
      <4>1. [itineraries[k] EXCEPT !.observed = TRUE] = record
        <5>1. PICK o, m : itineraries[k] = [observed |-> o, microOps |-> m]
          BY <1>1 DEF ItineraryTypes
        <5>2. PICK t : t = TRUE
          OBVIOUS
        <5>3. [[observed |-> o, microOps |-> m] EXCEPT !.observed = t] = [observed |-> t, microOps |-> m]
          OBVIOUS
        <5>4. itineraries[k].microOps = m
          BY <5>1
        <5> QED BY <3>4, <5>1, <5>2, <5>3, <5>4
      <4>2. itineraries' = [itineraries EXCEPT ![k] = record]
        BY <2>3, <3>3, <4>1
      <4> QED BY <1>1, <4>2 DEF ItineraryTypes
    <3>6. ItineraryTypes'
      BY <1>1, <2>1, <3>1, <3>2, <3>4, <3>5 DEF ItineraryTypes
    <3>7. \A i \in DOMAIN instruction_set : i < k => itineraries'[i] = itineraries[i]
      <4>1. \A i \in DOMAIN instruction_set : i < k => i # k
        BY <1>1, InstructionNumbers
      <4> QED BY <3>5, <4>1
    <3>8. CompleteSoFar'
      BY <2>1, <2>3, <3>2, <3>3, <3>7 DEF ProgramInv, CompleteSoFar, Complete
    <3>9. itineraries'[k].observed
      BY <3>4, <3>5
    <3> QED BY <2>1, <3>2, <3>3, <3>6, <3>8, <3>9 DEF ProgramInv
  <2> QED BY <1>6, <2>2, <2>3 DEF Measure
<1>7. CASE DecodeStall
  BY <1>7, LoopGoesOn DEF DecodeStall
<1>8. CASE Solve
  BY <1>8, SolveKeeps
<1>9. CASE UNCHANGED programVars
  BY <1>9 DEF programVars, ProgramInv, ItineraryTypes, CompleteSoFar, Complete
<1> QED BY <1>2, <1>3, <1>4, <1>5, <1>6, <1>7, <1>8, <1>9 DEF ProgramNext

\* ComputeItineraries succeeds only when every instruction it should measure has
\* micro-operations of this run that take one cycle each, whatever the microarchitecture, the
\* instructions and the optima that the solver returns.
THEOREM SuccessMeansComplete == ProgramSpec => []SuccessIsComplete
<1>1. ProgramInv => SuccessIsComplete
  <2> SUFFICES ASSUME ProgramInv, current.stage = "done", global_status = "ok",
                      NEW i \in DOMAIN instruction_set, ~ IsSkipped(instruction_set[i])
               PROVE  /\ itineraries[i].observed /\ itineraries[i].microOps # Earlier
                      /\ \A k \in DOMAIN itineraries[i].microOps :
                           itineraries[i].microOps[k].latency = 1
    BY DEF SuccessIsComplete
  <2>1. itineraries[i].observed /\ Timed(itineraries[i].microOps)
    BY DEF ProgramInv, Complete
  <2> QED BY <2>1, TimedIsNew
<1> QED BY <1>1, ProgramInitInv, ProgramNextInv, PTL DEF ProgramSpec

-----------------------------------------------------------------------------
(* Itineraries: stores and their addresses.                                *)

\* No two masks of the microarchitecture have the same ports.
DistinctMasks == \A m, n \in MaskIndices : PortMasks[m] = PortMasks[n] => m = n

IsStore(op) == op.portMask = PortMasks[StoreDataMask]
IsAddress(op) == op.portMask \in {PortMasks[StoreAddressMask], PortMasks[LoadStoreMask]}

\* The k-th of the first n micro-operations.
Served(ops, k) == k > 1 /\ IsAddress(ops[k - 1])
Unserved(ops, k) == IsStore(ops[k]) /\ ~ Served(ops, k)

Followed(ops, n) ==
  \A k \in 1 .. n :
    IsStore(ops[k]) => Served(ops, k) /\ \A j \in k .. n : IsStore(ops[j]) \/ IsAddress(ops[j])

\* All addresses are taken, and there is a store for which there is none.
Lacking(ops, n) ==
  /\ \A k \in 1 .. n : IsAddress(ops[k]) => k + 1 \in 1 .. n /\ IsStore(ops[k + 1])
  /\ \E k \in 1 .. n : Unserved(ops, k)

Arranged(ops) ==
  \E n \in Nat : ops = [k \in 1 .. n |-> ops[k]] /\ (Followed(ops, n) \/ Lacking(ops, n))

LEMMA PairNumber ==
  ASSUME NEW h \in Nat, NEW m \in 1 .. 2 * h
  PROVE  \E j \in 1 .. h : m = 2 * j \/ m = 2 * j - 1
<1>1. PICK j \in Int : j = (m + 1) \div 2
  OBVIOUS
<1>2. m = 2 * j \/ m = 2 * j - 1
  BY <1>1
<1>3. j \in 1 .. h
  BY <1>2
<1> QED BY <1>2, <1>3

LEMMA SignatureIsArranged ==
  ASSUME DistinctMasks, NEW s \in Seq(MaskIndices), InOrder(s), NEW n \in Nat, n = Len(s),
         NEW ops, ops = [k \in 1 .. n |-> ops[k]],
         \A k \in 1 .. n : ops[k].portMask = PortMasks[s[k]]
  PROVE  Arranged(ops)
<1>1. AddressMasks \subseteq MaskIndices /\ StoreDataMask \in MaskIndices
      /\ StoreDataMask \notin AddressMasks
  BY DecompositionAssumption DEF AddressMasks, MaskIndices
<1>2. ASSUME NEW k \in 1 .. n
      PROVE  /\ IsStore(ops[k]) <=> s[k] = StoreDataMask
             /\ IsAddress(ops[k]) <=> s[k] \in AddressMasks
  <2>1. s[k] \in MaskIndices /\ ops[k].portMask = PortMasks[s[k]]
    OBVIOUS
  <2> QED BY <1>1, <2>1 DEF DistinctMasks, IsStore, IsAddress, AddressMasks
<1>3. PICK u \in Seq(OtherMasks), w \in Seq({StoreDataMask}), v \in Seq(MaskIndices) :
        Paired(v) /\ s = (u \o v) \o w /\ (w # << >> => u \in Seq(ComputationMasks))
  BY DEF InOrder
<1>4. PICK h \in Nat : /\ Len(v) = 2 * h
                       /\ \A j \in 1 .. h : v[2 * j - 1] \in AddressMasks /\ v[2 * j] = StoreDataMask
  BY <1>3 DEF Paired
<1>5. PICK a, c \in Nat : a = Len(u) /\ c = Len(w)
  <2>1. Len(u) \in Nat /\ Len(w) \in Nat
    OBVIOUS
  <2> QED BY <2>1
<1>6. /\ n = a + 2 * h + c
      /\ \A i \in 1 .. a : s[i] = u[i]
      /\ \A i \in 1 .. 2 * h : s[a + i] = v[i]
      /\ \A i \in 1 .. c : s[a + 2 * h + i] = w[i]
  <2>1. PICK x, y, z \in Seq(MaskIndices) : x = u /\ y = v /\ z = w
    <3>1. u \in Seq(MaskIndices)
      BY DEF OtherMasks
    <3>2. w \in Seq(MaskIndices)
      BY <1>1
    <3> QED BY <3>1, <3>2
  <2>2. PICK t \in Seq(MaskIndices) : t = x \o y
    BY ConcatProperties
  <2>3. Len(t) = a + 2 * h /\ (\A i \in 1 .. a : t[i] = x[i]) /\ (\A i \in 1 .. 2 * h : t[a + i] = y[i])
    <3>1. Len(t) = Len(x) + Len(y)
      BY <2>2, ConcatProperties
    <3>2. \A i \in 1 .. Len(x) : t[i] = x[i]
      BY <2>2
    <3>3. \A i \in 1 .. Len(y) : t[Len(x) + i] = y[i]
      BY <2>2, SMTT(40)
    <3> QED BY <1>4, <1>5, <2>1, <3>1, <3>2, <3>3
  <2>4. s = t \o z
    BY <1>3, <2>1, <2>2
  <2>5. n = a + 2 * h + c
    <3>1. Len(t \o z) = Len(t) + Len(z)
      BY ConcatProperties
    <3> QED BY <1>5, <2>1, <2>3, <2>4, <3>1
  <2>6. \A i \in 1 .. Len(t) : s[i] = t[i]
    BY <2>4
  <2>7. \A i \in 1 .. Len(z) : s[Len(t) + i] = z[i]
    BY <2>4, SMTT(40)
  <2>8. ASSUME NEW i \in 1 .. a PROVE s[i] = u[i]
    <3>1. i \in 1 .. Len(t)
      BY <2>3
    <3> QED BY <2>1, <2>3, <2>6, <3>1
  <2>9. ASSUME NEW i \in 1 .. 2 * h PROVE s[a + i] = v[i]
    <3>1. a + i \in 1 .. Len(t)
      BY <2>3, SMTT(40)
    <3> QED BY <2>1, <2>3, <2>6, <3>1
  <2> QED BY <1>5, <2>1, <2>3, <2>5, <2>7, <2>8, <2>9
<1>7. \A i \in 1 .. a : s[i] # StoreDataMask
  BY <1>5, <1>6 DEF OtherMasks
<1>8. \A j \in 1 .. h : s[a + (2 * j - 1)] \in AddressMasks /\ s[a + 2 * j] = StoreDataMask
  <2> SUFFICES ASSUME NEW j \in 1 .. h
               PROVE  s[a + (2 * j - 1)] \in AddressMasks /\ s[a + 2 * j] = StoreDataMask
    OBVIOUS
  <2>1. 2 * j - 1 \in 1 .. 2 * h /\ 2 * j \in 1 .. 2 * h
    OBVIOUS
  <2> QED BY <1>4, <1>6, <2>1
<1>9. \A i \in 1 .. c : s[a + 2 * h + i] = StoreDataMask
  BY <1>5, <1>6
<1>10. CASE c = 0
  <2>1. ASSUME NEW k \in 1 .. n, s[k] = StoreDataMask
        PROVE  k > 1 /\ s[k - 1] \in AddressMasks /\ k > a
    <3>1. k > a
      BY <1>7, <2>1
    <3>2. PICK m \in 1 .. 2 * h : k = a + m
      <4>1. k - a \in 1 .. 2 * h /\ k = a + (k - a)
        BY <1>6, <1>10, <3>1
      <4> QED BY <4>1
    <3>3. PICK j \in 1 .. h : m = 2 * j \/ m = 2 * j - 1
      BY PairNumber
    <3>4. m = 2 * j
      BY <1>1, <1>8, <2>1, <3>2, <3>3
    <3>5. k - 1 = a + (2 * j - 1) /\ k > 1
      BY <3>2, <3>4
    <3> QED BY <1>8, <3>1, <3>5
  <2>2. ASSUME NEW k \in 1 .. n, k > a
        PROVE  s[k] = StoreDataMask \/ s[k] \in AddressMasks
    <3>1. PICK m \in 1 .. 2 * h : k = a + m
      <4>1. k - a \in 1 .. 2 * h /\ k = a + (k - a)
        BY <1>6, <1>10, <2>2
      <4> QED BY <4>1
    <3>2. PICK j \in 1 .. h : m = 2 * j \/ m = 2 * j - 1
      BY PairNumber
    <3> QED BY <1>8, <3>1, <3>2
  <2>3. ASSUME NEW k \in 1 .. n, IsStore(ops[k])
        PROVE  /\ k > 1 /\ IsAddress(ops[k - 1])
               /\ \A j \in k .. n : IsStore(ops[j]) \/ IsAddress(ops[j])
    <3>1. k > 1 /\ s[k - 1] \in AddressMasks /\ k > a
      BY <1>2, <2>1, <2>3
    <3>2. k - 1 \in 1 .. n
      BY <3>1
    <3>3. \A j \in k .. n : j \in 1 .. n /\ j > a
      BY <3>1
    <3> QED BY <1>2, <2>2, <3>1, <3>2, <3>3
  <2>4. Followed(ops, n)
    BY <2>3 DEF Followed, Served
  <2> QED BY <2>4 DEF Arranged
<1>11. CASE c # 0
  <2>1. w # << >>
    BY <1>5, <1>11
  <2>2. \A i \in 1 .. a : s[i] \notin AddressMasks
    BY <1>3, <1>5, <1>6, <2>1 DEF ComputationMasks, AddressMasks
  <2>3. ASSUME NEW k \in 1 .. n, s[k] \in AddressMasks
        PROVE  k + 1 \in 1 .. n /\ s[k + 1] = StoreDataMask
    <3>1. k > a
      BY <2>2, <2>3
    <3>2. k <= a + 2 * h
      <4> SUFFICES ASSUME k > a + 2 * h PROVE FALSE
        OBVIOUS
      <4>1. PICK i \in 1 .. c : k = a + 2 * h + i
        <5>1. k - (a + 2 * h) \in 1 .. c /\ k = a + 2 * h + (k - (a + 2 * h))
          BY <1>6
        <5> QED BY <5>1
      <4> QED BY <1>1, <1>9, <2>3, <4>1
    <3>3. PICK m \in 1 .. 2 * h : k = a + m
      <4>1. k - a \in 1 .. 2 * h /\ k = a + (k - a)
        BY <3>1, <3>2
      <4> QED BY <4>1
    <3>4. PICK j \in 1 .. h : m = 2 * j \/ m = 2 * j - 1
      BY PairNumber
    <3>5. m = 2 * j - 1
      BY <1>1, <1>8, <2>3, <3>3, <3>4
    <3>6. k + 1 = a + 2 * j /\ k + 1 \in 1 .. n
      <4>1. k + 1 = a + 2 * j
        BY <3>3, <3>5, SMTT(40)
      <4>2. 2 * j <= 2 * h
        OBVIOUS
      <4>3. n = a + 2 * h + c
        BY <1>6
      <4> QED BY <4>1, <4>2, <4>3, SMTT(40)
    <3> QED BY <1>8, <3>6
  <2>4. ASSUME NEW k \in 1 .. n, IsAddress(ops[k])
        PROVE  k + 1 \in 1 .. n /\ IsStore(ops[k + 1])
    BY <1>2, <2>3, <2>4
  <2>5. PICK k \in 1 .. n : k = a + 2 * h + 1
    BY <1>6, <1>11
  <2>6. s[k] = StoreDataMask
    <3>1. 1 \in 1 .. c
      BY <1>11
    <3> QED BY <1>9, <2>5, <3>1
  <2>7. ASSUME k > 1 PROVE s[k - 1] \notin AddressMasks /\ k - 1 \in 1 .. n
    <3>1. k - 1 \in 1 .. n
      BY <2>7
    <3>2. CASE h = 0
      <4>1. k - 1 \in 1 .. a
        BY <2>5, <2>7, <3>2
      <4> QED BY <2>2, <3>1, <4>1
    <3>3. CASE h # 0
      <4>1. h \in 1 .. h /\ k - 1 = a + 2 * h
        BY <2>5, <3>3
      <4> QED BY <1>1, <1>8, <3>1, <4>1
    <3> QED BY <3>2, <3>3
  <2>8. Unserved(ops, k)
    BY <1>2, <2>6, <2>7 DEF Unserved, Served
  <2>9. Lacking(ops, n)
    BY <2>4, <2>8 DEF Lacking
  <2> QED BY <2>9 DEF Arranged
<1> QED BY <1>10, <1>11

\* Stores and address generations are never taken out: out is what is kept of
\* the first k of lhs, and has them where lhs has them.
Scan(lhs, n, k, out) ==
  /\ \A i \in 1 .. Len(out) : IsStore(out[i]) => \E j \in 1 .. k : IsStore(lhs[j])
  /\ k > 0 /\ (IsStore(lhs[k]) \/ IsAddress(lhs[k])) => Len(out) > 0 /\ out[Len(out)] = lhs[k]
  /\ Followed(lhs, n) => Followed(out, Len(out))
  /\ Lacking(lhs, n) =>
       /\ Len(out) > 0 /\ IsAddress(out[Len(out)]) => k > 0 /\ IsAddress(lhs[k])
       /\ \A i \in 1 .. Len(out) : IsAddress(out[i]) => i = Len(out) \/ IsStore(out[i + 1])
       /\ \A b \in 1 .. k : Unserved(lhs, b) => \E i \in 1 .. Len(out) : Unserved(out, i)

LEMMA ScanSkips ==
  ASSUME NEW lhs, NEW n \in Nat, NEW k \in Nat, NEW m \in 1 .. n, m = k + 1,
         NEW A, NEW out \in Seq(A), Scan(lhs, n, k, out), ~ IsStore(lhs[m]), ~ IsAddress(lhs[m])
  PROVE  Scan(lhs, n, m, out)
<1>1. ASSUME NEW i \in 1 .. Len(out), IsStore(out[i]) PROVE \E j \in 1 .. m : IsStore(lhs[j])
  <2>1. PICK j \in 1 .. k : IsStore(lhs[j])
    BY <1>1 DEF Scan
  <2> QED BY <2>1
<1>2. ASSUME Lacking(lhs, n) PROVE ~ (Len(out) > 0 /\ IsAddress(out[Len(out)]))
  <2> SUFFICES ASSUME Len(out) > 0, IsAddress(out[Len(out)]) PROVE FALSE
    OBVIOUS
  <2>1. k > 0 /\ IsAddress(lhs[k])
    BY <1>2 DEF Scan
  <2>2. k \in 1 .. n
    BY <2>1
  <2> QED BY <1>2, <2>1, <2>2 DEF Lacking
<1>3. ASSUME NEW b \in 1 .. m, Unserved(lhs, b), Lacking(lhs, n)
      PROVE  \E i \in 1 .. Len(out) : Unserved(out, i)
  <2>1. b # m
    BY <1>3 DEF Unserved
  <2>2. b \in 1 .. k
    BY <2>1
  <2> QED BY <1>3, <2>2 DEF Scan
<1>4. Followed(lhs, n) => Followed(out, Len(out))
  BY DEF Scan
<1>5. Lacking(lhs, n) =>
        \A i \in 1 .. Len(out) : IsAddress(out[i]) => i = Len(out) \/ IsStore(out[i + 1])
  BY DEF Scan
<1> QED BY <1>1, <1>2, <1>3, <1>4, <1>5 DEF Scan

LEMMA ScanKeeps ==
  ASSUME NEW lhs, NEW n \in Nat, NEW k \in Nat, NEW m \in 1 .. n, m = k + 1,
         NEW A, NEW out \in Seq(A), Scan(lhs, n, k, out), lhs[m] \in A,
         NEW more, more = Append(out, lhs[m])
  PROVE  Scan(lhs, n, m, more)
<1>1. PICK l \in Nat : l = Len(out)
  OBVIOUS
<1>2. PICK e \in Nat : e = l + 1
  OBVIOUS
<1>3. Len(more) = e /\ more[e] = lhs[m] /\ \A i \in 1 .. l : more[i] = out[i]
  <2>1. Len(more) = Len(out) + 1 /\ more[Len(out) + 1] = lhs[m]
    BY AppendProperties
  <2>2. \A i \in 1 .. Len(out) : more[i] = out[i]
    BY AppendProperties
  <2> QED BY <1>1, <1>2, <2>1, <2>2
<1>4. \A i \in 1 .. e : i = e \/ i \in 1 .. l
  BY <1>2
<1>5. k > 0 => k \in 1 .. n /\ m - 1 = k
  OBVIOUS
<1>6. ASSUME NEW i \in 1 .. e, IsStore(more[i]) PROVE \E j \in 1 .. m : IsStore(lhs[j])
  <2>1. CASE i = e
    <3>1. m \in 1 .. m
      OBVIOUS
    <3> QED BY <1>3, <1>6, <2>1, <3>1
  <2>2. CASE i \in 1 .. l
    <3>1. PICK j \in 1 .. k : IsStore(lhs[j])
      BY <1>1, <1>3, <1>6, <2>2 DEF Scan
    <3> QED BY <3>1
  <2> QED BY <1>4, <2>1, <2>2
<1>7. ASSUME Followed(lhs, n) PROVE Followed(more, e)
  <2>1. Followed(out, l)
    BY <1>1, <1>7 DEF Scan
  <2>2. ASSUME NEW i \in 1 .. e, IsStore(more[i])
        PROVE  Served(more, i) /\ \A j \in i .. e : IsStore(more[j]) \/ IsAddress(more[j])
    <3>1. CASE i = e
      <4>1. IsStore(lhs[m])
        BY <1>3, <2>2, <3>1
      <4>2. m > 1 /\ IsAddress(lhs[m - 1])
        BY <1>7, <4>1 DEF Followed, Served
      <4>3. k > 0 /\ IsAddress(lhs[k])
        BY <1>5, <4>2
      <4>4. l > 0 /\ out[l] = lhs[k]
        BY <1>1, <4>3 DEF Scan
      <4>5. e > 1 /\ e - 1 = l /\ l \in 1 .. l
        BY <1>2, <4>4
      <4>6. Served(more, i)
        BY <1>3, <3>1, <4>3, <4>4, <4>5 DEF Served
      <4>7. \A j \in i .. e : j = e
        BY <3>1
      <4> QED BY <2>2, <3>1, <4>6, <4>7
    <3>2. CASE i \in 1 .. l
      <4>1. IsStore(out[i])
        BY <1>3, <2>2, <3>2
      <4>2. Served(out, i) /\ \A j \in i .. l : IsStore(out[j]) \/ IsAddress(out[j])
        BY <2>1, <3>2, <4>1 DEF Followed
      <4>3. Served(more, i)
        <5>1. i > 1 /\ IsAddress(out[i - 1])
          BY <4>2 DEF Served
        <5>2. i - 1 \in 1 .. l
          BY <3>2, <5>1
        <5> QED BY <1>3, <5>1, <5>2 DEF Served
      <4>4. IsStore(lhs[m]) \/ IsAddress(lhs[m])
        <5>1. PICK j \in 1 .. k : IsStore(lhs[j])
          BY <1>1, <3>2, <4>1 DEF Scan
        <5>2. j \in 1 .. n /\ m \in j .. n
          OBVIOUS
        <5> QED BY <1>7, <5>1, <5>2 DEF Followed
      <4>5. ASSUME NEW j \in i .. e PROVE IsStore(more[j]) \/ IsAddress(more[j])
        <5>1. j = e \/ (j \in i .. l /\ j \in 1 .. l)
          BY <1>2, <3>2
        <5> QED BY <1>3, <4>2, <4>4, <5>1
      <4> QED BY <4>3, <4>5
    <3> QED BY <1>4, <3>1, <3>2
  <2> QED BY <2>2 DEF Followed
<1>8. ASSUME Lacking(lhs, n), NEW i \in 1 .. e, IsAddress(more[i])
      PROVE  i = e \/ IsStore(more[i + 1])
  <2> SUFFICES ASSUME i \in 1 .. l PROVE IsStore(more[i + 1])
    BY <1>4
  <2>1. IsAddress(out[i])
    BY <1>3, <1>8
  <2>2. i = l \/ IsStore(out[i + 1])
    BY <1>1, <1>8, <2>1 DEF Scan
  <2>3. CASE i = l
    <3>1. k > 0 /\ IsAddress(lhs[k])
      BY <1>1, <1>8, <2>1, <2>3 DEF Scan
    <3>2. IsStore(lhs[m])
      BY <1>5, <1>8, <3>1 DEF Lacking
    <3> QED BY <1>2, <1>3, <2>3, <3>2
  <2>4. CASE i # l
    <3>1. i + 1 \in 1 .. l
      BY <2>4
    <3> QED BY <1>3, <2>2, <2>4, <3>1
  <2> QED BY <2>3, <2>4
<1>9. ASSUME Lacking(lhs, n), NEW b \in 1 .. m, Unserved(lhs, b)
      PROVE  \E i \in 1 .. e : Unserved(more, i)
  <2>1. CASE b = m
    <3>1. IsStore(lhs[m]) /\ ~ (m > 1 /\ IsAddress(lhs[m - 1]))
      BY <1>9, <2>1 DEF Unserved, Served
    <3>2. ~ (e > 1 /\ IsAddress(more[e - 1]))
      <4> SUFFICES ASSUME e > 1, IsAddress(more[e - 1]) PROVE FALSE
        OBVIOUS
      <4>1. e - 1 = l /\ l \in 1 .. l /\ l > 0
        BY <1>2
      <4>2. IsAddress(out[l])
        BY <1>3, <4>1
      <4>3. k > 0 /\ IsAddress(lhs[k])
        BY <1>1, <1>9, <4>1, <4>2 DEF Scan
      <4> QED BY <1>5, <3>1, <4>3
    <3>3. e \in 1 .. e
      BY <1>2
    <3> QED BY <1>3, <3>1, <3>2, <3>3 DEF Unserved, Served
  <2>2. CASE b # m
    <3>1. b \in 1 .. k
      BY <2>2
    <3>2. PICK i \in 1 .. l : Unserved(out, i)
      BY <1>1, <1>9, <3>1 DEF Scan
    <3>3. i \in 1 .. e /\ (i > 1 => i - 1 \in 1 .. l)
      BY <1>2
    <3>4. Unserved(more, i)
      BY <1>3, <3>2, <3>3 DEF Unserved, Served
    <3> QED BY <3>3, <3>4
  <2> QED BY <2>1, <2>2
<1>10. e > 0 /\ (IsAddress(more[e]) => IsAddress(lhs[m])) /\ m > 0
  BY <1>2, <1>3
<1> QED BY <1>3, <1>6, <1>7, <1>8, <1>9, <1>10 DEF Scan

\* The update code has neither stores nor address generations.
Elsewhere(bag) ==
  \A mask \in {StoreDataMask, StoreAddressMask, LoadStoreMask} : ~ BagIn(PortMasks[mask], bag)

Scanned(A, lhs, n, k, acc) ==
  \E b : \E out \in Seq(A) :
    acc = [rhs |-> b, lhs |-> out] /\ Elsewhere(b) /\ Scan(lhs, n, k, out)

LEMMA SubtractScans ==
  ASSUME NEW A, NEW lhs, NEW n \in Nat, NEW k \in Nat, NEW m \in 1 .. n, m = k + 1,
         lhs[m] \in A, NEW acc, Scanned(A, lhs, n, k, acc)
  PROVE  Scanned(A, lhs, n, m, Subtract(acc, lhs[m]))
<1>1. PICK b : \E out \in Seq(A) :
        acc = [rhs |-> b, lhs |-> out] /\ Elsewhere(b) /\ Scan(lhs, n, k, out)
  BY DEF Scanned
<1>2. PICK out \in Seq(A) :
        acc = [rhs |-> b, lhs |-> out] /\ Elsewhere(b) /\ Scan(lhs, n, k, out)
  BY <1>1
<1>3. PICK c : c = b (-) SetToBag({lhs[m].portMask})
  OBVIOUS
<1>4. PICK t : t = Append(out, lhs[m])
  OBVIOUS
<1>5. acc.rhs = b /\ acc.lhs = out
  BY <1>2
<1>6. CASE BagIn(lhs[m].portMask, acc.rhs)
  <2>1. Subtract(acc, lhs[m]) = [acc EXCEPT !.rhs = c]
    BY <1>3, <1>5, <1>6 DEF Subtract
  <2>2. Subtract(acc, lhs[m]) = [rhs |-> c, lhs |-> out]
    BY <1>2, <2>1
  <2>3. \A mask : BagIn(mask, c) => BagIn(mask, b)
    BY <1>3 DEF BagIn, BagToSet, (-)
  <2>4. Elsewhere(c)
    BY <1>2, <2>3 DEF Elsewhere
  <2>5. ~ IsStore(lhs[m]) /\ ~ IsAddress(lhs[m])
    BY <1>2, <1>5, <1>6 DEF Elsewhere, IsStore, IsAddress
  <2>6. Scan(lhs, n, m, out)
    BY <1>2, <2>5, ScanSkips
  <2> QED BY <2>2, <2>4, <2>6 DEF Scanned
<1>7. CASE ~ BagIn(lhs[m].portMask, acc.rhs)
  <2>1. Subtract(acc, lhs[m]) = [acc EXCEPT !.lhs = t]
    BY <1>4, <1>5, <1>7 DEF Subtract
  <2>2. Subtract(acc, lhs[m]) = [rhs |-> b, lhs |-> t]
    BY <1>2, <2>1
  <2>3. t \in Seq(A)
    BY <1>4
  <2>4. Scan(lhs, n, m, t)
    BY <1>2, <1>4, ScanKeeps
  <2> QED BY <1>2, <2>2, <2>3, <2>4 DEF Scanned
<1> QED BY <1>6, <1>7

LEMMA SubtractArranges ==
  ASSUME NEW rhs, NEW lhs, Arranged(lhs), Elsewhere(rhs)
  PROVE  Arranged(SubtractMicroOpsFrom(rhs, lhs).microOps)
<1>1. PICK n \in Nat : lhs = [k \in 1 .. n |-> lhs[k]] /\ (Followed(lhs, n) \/ Lacking(lhs, n))
  BY DEF Arranged
<1>2. DOMAIN lhs = 1 .. n
  BY <1>1
<1>3. PICK it : /\ it[0] = [rhs |-> rhs, lhs |-> << >>]
                /\ \A k \in 1 .. n : it[k] = Subtract(it[k - 1], lhs[k])
                /\ SubtractMicroOpsFrom(rhs, lhs).microOps = it[n].lhs
  <2>1. PICK it : SubtractedBy(it, rhs, lhs, n)
    BY <1>2, SubtractSteps, Zenon
  <2> QED BY <2>1, Zenon DEF SubtractedBy
<1>4. PICK A : A = {lhs[k] : k \in 1 .. n}
  OBVIOUS
<1> DEFINE S == {k \in Nat : k <= n => Scanned(A, lhs, n, k, it[k])}
<1>5. 0 \in S
  <2>1. << >> \in Seq(A) /\ Len(<< >>) = 0
    OBVIOUS
  <2>2. PICK none \in Seq(A) : none = << >> /\ Len(none) = 0
    BY <2>1
  <2>3. (\A i \in 1 .. 0 : FALSE) /\ ~ (0 > 0)
    OBVIOUS
  <2>4. Followed(none, 0)
    BY <2>3 DEF Followed
  <2>5. Scan(lhs, n, 0, none)
    BY <2>2, <2>3, <2>4 DEF Scan
  <2>6. Scanned(A, lhs, n, 0, [rhs |-> rhs, lhs |-> none])
    BY <2>5 DEF Scanned
  <2> QED BY <1>3, <2>2, <2>6
<1>6. ASSUME NEW k \in Nat, k \in S PROVE k + 1 \in S
  <2> SUFFICES ASSUME k + 1 <= n PROVE Scanned(A, lhs, n, k + 1, it[k + 1])
    OBVIOUS
  <2>1. PICK m \in 1 .. n : m = k + 1 /\ m - 1 = k
    OBVIOUS
  <2>2. Scanned(A, lhs, n, k, it[k])
    BY <1>6, <2>1
  <2>3. it[m] = Subtract(it[k], lhs[m]) /\ lhs[m] \in A
    BY <1>3, <1>4, <2>1
  <2>4. Scanned(A, lhs, n, m, Subtract(it[k], lhs[m]))
    BY <2>1, <2>2, <2>3, SubtractScans
  <2> QED BY <2>1, <2>3, <2>4
<1>7. n \in S
  <2> HIDE DEF S
  <2> QED BY <1>5, <1>6, Reaches
<1>8. PICK ops \in Seq(A) : ops = it[n].lhs /\ Scan(lhs, n, n, ops)
  <2>1. Scanned(A, lhs, n, n, it[n])
    BY <1>7
  <2>2. PICK b : \E out \in Seq(A) :
          it[n] = [rhs |-> b, lhs |-> out] /\ Elsewhere(b) /\ Scan(lhs, n, n, out)
    BY <2>1 DEF Scanned
  <2>3. PICK out \in Seq(A) : it[n] = [rhs |-> b, lhs |-> out] /\ Scan(lhs, n, n, out)
    BY <2>2
  <2> QED BY <2>3
<1>9. PICK l \in Nat : l = Len(ops) /\ ops = [k \in 1 .. l |-> ops[k]]
  <2>1. Len(ops) \in Nat /\ ops = [k \in 1 .. Len(ops) |-> ops[k]]
    OBVIOUS
  <2> QED BY <2>1
<1>10. Followed(lhs, n) => Followed(ops, l)
  BY <1>8, <1>9 DEF Scan
<1>11. ASSUME Lacking(lhs, n) PROVE Lacking(ops, l)
  <2>1. ~ (l > 0 /\ IsAddress(ops[l]))
    <3> SUFFICES ASSUME l > 0, IsAddress(ops[l]) PROVE FALSE
      OBVIOUS
    <3>1. n > 0 /\ IsAddress(lhs[n])
      BY <1>8, <1>9, <1>11 DEF Scan
    <3>2. n \in 1 .. n /\ n + 1 \notin 1 .. n
      BY <3>1
    <3> QED BY <1>11, <3>1, <3>2 DEF Lacking
  <2>2. ASSUME NEW i \in 1 .. l, IsAddress(ops[i])
        PROVE  i + 1 \in 1 .. l /\ IsStore(ops[i + 1])
    <3>1. i = l \/ IsStore(ops[i + 1])
      BY <1>8, <1>9, <1>11, <2>2 DEF Scan
    <3>2. i # l
      BY <2>1, <2>2
    <3> QED BY <3>1, <3>2
  <2>3. \E i \in 1 .. l : Unserved(ops, i)
    <3>1. PICK b \in 1 .. n : Unserved(lhs, b)
      BY <1>11 DEF Lacking
    <3> QED BY <1>8, <1>9, <1>11, <3>1 DEF Scan
  <2> QED BY <2>2, <2>3 DEF Lacking
<1> QED BY <1>1, <1>3, <1>8, <1>9, <1>10, <1>11 DEF Arranged

\* What decomposes is arranged.
LEMMA OutcomesAreArranged ==
  ASSUME DistinctMasks, NEW uops \in Seq(MaskIndices), NEW balanced,
         NEW outcome \in Decompose(uops, balanced), outcome.status # "error"
  PROVE  Arranged(outcome.microOps)
<1>1. PICK s : outcome.microOps = GetMicroOps(FillInResults(s)) /\ s.used \in Seq(UsedUops)
  BY OutcomesAreSolutions
<1>2. PICK used \in Seq(UsedUops) : used = s.used
  BY <1>1
<1>3. PICK signature \in Seq(MaskIndices) :
        signature = OrderMicroOperations(Histogram(used)).signature /\ InOrder(signature)
  BY SignatureIsOrdered
<1>4. PICK n \in Nat : n = Len(signature) /\ DOMAIN signature = 1 .. n
  OBVIOUS
<1>5. PICK ops : ops = GetMicroOps(FillInResults(s))
  OBVIOUS
<1>6. FillInResults(s).signature = signature
  BY <1>2, <1>3 DEF FillInResults, Histogram
<1>7. ops = [k \in 1 .. n |-> ops[k]] /\ \A k \in 1 .. n : ops[k].portMask = PortMasks[signature[k]]
  <2>1. PICK loads : loads = FillInResults(s).portLoads
    OBVIOUS
  <2>2. PICK f : f = [i \in 1 .. n |->
                        [portMask |-> PortMasks[signature[i]],
                         latency |-> (2 * SumOver(loads[i], DOMAIN loads[i]) + Unit) \div (2 * Unit)]]
    OBVIOUS
  <2>3. ops = f
    BY <1>4, <1>5, <1>6, <2>1, <2>2 DEF GetMicroOps
  <2>4. \A k \in 1 .. n : f[k].portMask = PortMasks[signature[k]]
    BY <2>2
  <2> QED BY <2>2, <2>3, <2>4
<1>8. Arranged(ops)
  BY <1>3, <1>4, <1>7, SignatureIsArranged
<1> QED BY <1>1, <1>5, <1>8

StoresOf(ops) == {k \in DOMAIN ops : IsStore(ops[k])}
AddressesOf(ops) == {k \in DOMAIN ops : IsAddress(ops[k])}

\* Nothing lacks when there are as many addresses as stores: each address would
\* have a store of its own, and one store is left.
LEMMA NothingLacks ==
  ASSUME NEW ops, Arranged(ops), Cardinality(StoresOf(ops)) <= Cardinality(AddressesOf(ops))
  PROVE  \E n \in Nat : ops = [k \in 1 .. n |-> ops[k]] /\ Followed(ops, n)
<1>1. PICK n \in Nat : ops = [k \in 1 .. n |-> ops[k]] /\ (Followed(ops, n) \/ Lacking(ops, n))
  BY DEF Arranged
<1>2. DOMAIN ops = 1 .. n
  BY <1>1
<1> SUFFICES ASSUME Lacking(ops, n) PROVE FALSE
  BY <1>1
<1>3. PICK b \in 1 .. n : Unserved(ops, b)
  BY DEF Lacking
<1>4. PICK S, T, R : S = StoresOf(ops) /\ T = AddressesOf(ops) /\ R = S \ {b}
  OBVIOUS
<1>5. S \subseteq 1 .. n /\ T \subseteq 1 .. n /\ b \in S
  BY <1>2, <1>3, <1>4 DEF StoresOf, AddressesOf, Unserved
<1>6. IsFiniteSet(S) /\ IsFiniteSet(T) /\ IsFiniteSet(R)
  <2>1. PICK D : D = 1 .. n /\ IsFiniteSet(D)
    BY FS_Interval
  <2>2. S \in SUBSET D /\ T \in SUBSET D /\ R \in SUBSET D
    BY <1>4, <1>5, <2>1
  <2> QED BY <2>1, <2>2, FS_Subset
<1>7. PICK s, t, r \in Nat : s = Cardinality(S) /\ t = Cardinality(T) /\ r = Cardinality(R)
  BY <1>6, FS_CardinalityType
<1>8. r = s - 1
  BY <1>4, <1>5, <1>6, <1>7, FS_RemoveElement
<1>9. PICK f : f = [k \in T |-> k + 1]
  OBVIOUS
<1>10. ASSUME NEW k \in T PROVE f[k] \in R
  <2>1. k \in 1 .. n /\ IsAddress(ops[k])
    BY <1>2, <1>4 DEF AddressesOf
  <2>2. k + 1 \in 1 .. n /\ IsStore(ops[k + 1])
    BY <2>1 DEF Lacking
  <2>3. b # k + 1
    <3> SUFFICES ASSUME b = k + 1 PROVE FALSE
      OBVIOUS
    <3>1. b > 1 /\ b - 1 = k
      BY <2>1
    <3> QED BY <1>3, <2>1, <3>1 DEF Unserved, Served
  <2> QED BY <1>2, <1>4, <1>9, <2>2, <2>3 DEF StoresOf
<1>11. f \in Injection(T, R)
  <2>1. f \in [T -> R]
    BY <1>9, <1>10
  <2>2. \A j, k \in T : f[j] = f[k] => j = k
    BY <1>5, <1>9
  <2> QED BY <2>1, <2>2 DEF Injection, IsInjective
<1>12. t <= r
  BY <1>6, <1>7, <1>11, FS_Injection
<1> QED BY <1>4, <1>7, <1>8, <1>12

\* What was computed so far is arranged, unless the update code has stores or
\* address generations of its own.
StoreInv ==
  /\ outcomes = [i \in DOMAIN instruction_set |-> outcomes[i]]
  /\ current.stage \in {"host", "update code"} => \A i \in DOMAIN instruction_set : ~ Computed(i)
  /\ Elsewhere(update_code_micro_ops) =>
       \A i \in DOMAIN instruction_set : Computed(i) => Arranged(itineraries[i].microOps)

LEMMA IterationStages ==
  ASSUME NEW k, current' = Iteration(k) PROVE current'.stage \notin {"host", "update code"}
BY DEF Iteration

\* A status other than "ok" computes nothing.
LEMMA FailureArranges ==
  ASSUME StoreInv, UNCHANGED <<instruction_set, itineraries, update_code_micro_ops>>,
         NEW status, status # "ok", Return(status)
  PROVE  StoreInv'
<1>1. outcomes' = [outcomes EXCEPT ![current.index] = status]
  BY DEF Return
<1>2. outcomes' = [i \in DOMAIN instruction_set |-> outcomes'[i]]
  BY <1>1 DEF StoreInv
<1>3. \A i \in DOMAIN instruction_set : Computed(i)' => Computed(i)
  BY <1>1 DEF StoreInv, Computed
<1>4. current'.stage \notin {"host", "update code"}
  BY IterationStages DEF Return
<1> QED BY <1>2, <1>3, <1>4 DEF StoreInv

LEMMA SolveArranges ==
  ASSUME DistinctMasks, ProgramInv, StoreInv, Solve
  PROVE  StoreInv'
<1>1. /\ ItineraryTypes /\ current.stage = "decompose"
      /\ UNCHANGED <<instruction_set, update_code_micro_ops>>
  BY DEF ProgramInv, Solve
<1>2. PICK k \in DOMAIN instruction_set : k = current.index
  BY <1>1 DEF ProgramInv
<1>3. PICK uops \in Seq(MaskIndices) : uops = MeasuredUops(this)
  BY <1>1, <1>2, UopsAreOfMasks
<1>4. PICK outcome \in Decompose(uops, this.balanced) :
        \/ Return("unsolved") /\ UNCHANGED itineraries
        \/ /\ outcome.status # "error"
           /\ \E ops : /\ \/ ops = outcome.microOps
                          \/ ops = SubtractMicroOpsFrom(update_code_micro_ops, outcome.microOps).microOps
                       /\ itineraries' = [itineraries EXCEPT ![current.index].microOps = ops]
           /\ \E status : Return(status)
  BY <1>3 DEF Solve
<1>5. CASE Return("unsolved") /\ UNCHANGED itineraries
  BY <1>1, <1>5, FailureArranges
<1>6. CASE /\ outcome.status # "error"
           /\ \E ops : /\ \/ ops = outcome.microOps
                          \/ ops = SubtractMicroOpsFrom(update_code_micro_ops, outcome.microOps).microOps
                       /\ itineraries' = [itineraries EXCEPT ![current.index].microOps = ops]
           /\ \E status : Return(status)
  <2>1. PICK ops : /\ \/ ops = outcome.microOps
                      \/ ops = SubtractMicroOpsFrom(update_code_micro_ops, outcome.microOps).microOps
                   /\ itineraries' = [itineraries EXCEPT ![current.index].microOps = ops]
    BY <1>6
  <2>2. PICK status : Return(status)
    BY <1>6
  <2>3. Elsewhere(update_code_micro_ops) => Arranged(ops)
    <3>1. Arranged(outcome.microOps)
      BY <1>6, OutcomesAreArranged
    <3> QED BY <2>1, <3>1, SubtractArranges
  <2>4. /\ itineraries'[k].microOps = ops
        /\ \A i \in DOMAIN instruction_set \ {k} : itineraries'[i] = itineraries[i]
    <3>1. PICK record : record = [itineraries[k] EXCEPT !.microOps = ops]
      OBVIOUS
    <3>2. record.microOps = ops
      <4>1. itineraries[k] = [observed |-> itineraries[k].observed, microOps |-> itineraries[k].microOps]
        BY <1>1 DEF ItineraryTypes
      <4> QED BY <3>1, <4>1
    <3>3. itineraries' = [itineraries EXCEPT ![k] = record]
      BY <1>2, <2>1, <3>1
    <3>4. DOMAIN itineraries = DOMAIN instruction_set
      BY <1>1 DEF ItineraryTypes
    <3> QED BY <3>2, <3>3, <3>4
  <2>5. outcomes' = [outcomes EXCEPT ![k] = status]
    BY <1>2, <2>2 DEF Return
  <2>6. /\ outcomes' = [i \in DOMAIN instruction_set |-> outcomes'[i]]
        /\ \A i \in DOMAIN instruction_set \ {k} : outcomes'[i] = outcomes[i]
    BY <2>5 DEF StoreInv
  <2>7. current'.stage \notin {"host", "update code"}
    BY <2>2, IterationStages DEF Return
  <2>8. ASSUME Elsewhere(update_code_micro_ops), NEW i \in DOMAIN instruction_set, Computed(i)'
        PROVE  Arranged(itineraries'[i].microOps)
    <3>1. CASE i = k
      BY <2>3, <2>4, <2>8, <3>1
    <3>2. CASE i # k
      <4>1. Computed(i)
        BY <2>6, <2>8, <3>2 DEF Computed
      <4> QED BY <2>4, <2>8, <3>2, <4>1 DEF StoreInv
    <3> QED BY <3>1, <3>2
  <2>9. Elsewhere(update_code_micro_ops)' = Elsewhere(update_code_micro_ops)
    BY <1>1
  <2> QED BY <1>1, <2>6, <2>7, <2>8, <2>9 DEF StoreInv, Arranged, Followed, Lacking
<1> QED BY <1>4, <1>5, <1>6

LEMMA StoreInit == ProgramInit => StoreInv
BY DEF ProgramInit, StoreInv, Computed

LEMMA StoreNext == DistinctMasks /\ ProgramInv /\ StoreInv /\ [ProgramNext]_programVars => StoreInv'
<1> SUFFICES ASSUME DistinctMasks, ProgramInv, StoreInv, [ProgramNext]_programVars PROVE StoreInv'
  OBVIOUS
<1>1. ItineraryTypes
  BY DEF ProgramInv
<1>2. CASE CheckHost
  BY <1>2 DEF CheckHost, StoreInv, Computed
<1>3. CASE ComputeUpdateCodeMicroOps
  <2>1. \A i \in DOMAIN instruction_set : ~ Computed(i)
    BY <1>3 DEF ComputeUpdateCodeMicroOps, StoreInv
  <2>2. UNCHANGED <<instruction_set, itineraries, outcomes>>
    BY <1>3 DEF ComputeUpdateCodeMicroOps
  <2> QED BY <2>1, <2>2 DEF StoreInv, Computed
<1>4. CASE SkipInstruction
  BY <1>4, FailureArranges DEF SkipInstruction
<1>5. CASE Assemble
  <2>1. UNCHANGED <<instruction_set, itineraries, update_code_micro_ops>>
    BY <1>5 DEF Assemble
  <2>2. CASE current' = [current EXCEPT !.stage = "measure"] /\ UNCHANGED outcomes
    <3>1. current'.stage = "measure"
      BY <1>1, <2>2 DEF ItineraryTypes
    <3> QED BY <2>1, <2>2, <3>1 DEF StoreInv, Computed
  <2>3. CASE Return("assembly error")
    BY <2>1, <2>3, FailureArranges
  <2> QED BY <1>5, <2>2, <2>3 DEF Assemble
<1>6. CASE Measure
  <2>1. current.stage = "measure" /\ UNCHANGED <<instruction_set, update_code_micro_ops>>
    BY <1>6 DEF Measure
  <2>2. CASE Return("evaluation error") /\ UNCHANGED itineraries
    BY <2>1, <2>2, FailureArranges
  <2>3. CASE /\ itineraries' = [itineraries EXCEPT ![current.index].observed = TRUE]
             /\ current' = [current EXCEPT !.stage = "decompose"]
             /\ UNCHANGED outcomes
    <3>1. current'.stage = "decompose"
      BY <1>1, <2>3 DEF ItineraryTypes
    <3>2. ASSUME NEW i \in DOMAIN instruction_set
          PROVE  itineraries'[i].microOps = itineraries[i].microOps
      <4>1. PICK o, m : itineraries[i] = [observed |-> o, microOps |-> m]
        BY <1>1 DEF ItineraryTypes
      <4>2. DOMAIN itineraries = DOMAIN instruction_set
        BY <1>1 DEF ItineraryTypes
      <4>3. CASE i = current.index
        <5>1. PICK t : t = TRUE
          OBVIOUS
        <5>2. itineraries'[i] = [itineraries[i] EXCEPT !.observed = t]
          BY <2>3, <4>2, <4>3, <5>1
        <5>3. [[observed |-> o, microOps |-> m] EXCEPT !.observed = t].microOps = m
          OBVIOUS
        <5> QED BY <4>1, <5>2, <5>3
      <4>4. CASE i # current.index
        BY <2>3, <4>2, <4>4
      <4> QED BY <4>3, <4>4
    <3> QED BY <2>1, <2>3, <3>1, <3>2 DEF StoreInv, Computed
  <2> QED BY <1>6, <2>2, <2>3 DEF Measure
<1>7. CASE DecodeStall
  BY <1>7, FailureArranges DEF DecodeStall
<1>8. CASE Solve
  BY <1>8, SolveArranges
<1>9. CASE UNCHANGED programVars
  BY <1>9 DEF programVars, StoreInv, Computed
<1> QED BY <1>2, <1>3, <1>4, <1>5, <1>6, <1>7, <1>8, <1>9 DEF ProgramNext

\* The itineraries computed so far have as many address generations as stores.
AddressesSuffice ==
  \A i \in DOMAIN instruction_set :
    Computed(i) =>
      Cardinality(StoresOf(itineraries[i].microOps)) <= Cardinality(AddressesOf(itineraries[i].microOps))

\* In every itinerary that was computed, each store comes right after an address
\* generation, and nothing but these comes after the first store: for any
\* microarchitecture whose masks differ, any instructions and any optimum of the
\* solver, as long as there are addresses for the stores and the update code has
\* neither.
THEOREM StoresAreServed ==
  DistinctMasks /\ ProgramSpec =>
    [](Elsewhere(update_code_micro_ops) /\ AddressesSuffice => StoresFollowTheirAddress)
<1>1. StoreInv => (Elsewhere(update_code_micro_ops) /\ AddressesSuffice => StoresFollowTheirAddress)
  <2> SUFFICES ASSUME StoreInv, Elsewhere(update_code_micro_ops), AddressesSuffice,
                      NEW i \in DOMAIN instruction_set, Computed(i),
                      NEW ops, ops = itineraries[i].microOps,
                      NEW k \in DOMAIN ops, ops[k].portMask = PortMasks[StoreDataMask]
               PROVE  /\ k > 1
                      /\ ops[k - 1].portMask \in {PortMasks[StoreAddressMask], PortMasks[LoadStoreMask]}
                      /\ \A j \in k .. Len(ops) :
                           \/ ops[j].portMask = PortMasks[StoreDataMask]
                           \/ ops[j].portMask \in {PortMasks[StoreAddressMask], PortMasks[LoadStoreMask]}
    BY DEF StoresFollowTheirAddress
  <2>1. Arranged(ops) /\ Cardinality(StoresOf(ops)) <= Cardinality(AddressesOf(ops))
    BY DEF StoreInv, AddressesSuffice
  <2>2. PICK n \in Nat : ops = [j \in 1 .. n |-> ops[j]] /\ Followed(ops, n)
    BY <2>1, NothingLacks
  <2>3. DOMAIN ops = 1 .. n /\ Len(ops) = n
    <3>1. ops \in Seq({ops[j] : j \in 1 .. n})
      BY <2>2
    <3>2. DOMAIN ops = 1 .. n
      BY <2>2
    <3> QED BY <3>1, <3>2
  <2> QED BY <2>2, <2>3 DEF Followed, Served, IsStore, IsAddress
<1>2. ASSUME DistinctMasks
      PROVE  ProgramSpec => [](Elsewhere(update_code_micro_ops) /\ AddressesSuffice => StoresFollowTheirAddress)
  <2>1. ProgramInv /\ StoreInv /\ [ProgramNext]_programVars => StoreInv'
    BY <1>2, StoreNext
  <2> QED BY <1>1, <2>1, StoreInit, ProgramInitInv, ProgramNextInv, PTL DEF ProgramSpec
<1> QED BY <1>2

-----------------------------------------------------------------------------
(* The setters: what of an instruction an operand is read from, and what a   *)
(* call changes of it.                                                       *)

\* The bit that extends a register field, as a number that is added.
ExtensionBit(i, e) == IF i.kind = "legacy" THEN i.leg.rex[e]
                      ELSE IF e = "r" THEN 1 - Bit(i.vex.nr, 0) ELSE 1 - i.vex[Inverted[e]]
\* What OperandAt reads.
Fields(op, m, sib, b, r, x, v, suffix) ==
  [op |-> op, m |-> m, sib |-> sib, b |-> b, r |-> r, x |-> x, v |-> v, suffix |-> suffix]
FieldsOf(i) == Fields(i.op, ModRmOf(i), SibOf(i), ExtensionBit(i, "b"), ExtensionBit(i, "r"), ExtensionBit(i, "x"),
                      i.vex.v, i.vex.suffix)
OperandFields == [op : Nat, m : ModRm, sib : Sib, b : 0..1, r : 0..1, x : 0..1, v : Nat, suffix : Nat]
\* OperandAt, of these fields: a displacement of one byte is stored without its sign.
MemoryOf(f) ==
  LET base == (IF f.m.rm = 4 THEN f.sib.base ELSE f.m.rm) + 8 * f.b
  IN  IF f.m.rm = 4 /\ f.sib.index + 8 * f.x # 4 THEN <<"indexed">>
      ELSE IF f.m.mod = 0 /\ f.m.rm = 4 /\ f.sib.base = 5 THEN <<"absolute", f.m.disp>>
      ELSE IF f.m.mod = 0 THEN IF f.m.rm = 5 THEN <<"rip", f.m.disp>> ELSE <<"base", base>>
      ELSE <<"base", base, IF f.m.mod = 1 THEN SignedByte(f.m.disp % 256) ELSE f.m.disp>>
OperandOf(f, enc) ==
  CASE enc = "OPCODE"     -> <<"register", (f.op % 8) + 8 * f.b>>
    [] enc = "MODRM_REG"  -> <<"register", f.m.reg + 8 * f.r>>
    [] enc = "MODRM_RM"   -> IF f.m.mod = Direct THEN <<"register", f.m.rm + 8 * f.b>> ELSE MemoryOf(f)
    [] enc = "VEX_V"      -> <<"register", 15 - (f.v % 16)>>
    [] enc = "VEX_SUFFIX" -> <<"register", f.suffix \div 16>>

\* The operands of an instruction do not share fields: each field of the encoding has at most one, a register
\* in the opcode is in a legacy instruction whose opcode leaves room for it and which has no modrm.rm operand,
\* and a register in a VEX prefix is in an instruction that has one.  The client starts from the prefix that the
\* specification asks for (from a VEX prefix for an EVEX one), without an extension bit where no operand
\* has it.
EncodedIn == {"OPCODE", "MODRM_REG", "MODRM_RM", "VEX_V", "VEX_SUFFIX"}
OperandsAreApart(n) ==
  LET spec == Database[n].spec  ops == Database[n].ops
  IN  /\ \A p, q \in DOMAIN ops : ops[p].enc = ops[q].enc /\ ops[p].enc \in EncodedIn => p = q
      /\ HasOperandWithEncoding(ops, "OPCODE") => /\ spec.type = "legacy" /\ OpcodeOf(spec) % 8 = 0
                                                  /\ ~HasOperandWithEncoding(ops, "MODRM_RM")
                                                  /\ \A i \in Database[n].starts : i.leg.rex.b = 0
      /\ HasOperandWithEncoding(ops, "VEX_V") => spec.type # "legacy" /\ spec.vex.usage # "NOT_USED"
      /\ HasOperandWithEncoding(ops, "VEX_SUFFIX") => spec.type # "legacy"
      /\ spec.type # "EVEX" => \A i \in Database[n].starts : i.kind = spec.type
\* The registers that a field with one extension bit can name, and the argument of an eight-bit displacement.
ArgumentsFit == Registers \subseteq -1..kMaxX86GeneralPurposeRegisterIndex /\ SmallDisplacements \subseteq -128..127

\* The fields of the instruction hold the operands that were assigned to it.
AreHeld(ops, i, what) ==
  \A p \in DOMAIN ops : what[p] # <<>> => ops[p].enc \in EncodedIn /\ OperandOf(FieldsOf(i), ops[p].enc) = what[p]
Holds(n, i, what) ==
  LET spec == Database[n].spec  ops == Database[n].ops
  IN  /\ spec.type # "EVEX" => /\ i.kind = spec.type
                               /\ HasOperandWithEncoding(ops, "OPCODE") => ExtensionBit(i, "b") = 0
                               /\ AreHeld(ops, i, what)
      /\ i.kind = "EVEX" => \A p \in DOMAIN ops : what[p] = <<>>
AssignedInv ==
  /\ DOMAIN assigned = DOMAIN OpsOf
  /\ OperandsAreApart(entry) /\ ArgumentsFit /\ stage # "foreign" => Holds(entry, instr, assigned)

\* The bits of a byte, as the parser cuts them out.
LEMMA BitsOfByte ==
  ASSUME NEW byte \in Nat
  PROVE  /\ Bit(byte, 0) = byte % 2 /\ Bit(byte, 1) = (byte \div 2) % 2 /\ Bit(byte, 2) = (byte \div 4) % 2
         /\ Bit(byte, 3) = (byte \div 8) % 2 /\ Bit(byte, 4) = (byte \div 16) % 2
         /\ Bit(byte, 5) = (byte \div 32) % 2 /\ Bit(byte, 6) = (byte \div 64) % 2
         /\ Bit(byte, 7) = (byte \div 128) % 2
         /\ Bits(byte, 0, 2) = byte % 4 /\ Bits(byte, 0, 3) = byte % 8 /\ Bits(byte, 0, 4) = byte % 16
         /\ Bits(byte, 0, 5) = byte % 32
         /\ Bits(byte, 2, 4) = (byte \div 4) % 4 /\ Bits(byte, 3, 6) = (byte \div 8) % 8
         /\ Bits(byte, 3, 7) = (byte \div 8) % 16 /\ Bits(byte, 5, 7) = (byte \div 32) % 4
         /\ Bits(byte, 6, 8) = (byte \div 64) % 4
<1>1. 2^0 = 1 /\ 2^1 = 2 /\ 2^2 = 4 /\ 2^3 = 8 /\ 2^4 = 16 /\ 2^5 = 32 /\ 2^6 = 64 /\ 2^7 = 128
  OBVIOUS
<1>2. byte \div 1 = byte
  OBVIOUS
<1> QED BY <1>1, <1>2 DEF Bit, Bits

LEMMA ExtensionBitType ==
  ASSUME NEW i \in DecodedInstruction, NEW e \in {"b", "r", "x"}
  PROVE  ExtensionBit(i, e) \in 0..1
<1>1. CASE i.kind = "legacy"
  <2>1. i.leg.rex \in RexPrefix
    BY DEF DecodedInstruction, LegacyPrefixes
  <2>2. i.leg.rex[e] \in 0..1
    BY <2>1 DEF RexPrefix
  <2> QED BY <1>1, <2>2 DEF ExtensionBit
<1>2. CASE i.kind # "legacy"
  <2>1. PICK vex \in VexOrEvexPrefix : vex = i.vex
    BY DEF DecodedInstruction
  <2>2. vex.nr \in Nat /\ vex.nb \in 0..1 /\ vex.nx \in 0..1
    BY DEF VexOrEvexPrefix
  <2>3. CASE e = "r"
    <3>1. PICK n \in Nat, l \in 0..1 : n = vex.nr /\ l = n % 2
      BY <2>2
    <3>2. Bit(n, 0) = l
      BY <3>1, BitsOfByte
    <3>3. ExtensionBit(i, e) = 1 - l
      BY <1>2, <2>1, <2>3, <3>1, <3>2 DEF ExtensionBit
    <3> QED BY <3>1, <3>3
  <2>4. CASE e \in {"b", "x"}
    <3>1. vex[Inverted[e]] \in 0..1
      BY <2>2, <2>4 DEF Inverted
    <3>2. ExtensionBit(i, e) = 1 - vex[Inverted[e]]
      BY <1>2, <2>1, <2>4 DEF ExtensionBit
    <3> QED BY <3>1, <3>2
  <2> QED BY <2>3, <2>4
<1> QED BY <1>1, <1>2

LEMMA FieldsType ==
  ASSUME NEW i \in DecodedInstruction
  PROVE  FieldsOf(i) \in OperandFields
<1>1. ModRmOf(i) \in ModRm /\ SibOf(i) \in Sib
  BY ModRmOfType
<1>2. ExtensionBit(i, "b") \in 0..1 /\ ExtensionBit(i, "r") \in 0..1 /\ ExtensionBit(i, "x") \in 0..1
  BY ExtensionBitType
<1>3. i.op \in Nat /\ i.vex.v \in Nat /\ i.vex.suffix \in Nat
  BY DEF DecodedInstruction, VexOrEvexPrefix
<1> QED BY <1>1, <1>2, <1>3, Zenon DEF FieldsOf, Fields, OperandFields

\* s is i with the operand fields g.
Becomes(i, s, g) == s \in DecodedInstruction /\ s.kind = i.kind /\ FieldsOf(s) = g

LEMMA SameExtension ==
  ASSUME NEW i, NEW s, s.kind = i.kind, s.leg = i.leg, s.vex = i.vex, NEW e
  PROVE  ExtensionBit(s, e) = ExtensionBit(i, e)
BY Zenon DEF ExtensionBit

\* A setter of the ModR/M byte, and one of the SIB byte.
LEMMA ModRmBecomes ==
  ASSUME NEW i \in DecodedInstruction, NEW f \in OperandFields, f = FieldsOf(i), NEW m \in ModRm,
         NEW s, s = [i EXCEPT !.modrm = <<m>>]
  PROVE  Becomes(i, s, [f EXCEPT !.m = m])
<1>1. s \in DecodedInstruction
  BY SetModRmField
<1>2. /\ s.kind = i.kind /\ s.leg = i.leg /\ s.vex = i.vex /\ s.op = i.op /\ s.sib = i.sib
      /\ s.modrm = <<m>>
  BY DEF DecodedInstruction
<1>3. ModRmOf(s) = m /\ SibOf(s) = SibOf(i)
  BY <1>2 DEF ModRmOf, SibOf
<1>4. \A e : ExtensionBit(s, e) = ExtensionBit(i, e)
  BY <1>2, SameExtension
<1>5. FieldsOf(s) = Fields(i.op, m, SibOf(i), ExtensionBit(i, "b"), ExtensionBit(i, "r"), ExtensionBit(i, "x"),
                           i.vex.v, i.vex.suffix)
  BY <1>2, <1>3, <1>4, Zenon DEF FieldsOf
<1>6. FieldsOf(s) = [f EXCEPT !.m = m]
  BY <1>5 DEF FieldsOf, Fields
<1> QED BY <1>1, <1>2, <1>6 DEF Becomes

LEMMA SibBecomes ==
  ASSUME NEW i \in DecodedInstruction, NEW f \in OperandFields, f = FieldsOf(i), NEW sib \in Sib, NEW s,
         s = WithSib(i, sib) \/ (s = ClearSib(i) /\ sib = DefaultSib)
  PROVE  Becomes(i, s, [f EXCEPT !.sib = sib])
<1>1. s \in DecodedInstruction
  BY SetSibField, FieldSetterTypes
<1>2. /\ s.kind = i.kind /\ s.leg = i.leg /\ s.vex = i.vex /\ s.op = i.op /\ s.modrm = i.modrm
      /\ s.sib = <<sib>> \/ (s.sib = <<>> /\ sib = DefaultSib)
  BY DEF DecodedInstruction, WithSib, ClearSib
<1>3. ModRmOf(s) = ModRmOf(i) /\ SibOf(s) = sib
  BY <1>2 DEF ModRmOf, SibOf
<1>4. \A e : ExtensionBit(s, e) = ExtensionBit(i, e)
  BY <1>2, SameExtension
<1>5. FieldsOf(s) = Fields(i.op, ModRmOf(i), sib, ExtensionBit(i, "b"), ExtensionBit(i, "r"), ExtensionBit(i, "x"),
                           i.vex.v, i.vex.suffix)
  <2>1. s.op = i.op /\ s.vex = i.vex /\ ModRmOf(s) = ModRmOf(i) /\ SibOf(s) = sib
    BY <1>2, <1>3
  <2> QED BY <1>4, <2>1 DEF FieldsOf
<1>6. FieldsOf(s) = [f EXCEPT !.sib = sib]
  BY <1>5 DEF FieldsOf, Fields
<1> QED BY <1>1, <1>2, <1>6 DEF Becomes

\* A setter of an extension bit: the inverted one of a VEX prefix or the one of a REX prefix.
LEMMA BitBecomes ==
  ASSUME NEW i \in DecodedInstruction, i.kind # "EVEX", NEW f \in OperandFields, f = FieldsOf(i), NEW register
  PROVE  /\ Becomes(i, SetExtension(i, "b", register), [f EXCEPT !.b = Extended(register)])
         /\ Becomes(i, SetExtension(i, "r", register), [f EXCEPT !.r = Extended(register)])
         /\ Becomes(i, SetExtension(i, "x", register), [f EXCEPT !.x = Extended(register)])
<1>1. PICK l \in 0..1 : l = Extended(register)
  BY DEF Extended, Flag
<1>2. ASSUME NEW e \in {"b", "r", "x"}, NEW s, s = SetExtension(i, e, register)
      PROVE  /\ s \in DecodedInstruction /\ s.kind = i.kind /\ s.op = i.op /\ ModRmOf(s) = ModRmOf(i) /\ SibOf(s) = SibOf(i)
             /\ s.vex.v = i.vex.v /\ s.vex.suffix = i.vex.suffix
             /\ \A other \in {"b", "r", "x"} : ExtensionBit(s, other) = IF other = e THEN l ELSE ExtensionBit(i, other)
  <2>1. s \in DecodedInstruction
    BY <1>2, SetExtensionType
  <2>2. CASE i.kind = "VEX"
    <3>1. PICK vex \in VexOrEvexPrefix : vex = i.vex
      BY DEF DecodedInstruction
    <3>2. PICK x \in {"nb", "nr", "nx"} : x = Inverted[e]
      BY DEF Inverted
    <3>3. PICK n \in 0..1 : n = 1 - l
      OBVIOUS
    <3>4. PICK new : new = [vex EXCEPT ![x] = n]
      OBVIOUS
    <3>5. s = [i EXCEPT !.vex = new]
      BY <1>1, <1>2, <2>2, <3>1, <3>2, <3>3, <3>4 DEF SetExtension
    <3>6. s.kind = i.kind /\ s.op = i.op /\ s.modrm = i.modrm /\ s.sib = i.sib /\ s.vex = new /\ s.kind = "VEX"
      BY <2>2, <3>5 DEF DecodedInstruction
    <3>7. new.v = vex.v /\ new.suffix = vex.suffix
      BY <3>4 DEF VexOrEvexPrefix
    <3>8. \A y \in {"nb", "nr", "nx"} : new[y] = IF y = x THEN n ELSE vex[y]
      BY <3>4 DEF VexOrEvexPrefix
    <3>9. Bit(n, 0) = n
      <4>1. n \in Nat /\ n % 2 = n
        OBVIOUS
      <4> QED BY <4>1, BitsOfByte
    <3>10. ASSUME NEW other \in {"b", "r", "x"}
           PROVE  ExtensionBit(s, other) = IF other = e THEN l ELSE ExtensionBit(i, other)
      <4>1. CASE other = "r"
        <5>1. ExtensionBit(s, other) = 1 - Bit(new.nr, 0) /\ ExtensionBit(i, other) = 1 - Bit(vex.nr, 0)
          BY <2>2, <3>1, <3>6, <4>1 DEF ExtensionBit
        <5>2. new.nr = IF e = "r" THEN n ELSE vex.nr
          BY <3>2, <3>8 DEF Inverted
        <5> QED BY <3>3, <3>9, <4>1, <5>1, <5>2
      <4>2. CASE other # "r"
        <5>1. ExtensionBit(s, other) = 1 - new[Inverted[other]] /\ ExtensionBit(i, other) = 1 - vex[Inverted[other]]
          BY <2>2, <3>1, <3>6, <4>2 DEF ExtensionBit
        <5>2. new[Inverted[other]] = IF e = other THEN n ELSE vex[Inverted[other]]
          BY <3>2, <3>8, <4>2 DEF Inverted
        <5> QED BY <3>3, <5>1, <5>2
      <4> QED BY <4>1, <4>2
    <3> QED BY <2>1, <3>1, <3>6, <3>7, <3>10 DEF ModRmOf, SibOf
  <2>3. CASE i.kind = "legacy"
    <3>1. PICK leg \in LegacyPrefixes : leg = i.leg
      BY DEF DecodedInstruction
    <3>2. PICK rex \in RexPrefix : rex = leg.rex
      BY DEF LegacyPrefixes
    <3>3. PICK new : new = [rex EXCEPT ![e] = l]
      OBVIOUS
    <3>4. MutableLegacy(i) = i
      BY <2>3 DEF MutableLegacy
    <3>5. s = [i EXCEPT !.leg = [leg EXCEPT !.rex = new, !.hasrex = TRUE]]
      BY <1>1, <1>2, <2>3, <3>1, <3>2, <3>3, <3>4 DEF SetExtension
    <3>6. /\ s.kind = i.kind /\ s.op = i.op /\ s.modrm = i.modrm /\ s.sib = i.sib /\ s.vex = i.vex
          /\ s.leg.rex = new /\ s.kind = "legacy"
      BY <2>3, <3>5 DEF DecodedInstruction, LegacyPrefixes
    <3>7. \A y \in {"b", "r", "x"} : new[y] = IF y = e THEN l ELSE rex[y]
      BY <3>3 DEF RexPrefix
    <3>8. \A y : ExtensionBit(s, y) = new[y] /\ ExtensionBit(i, y) = rex[y]
      BY <2>3, <3>1, <3>2, <3>6 DEF ExtensionBit
    <3> QED BY <2>1, <3>6, <3>7, <3>8 DEF ModRmOf, SibOf
  <2>4. i.kind \in {"legacy", "VEX"}
    BY DEF DecodedInstruction
  <2> QED BY <2>2, <2>3, <2>4
<1> DEFINE Is(b, r, x) == Fields(i.op, ModRmOf(i), SibOf(i), b, r, x, i.vex.v, i.vex.suffix)
<1>3. f = Is(ExtensionBit(i, "b"), ExtensionBit(i, "r"), ExtensionBit(i, "x"))
  BY Zenon DEF FieldsOf
<1>4. PICK s : s = SetExtension(i, "b", register)
  OBVIOUS
<1>5. FieldsOf(s) = Is(l, ExtensionBit(i, "r"), ExtensionBit(i, "x"))
  BY <1>2, <1>4 DEF FieldsOf
<1>6. Becomes(i, s, [f EXCEPT !.b = l])
  BY <1>2, <1>3, <1>4, <1>5 DEF Becomes, Fields
<1>7. PICK t : t = SetExtension(i, "r", register)
  OBVIOUS
<1>8. FieldsOf(t) = Is(ExtensionBit(i, "b"), l, ExtensionBit(i, "x"))
  BY <1>2, <1>7 DEF FieldsOf
<1>9. Becomes(i, t, [f EXCEPT !.r = l])
  BY <1>2, <1>3, <1>7, <1>8 DEF Becomes, Fields
<1>10. PICK u : u = SetExtension(i, "x", register)
  OBVIOUS
<1>11. FieldsOf(u) = Is(ExtensionBit(i, "b"), ExtensionBit(i, "r"), l)
  BY <1>2, <1>10 DEF FieldsOf
<1>12. Becomes(i, u, [f EXCEPT !.x = l])
  BY <1>2, <1>3, <1>10, <1>11 DEF Becomes, Fields
<1> QED BY <1>1, <1>4, <1>6, <1>7, <1>9, <1>10, <1>12, Zenon

\* An instruction whose prefix the setters know, with its operand fields; and the one a setter makes of i.
Stage(i, f) == i \in DecodedInstruction /\ i.kind # "EVEX" /\ f \in OperandFields /\ f = FieldsOf(i)
Goes(i, s, g) == Stage(s, g) /\ s.kind = i.kind

LEMMA BecomesGoes ==
  ASSUME NEW i, NEW f, Stage(i, f), NEW s, NEW g, Becomes(i, s, g)
  PROVE  Goes(i, s, g)
BY FieldsType DEF Becomes, Stage, Goes

LEMMA TwoSteps ==
  ASSUME NEW i, NEW s, NEW g, Goes(i, s, g), NEW t, NEW h, Becomes(s, t, h)
  PROVE  Goes(i, t, h)
BY FieldsType DEF Becomes, Stage, Goes

LEMMA StageFields ==
  ASSUME NEW i, NEW f, Stage(i, f)
  PROVE  f.m = ModRmOf(i) /\ f.m \in ModRm /\ f.sib = SibOf(i) /\ f.sib \in Sib /\ f.op = i.op
BY DEF Stage, FieldsOf, Fields, OperandFields

LEMMA ModRmGoes ==
  ASSUME NEW i, NEW f, Stage(i, f)
  PROVE  /\ \A mod \in 0..3 : Goes(i, SetMode(i, mod), [f EXCEPT !.m = [f.m EXCEPT !.mod = mod]])
         /\ \A disp \in Int : Goes(i, SetDisplacement(i, disp), [f EXCEPT !.m = [f.m EXCEPT !.disp = disp]])
         /\ Goes(i, ClearSib(i), [f EXCEPT !.sib = DefaultSib])
<1>1. PICK m \in ModRm : m = f.m /\ m = ModRmOf(i)
  BY StageFields
<1>2. i \in DecodedInstruction /\ f \in OperandFields /\ f = FieldsOf(i)
  BY DEF Stage
<1>3. ASSUME NEW mod \in 0..3 PROVE Goes(i, SetMode(i, mod), [f EXCEPT !.m = [f.m EXCEPT !.mod = mod]])
  <2>1. PICK n \in ModRm : n = [m EXCEPT !.mod = mod]
    BY ModRmFields
  <2>2. PICK s : s = [i EXCEPT !.modrm = <<n>>]
    OBVIOUS
  <2>3. Goes(i, s, [f EXCEPT !.m = n])
    BY <1>2, <2>2, ModRmBecomes, BecomesGoes
  <2> QED BY <1>1, <2>1, <2>2, <2>3, Zenon DEF SetMode
<1>4. ASSUME NEW disp \in Int PROVE Goes(i, SetDisplacement(i, disp), [f EXCEPT !.m = [f.m EXCEPT !.disp = disp]])
  <2>1. PICK n \in ModRm : n = [m EXCEPT !.disp = disp]
    BY ModRmFields
  <2>2. PICK s : s = [i EXCEPT !.modrm = <<n>>]
    OBVIOUS
  <2>3. Goes(i, s, [f EXCEPT !.m = n])
    BY <1>2, <2>2, ModRmBecomes, BecomesGoes
  <2> QED BY <1>1, <2>1, <2>2, <2>3, Zenon DEF SetDisplacement
<1>5. Goes(i, ClearSib(i), [f EXCEPT !.sib = DefaultSib])
  <2>1. DefaultSib \in Sib
    BY DEF DefaultSib, Sib
  <2> QED BY <1>2, <2>1, SibBecomes, BecomesGoes
<1> QED BY <1>3, <1>4, <1>5

PutRm(f, r)    == [f EXCEPT !.m = [f.m EXCEPT !.rm = r % 8], !.b = Extended(r)]
PutReg(f, r)   == [f EXCEPT !.m = [f.m EXCEPT !.reg = r % 8], !.r = Extended(r)]
PutBase(f, r)  == [f EXCEPT !.sib = [f.sib EXCEPT !.base = r % 8], !.b = Extended(r)]
PutIndex(f, r) == [f EXCEPT !.sib = [f.sib EXCEPT !.index = r % 8], !.x = Extended(r)]

LEMMA RegisterGoes ==
  ASSUME NEW i, NEW f, Stage(i, f), NEW r \in Int
  PROVE  /\ Goes(i, SetModRmRmValue(i, r), PutRm(f, r))
         /\ Goes(i, SetModRmRegOperand(i, r), PutReg(f, r))
         /\ Goes(i, SetSibBaseValue(i, r), PutBase(f, r))
         /\ Goes(i, SetSibIndexValue(i, r), PutIndex(f, r))
<1>1. PICK m \in ModRm : m = f.m /\ m = ModRmOf(i)
  BY StageFields
<1>2. i \in DecodedInstruction /\ f \in OperandFields /\ f = FieldsOf(i)
  BY DEF Stage
<1>3. PICK sib \in Sib : sib = f.sib /\ sib = SibOf(i)
  BY StageFields
<1>4. PICK low \in Nat : low = r % 8
  BY ModuloType
<1>5. PICK n \in ModRm, k \in ModRm : n = [m EXCEPT !.rm = low] /\ k = [m EXCEPT !.reg = low]
  BY ModRmFields
<1>6. PICK base \in Sib, index \in Sib : base = [sib EXCEPT !.base = low] /\ index = [sib EXCEPT !.index = low]
  BY SibFields
<1>7. ASSUME NEW s, NEW g, Goes(i, s, g), NEW h, h = [g EXCEPT !.b = Extended(r)]
      PROVE  Goes(i, SetExtension(s, "b", r), h)
  <2>1. s \in DecodedInstruction /\ s.kind # "EVEX" /\ g \in OperandFields /\ g = FieldsOf(s)
    BY <1>7 DEF Goes, Stage
  <2>2. Becomes(s, SetExtension(s, "b", r), h)
    BY <1>7, <2>1, BitBecomes
  <2> QED BY <1>7, <2>2, TwoSteps
<1>8. Goes(i, SetModRmRmValue(i, r), PutRm(f, r))
  <2>1. PICK s, g : s = [i EXCEPT !.modrm = <<n>>] /\ g = [f EXCEPT !.m = n]
    OBVIOUS
  <2>2. Goes(i, s, g)
    BY <1>2, <2>1, ModRmBecomes, BecomesGoes
  <2>3. Goes(i, SetExtension(s, "b", r), [g EXCEPT !.b = Extended(r)])
    BY <1>7, <2>2
  <2> QED BY <1>1, <1>4, <1>5, <2>1, <2>3, Zenon DEF SetModRmRmValue, PutRm
<1>9. Goes(i, SetModRmRegOperand(i, r), PutReg(f, r))
  <2>1. PICK s, g : s = [i EXCEPT !.modrm = <<k>>] /\ g = [f EXCEPT !.m = k]
    OBVIOUS
  <2>2. Goes(i, s, g)
    BY <1>2, <2>1, ModRmBecomes, BecomesGoes
  <2>3. s \in DecodedInstruction /\ s.kind # "EVEX" /\ g \in OperandFields /\ g = FieldsOf(s)
    BY <2>2 DEF Goes, Stage
  <2>4. Becomes(s, SetExtension(s, "r", r), [g EXCEPT !.r = Extended(r)])
    BY <2>3, BitBecomes
  <2>5. Goes(i, SetExtension(s, "r", r), [g EXCEPT !.r = Extended(r)])
    BY <2>2, <2>4, TwoSteps
  <2> QED BY <1>1, <1>4, <1>5, <2>1, <2>5, Zenon DEF SetModRmRegOperand, PutReg
<1>10. Goes(i, SetSibBaseValue(i, r), PutBase(f, r))
  <2>1. PICK s, g : s = WithSib(i, base) /\ g = [f EXCEPT !.sib = base]
    OBVIOUS
  <2>2. Goes(i, s, g)
    BY <1>2, <2>1, SibBecomes, BecomesGoes
  <2>3. Goes(i, SetExtension(s, "b", r), [g EXCEPT !.b = Extended(r)])
    BY <1>7, <2>2
  <2> QED BY <1>3, <1>4, <1>6, <2>1, <2>3, Zenon DEF SetSibBaseValue, PutBase
<1>11. Goes(i, SetSibIndexValue(i, r), PutIndex(f, r))
  <2>1. PICK s, g : s = WithSib(i, index) /\ g = [f EXCEPT !.sib = index]
    OBVIOUS
  <2>2. Goes(i, s, g)
    BY <1>2, <2>1, SibBecomes, BecomesGoes
  <2>3. s \in DecodedInstruction /\ s.kind # "EVEX" /\ g \in OperandFields /\ g = FieldsOf(s)
    BY <2>2 DEF Goes, Stage
  <2>4. Becomes(s, SetExtension(s, "x", r), [g EXCEPT !.x = Extended(r)])
    BY <2>3, BitBecomes
  <2>5. Goes(i, SetExtension(s, "x", r), [g EXCEPT !.x = Extended(r)])
    BY <2>2, <2>4, TwoSteps
  <2> QED BY <1>3, <1>4, <1>6, <2>1, <2>5, Zenon DEF SetSibIndexValue, PutIndex
<1> QED BY <1>8, <1>9, <1>10, <1>11

\* Only the fields of an operand differ.
OnlyIn(enc, f, g) ==
  /\ enc # "OPCODE" => g.op = f.op
  /\ enc # "MODRM_REG" => g.m.reg = f.m.reg /\ g.r = f.r
  /\ enc # "MODRM_RM" => /\ g.m.mod = f.m.mod /\ g.m.rm = f.m.rm /\ g.m.disp = f.m.disp
                         /\ g.sib = f.sib /\ g.b = f.b /\ g.x = f.x
  /\ enc # "VEX_V" => g.v = f.v
  /\ enc # "VEX_SUFFIX" => g.suffix = f.suffix
\* A setter that writes the operand and nothing else.
Puts(i, s, enc, what) == /\ s.kind = i.kind /\ OnlyIn(enc, FieldsOf(i), FieldsOf(s))
                         /\ OperandOf(FieldsOf(s), enc) = what

LEMMA OthersKeep ==
  ASSUME NEW f, NEW g, NEW enc \in EncodedIn, NEW other \in EncodedIn, other # enc, OnlyIn(enc, f, g),
         ~(enc = "OPCODE" /\ other = "MODRM_RM"), ~(enc = "MODRM_RM" /\ other = "OPCODE")
  PROVE  OperandOf(g, other) = OperandOf(f, other)
<1>1. CASE other = "OPCODE"
  <2>1. g.op = f.op /\ g.b = f.b
    BY <1>1 DEF OnlyIn
  <2> QED BY <1>1, <2>1 DEF OperandOf
<1>2. CASE other = "MODRM_REG"
  <2>1. g.m.reg = f.m.reg /\ g.r = f.r
    BY <1>2 DEF OnlyIn
  <2> QED BY <1>2, <2>1 DEF OperandOf
<1>3. CASE other = "MODRM_RM"
  <2>1. g.m.mod = f.m.mod /\ g.m.rm = f.m.rm /\ g.m.disp = f.m.disp /\ g.sib = f.sib /\ g.b = f.b /\ g.x = f.x
    BY <1>3 DEF OnlyIn
  <2>2. MemoryOf(g) = MemoryOf(f)
    BY <2>1, ZenonT(40) DEF MemoryOf
  <2> QED BY <1>3, <2>1, <2>2 DEF OperandOf
<1>4. CASE other = "VEX_V"
  <2>1. g.v = f.v
    BY <1>4 DEF OnlyIn
  <2> QED BY <1>4, <2>1 DEF OperandOf
<1>5. CASE other = "VEX_SUFFIX"
  <2>1. g.suffix = f.suffix
    BY <1>5 DEF OnlyIn
  <2> QED BY <1>5, <2>1 DEF OperandOf
<1> QED BY <1>1, <1>2, <1>3, <1>4, <1>5 DEF EncodedIn

\* A register of the sixteen is in its three bits and the one that extends them.
LEMMA RegisterHeld ==
  ASSUME NEW r \in 0..15
  PROVE  r % 8 \in Nat /\ Extended(r) \in 0..1 /\ (r % 8) + 8 * Extended(r) = r
BY DEF Extended, Flag, kMaxX86LegacyRegisterIndex

LEMMA RegPuts ==
  ASSUME NEW i, NEW f, Stage(i, f), NEW r \in 0..15
  PROVE  Puts(i, SetModRmRegOperand(i, r), "MODRM_REG", <<"register", r>>)
<1>1. PICK s, g : s = SetModRmRegOperand(i, r) /\ g = PutReg(f, r)
  OBVIOUS
<1>2. Goes(i, s, g)
  BY <1>1, RegisterGoes
<1>3. PICK low \in Nat, e \in 0..1 : low = r % 8 /\ e = Extended(r) /\ low + 8 * e = r
  BY RegisterHeld
<1>4. PICK n : n = [f.m EXCEPT !.reg = low]
  OBVIOUS
<1>5. n.mod = f.m.mod /\ n.rm = f.m.rm /\ n.disp = f.m.disp /\ n.reg = low
  BY <1>4, StageFields DEF ModRm
<1>6. g.m = n /\ g.r = e /\ g.op = f.op /\ g.sib = f.sib /\ g.b = f.b /\ g.x = f.x /\ g.v = f.v /\ g.suffix = f.suffix
  BY <1>1, <1>3, <1>4 DEF Stage, OperandFields, PutReg
<1>7. OnlyIn("MODRM_REG", f, g)
  BY <1>5, <1>6 DEF OnlyIn
<1>8. OperandOf(g, "MODRM_REG") = <<"register", r>>
  BY <1>3, <1>5, <1>6 DEF OperandOf
<1> QED BY <1>1, <1>2, <1>7, <1>8 DEF Puts, Goes, Stage

LEMMA OpcodePuts ==
  ASSUME NEW i, NEW f, Stage(i, f), NEW r \in 0..7, f.b = 0
  PROVE  Puts(i, SetOpcodeOperand(i, r), "OPCODE", <<"register", r>>)
<1>1. PICK op \in Nat : op = i.op /\ op = f.op
  BY StageFields DEF Stage, OperandFields
<1>2. PICK new \in Nat : new = op - (op % 8) + r
  OBVIOUS
<1>3. new % 8 = r
  BY <1>2
<1>4. PICK s : s = SetOpcodeOperand(i, r)
  OBVIOUS
<1>5. s = [i EXCEPT !.op = new] /\ i \in DecodedInstruction
  BY <1>1, <1>2, <1>4 DEF SetOpcodeOperand, Stage
<1>6. s.op = new /\ s.kind = i.kind /\ s.leg = i.leg /\ s.vex = i.vex /\ s.modrm = i.modrm /\ s.sib = i.sib
  BY <1>5 DEF DecodedInstruction
<1>7. \A e : ExtensionBit(s, e) = ExtensionBit(i, e)
  BY <1>6, SameExtension
<1>8. ModRmOf(s) = ModRmOf(i) /\ SibOf(s) = SibOf(i)
  BY <1>6 DEF ModRmOf, SibOf
<1>9. FieldsOf(s) = Fields(new, ModRmOf(i), SibOf(i), ExtensionBit(i, "b"), ExtensionBit(i, "r"), ExtensionBit(i, "x"),
                           i.vex.v, i.vex.suffix)
  BY <1>6, <1>7, <1>8 DEF FieldsOf
<1>10. PICK g : g = FieldsOf(s)
  OBVIOUS
<1>11. /\ g.op = new /\ g.m = f.m /\ g.sib = f.sib /\ g.b = f.b /\ g.r = f.r /\ g.x = f.x
       /\ g.v = f.v /\ g.suffix = f.suffix
  BY <1>9, <1>10 DEF Stage, FieldsOf, Fields
<1>12. OnlyIn("OPCODE", f, g)
  BY <1>11 DEF OnlyIn
<1>13. OperandOf(g, "OPCODE") = <<"register", r>>
  BY <1>3, <1>11 DEF OperandOf
<1> QED BY <1>4, <1>6, <1>10, <1>12, <1>13 DEF Puts, Stage

LEMMA VexPuts ==
  ASSUME NEW i, NEW f, Stage(i, f), i.kind = "VEX", NEW r \in 0..15
  PROVE  /\ Puts(i, SetVexPrefixOperand(i, r), "VEX_V", <<"register", r>>)
         /\ Puts(i, SetVexSuffixOperand(i, r), "VEX_SUFFIX", <<"register", r>>)
<1>1. MutableVex(i) = i /\ i \in DecodedInstruction
  BY DEF MutableVex, Stage
<1>2. PICK vex \in VexOrEvexPrefix : vex = i.vex
  BY <1>1 DEF DecodedInstruction
<1>3. ASSUME NEW new, NEW s, s = [i EXCEPT !.vex = new], \A x \in {"nb", "nr", "nx"} : new[x] = vex[x]
      PROVE  /\ s.kind = i.kind
             /\ FieldsOf(s) = Fields(i.op, ModRmOf(i), SibOf(i), ExtensionBit(i, "b"), ExtensionBit(i, "r"),
                                     ExtensionBit(i, "x"), new.v, new.suffix)
  <2>1. s.vex = new /\ s.op = i.op /\ s.kind = "VEX" /\ s.modrm = i.modrm /\ s.sib = i.sib
    BY <1>1, <1>3 DEF DecodedInstruction
  <2>2. ExtensionBit(s, "r") = ExtensionBit(i, "r")
    BY <1>2, <1>3, <2>1 DEF ExtensionBit
  <2>3. \A e \in {"b", "x"} : Inverted[e] \in {"nb", "nr", "nx"}
    BY DEF Inverted
  <2>4. ASSUME NEW e \in {"b", "x"} PROVE ExtensionBit(s, e) = ExtensionBit(i, e)
    <3>1. new[Inverted[e]] = vex[Inverted[e]]
      BY <1>3, <2>3
    <3> QED BY <1>2, <2>1, <3>1 DEF ExtensionBit
  <2>5. ModRmOf(s) = ModRmOf(i) /\ SibOf(s) = SibOf(i)
    BY <2>1 DEF ModRmOf, SibOf
  <2> QED BY <2>1, <2>2, <2>4, <2>5 DEF FieldsOf
<1>4. f = Fields(i.op, ModRmOf(i), SibOf(i), ExtensionBit(i, "b"), ExtensionBit(i, "r"), ExtensionBit(i, "x"),
                 vex.v, vex.suffix)
  BY <1>2, Zenon DEF Stage, FieldsOf
<1>5. Puts(i, SetVexPrefixOperand(i, r), "VEX_V", <<"register", r>>)
  <2>1. PICK v \in Nat : v = 15 - (r % 16) /\ 15 - (v % 16) = r
    <3>1. 15 - (r % 16) \in Nat /\ 15 - ((15 - (r % 16)) % 16) = r
      OBVIOUS
    <3> QED BY <3>1
  <2>2. PICK new : new = [vex EXCEPT !.v = v]
    OBVIOUS
  <2>3. PICK s : s = [i EXCEPT !.vex = new]
    OBVIOUS
  <2>4. s = SetVexPrefixOperand(i, r)
    BY <1>1, <1>2, <2>1, <2>2, <2>3 DEF SetVexPrefixOperand
  <2>5. new.v = v /\ new.suffix = vex.suffix /\ \A x \in {"nb", "nr", "nx"} : new[x] = vex[x]
    BY <2>2 DEF VexOrEvexPrefix
  <2>6. PICK g : g = FieldsOf(s)
    OBVIOUS
  <2>7. /\ s.kind = i.kind
        /\ g = Fields(i.op, ModRmOf(i), SibOf(i), ExtensionBit(i, "b"), ExtensionBit(i, "r"), ExtensionBit(i, "x"),
                      v, vex.suffix)
    BY <1>3, <2>3, <2>5, <2>6
  <2>8. /\ g.op = f.op /\ g.m = f.m /\ g.sib = f.sib /\ g.b = f.b /\ g.r = f.r /\ g.x = f.x
        /\ g.v = v /\ g.suffix = f.suffix
    BY <1>4, <2>7 DEF Fields
  <2>9. OnlyIn("VEX_V", f, g)
    BY <2>8 DEF OnlyIn
  <2>10. OperandOf(g, "VEX_V") = <<"register", r>>
    BY <2>1, <2>8 DEF OperandOf
  <2> QED BY <2>4, <2>6, <2>7, <2>9, <2>10 DEF Puts, Stage
<1>6. Puts(i, SetVexSuffixOperand(i, r), "VEX_SUFFIX", <<"register", r>>)
  <2>1. PICK v \in Nat : v = 16 * r /\ v \div 16 = r
    <3>1. 16 * r \in Nat /\ (16 * r) \div 16 = r
      OBVIOUS
    <3> QED BY <3>1
  <2>2. PICK new : new = [vex EXCEPT !.suffix = v]
    OBVIOUS
  <2>3. PICK s : s = [i EXCEPT !.vex = new]
    OBVIOUS
  <2>4. s = SetVexSuffixOperand(i, r)
    BY <1>1, <1>2, <2>1, <2>2, <2>3 DEF SetVexSuffixOperand
  <2>5. new.suffix = v /\ new.v = vex.v /\ \A x \in {"nb", "nr", "nx"} : new[x] = vex[x]
    BY <2>2 DEF VexOrEvexPrefix
  <2>6. PICK g : g = FieldsOf(s)
    OBVIOUS
  <2>7. /\ s.kind = i.kind
        /\ g = Fields(i.op, ModRmOf(i), SibOf(i), ExtensionBit(i, "b"), ExtensionBit(i, "r"), ExtensionBit(i, "x"),
                      vex.v, v)
    BY <1>3, <2>3, <2>5, <2>6
  <2>8. /\ g.op = f.op /\ g.m = f.m /\ g.sib = f.sib /\ g.b = f.b /\ g.r = f.r /\ g.x = f.x
        /\ g.v = f.v /\ g.suffix = v
    BY <1>4, <2>7 DEF Fields
  <2>9. OnlyIn("VEX_SUFFIX", f, g)
    BY <2>8 DEF OnlyIn
  <2>10. OperandOf(g, "VEX_SUFFIX") = <<"register", r>>
    BY <2>1, <2>8 DEF OperandOf
  <2> QED BY <2>4, <2>6, <2>7, <2>9, <2>10 DEF Puts, Stage
<1> QED BY <1>5, <1>6

Shows(g, mod, rm, disp, sib, b, x) ==
  g.m.mod = mod /\ g.m.rm = rm /\ g.m.disp = disp /\ g.sib = sib /\ g.b = b /\ g.x = x
\* s is i with the fields of the modrm.rm operand that are given.
Written(i, s, mod, rm, disp, sib, b, x) ==
  /\ Stage(s, FieldsOf(s)) /\ s.kind = i.kind /\ OnlyIn("MODRM_RM", FieldsOf(i), FieldsOf(s))
  /\ Shows(FieldsOf(s), mod, rm, disp, sib, b, x)

LEMMA WrittenOn ==
  ASSUME NEW i, NEW s, NEW mod, NEW rm, NEW disp, NEW sib, NEW b, NEW x, Written(i, s, mod, rm, disp, sib, b, x),
         NEW t, NEW h, Goes(s, t, h), NEW mod1, NEW rm1, NEW disp1, NEW sib1, NEW b1, NEW x1,
         Shows(h, mod1, rm1, disp1, sib1, b1, x1),
         OnlyIn("MODRM_RM", FieldsOf(s), h)
  PROVE  Written(i, t, mod1, rm1, disp1, sib1, b1, x1)
<1>1. Stage(t, h) /\ t.kind = i.kind /\ h = FieldsOf(t)
  BY DEF Goes, Stage, Written
<1>2. OnlyIn("MODRM_RM", FieldsOf(i), h)
  <2>1. PICK e, g : e = FieldsOf(i) /\ g = FieldsOf(s)
    OBVIOUS
  <2>2. OnlyIn("MODRM_RM", e, g) /\ OnlyIn("MODRM_RM", g, h)
    BY <2>1 DEF Written
  <2>3. OnlyIn("MODRM_RM", e, h)
    BY <2>2 DEF OnlyIn
  <2> QED BY <2>1, <2>3
<1> QED BY <1>1, <1>2, Zenon DEF Written

LEMMA WrittenAtFirst ==
  ASSUME NEW i, NEW f, Stage(i, f)
  PROVE  \E mod, rm, disp, b, x : \E sib \in Sib : Written(i, i, mod, rm, disp, sib, b, x)
<1>1. OnlyIn("MODRM_RM", f, f)
  BY DEF OnlyIn
<1>2. PICK mod, rm, disp, b, x : mod = f.m.mod /\ rm = f.m.rm /\ disp = f.m.disp /\ b = f.b /\ x = f.x
  OBVIOUS
<1>3. PICK sib \in Sib : sib = f.sib
  BY StageFields
<1>4. Shows(f, mod, rm, disp, sib, b, x)
  BY <1>2, <1>3 DEF Shows
<1>5. Written(i, i, mod, rm, disp, sib, b, x)
  BY <1>1, <1>4, Zenon DEF Written, Stage
<1> QED BY <1>5

\* What each of the setters does to them.
LEMMA ModeWrites ==
  ASSUME NEW i, NEW s, NEW mod, NEW rm, NEW disp, NEW sib, NEW b, NEW x, Written(i, s, mod, rm, disp, sib, b, x),
         NEW mod1 \in 0..3, NEW t, t = SetMode(s, mod1)
  PROVE  Written(i, t, mod1, rm, disp, sib, b, x)
<1>1. PICK g : g = FieldsOf(s) /\ Stage(s, g) /\ g \in OperandFields /\ Shows(g, mod, rm, disp, sib, b, x)
  BY DEF Written, Stage
<1>2. PICK m \in ModRm : m = g.m
  BY <1>1, StageFields
<1>3. PICK n, h : n = [m EXCEPT !.mod = mod1] /\ h = [g EXCEPT !.m = n]
  OBVIOUS
<1>4. n.mod = mod1 /\ n.reg = m.reg /\ n.rm = m.rm /\ n.disp = m.disp
  BY <1>3 DEF ModRm
<1>5. /\ h.m = n /\ h.op = g.op /\ h.sib = g.sib /\ h.b = g.b /\ h.r = g.r /\ h.x = g.x /\ h.v = g.v
      /\ h.suffix = g.suffix
  BY <1>1, <1>3 DEF OperandFields
<1>7. OnlyIn("MODRM_RM", g, h)
  BY <1>2, <1>4, <1>5 DEF OnlyIn
<1>8. Goes(s, t, h)
  BY <1>1, <1>2, <1>3, ModRmGoes
<1>9. Shows(h, mod1, rm, disp, sib, b, x)
  BY <1>1, <1>2, <1>4, <1>5 DEF Shows
<1> QED BY <1>1, <1>7, <1>8, <1>9, WrittenOn, Zenon

LEMMA DisplacementWrites ==
  ASSUME NEW i, NEW s, NEW mod, NEW rm, NEW disp, NEW sib, NEW b, NEW x, Written(i, s, mod, rm, disp, sib, b, x),
         NEW disp1 \in Int, NEW t, t = SetDisplacement(s, disp1)
  PROVE  Written(i, t, mod, rm, disp1, sib, b, x)
<1>1. PICK g : g = FieldsOf(s) /\ Stage(s, g) /\ g \in OperandFields /\ Shows(g, mod, rm, disp, sib, b, x)
  BY DEF Written, Stage
<1>2. PICK m \in ModRm : m = g.m
  BY <1>1, StageFields
<1>3. PICK n, h : n = [m EXCEPT !.disp = disp1] /\ h = [g EXCEPT !.m = n]
  OBVIOUS
<1>4. n.mod = m.mod /\ n.reg = m.reg /\ n.rm = m.rm /\ n.disp = disp1
  BY <1>3 DEF ModRm
<1>5. /\ h.m = n /\ h.op = g.op /\ h.sib = g.sib /\ h.b = g.b /\ h.r = g.r /\ h.x = g.x /\ h.v = g.v
      /\ h.suffix = g.suffix
  BY <1>1, <1>3 DEF OperandFields
<1>7. OnlyIn("MODRM_RM", g, h)
  BY <1>2, <1>4, <1>5 DEF OnlyIn
<1>8. Goes(s, t, h)
  BY <1>1, <1>2, <1>3, ModRmGoes
<1>9. Shows(h, mod, rm, disp1, sib, b, x)
  BY <1>1, <1>2, <1>4, <1>5 DEF Shows
<1> QED BY <1>1, <1>7, <1>8, <1>9, WrittenOn, Zenon

LEMMA NoSibWrites ==
  ASSUME NEW i, NEW s, NEW mod, NEW rm, NEW disp, NEW sib, NEW b, NEW x, Written(i, s, mod, rm, disp, sib, b, x),
         NEW t, t = ClearSib(s)
  PROVE  Written(i, t, mod, rm, disp, DefaultSib, b, x)
<1>1. PICK g : g = FieldsOf(s) /\ Stage(s, g) /\ g \in OperandFields /\ Shows(g, mod, rm, disp, sib, b, x)
  BY DEF Written, Stage
<1>2. PICK h : h = [g EXCEPT !.sib = DefaultSib]
  OBVIOUS
<1>5. /\ h.sib = DefaultSib /\ h.op = g.op /\ h.m = g.m /\ h.b = g.b /\ h.r = g.r /\ h.x = g.x /\ h.v = g.v
      /\ h.suffix = g.suffix
  BY <1>1, <1>2 DEF OperandFields
<1>7. OnlyIn("MODRM_RM", g, h)
  BY <1>5 DEF OnlyIn
<1>8. Goes(s, t, h)
  BY <1>1, <1>2, ModRmGoes
<1>9. Shows(h, mod, rm, disp, DefaultSib, b, x)
  BY <1>1, <1>5 DEF Shows
<1> QED BY <1>1, <1>7, <1>8, <1>9, WrittenOn, Zenon

LEMMA RmWrites ==
  ASSUME NEW i, NEW s, NEW mod, NEW rm, NEW disp, NEW sib, NEW b, NEW x, Written(i, s, mod, rm, disp, sib, b, x),
         NEW r \in Int, NEW low, low = r % 8, NEW e, e = Extended(r),
         NEW t, t = SetModRmRmValue(s, r)
  PROVE  Written(i, t, mod, low, disp, sib, e, x)
<1>1. PICK g : g = FieldsOf(s) /\ Stage(s, g) /\ g \in OperandFields /\ Shows(g, mod, rm, disp, sib, b, x)
  BY DEF Written, Stage
<1>2. PICK m \in ModRm : m = g.m
  BY <1>1, StageFields
<1>3. PICK n, h : n = [m EXCEPT !.rm = low] /\ h = [g EXCEPT !.m = n, !.b = e]
  OBVIOUS
<1>4. n.mod = m.mod /\ n.reg = m.reg /\ n.rm = low /\ n.disp = m.disp
  BY <1>3 DEF ModRm
<1>5. /\ h.m = n /\ h.op = g.op /\ h.sib = g.sib /\ h.b = e /\ h.r = g.r /\ h.x = g.x /\ h.v = g.v
      /\ h.suffix = g.suffix
  BY <1>1, <1>3 DEF OperandFields
<1>7. OnlyIn("MODRM_RM", g, h)
  BY <1>2, <1>4, <1>5 DEF OnlyIn
<1>8. Goes(s, t, h)
  <2>1. Goes(s, SetModRmRmValue(s, r), PutRm(g, r))
    BY <1>1, RegisterGoes
  <2> QED BY <1>2, <1>3, <2>1, Zenon DEF PutRm
<1>9. Shows(h, mod, low, disp, sib, e, x)
  BY <1>1, <1>2, <1>4, <1>5 DEF Shows
<1> QED BY <1>1, <1>7, <1>8, <1>9, WrittenOn, Zenon

LEMMA BaseWrites ==
  ASSUME NEW i, NEW s, NEW mod, NEW rm, NEW disp, NEW sib, NEW b, NEW x, Written(i, s, mod, rm, disp, sib, b, x),
         NEW r \in Int, NEW low, low = r % 8, NEW e, e = Extended(r),
         NEW t, t = SetSibBaseValue(s, r), NEW n, n = [sib EXCEPT !.base = low]
  PROVE  Written(i, t, mod, rm, disp, n, e, x)
<1>1. PICK g : g = FieldsOf(s) /\ Stage(s, g) /\ g \in OperandFields /\ Shows(g, mod, rm, disp, sib, b, x)
  BY DEF Written, Stage
<1>2. PICK h : h = [g EXCEPT !.sib = n, !.b = e]
  OBVIOUS
<1>5. /\ h.sib = n /\ h.op = g.op /\ h.m = g.m /\ h.b = e /\ h.r = g.r /\ h.x = g.x /\ h.v = g.v
      /\ h.suffix = g.suffix
  BY <1>1, <1>2 DEF OperandFields
<1>7. OnlyIn("MODRM_RM", g, h)
  BY <1>5 DEF OnlyIn
<1>8. Goes(s, t, h)
  <2>1. Goes(s, SetSibBaseValue(s, r), PutBase(g, r))
    BY <1>1, RegisterGoes
  <2>2. g.sib = sib
    BY <1>1 DEF Shows
  <2> QED BY <1>2, <2>1, <2>2, Zenon DEF PutBase
<1>9. Shows(h, mod, rm, disp, n, e, x)
  BY <1>1, <1>5 DEF Shows
<1> QED BY <1>1, <1>7, <1>8, <1>9, WrittenOn, Zenon

LEMMA IndexWrites ==
  ASSUME NEW i, NEW s, NEW mod, NEW rm, NEW disp, NEW sib, NEW b, NEW x, Written(i, s, mod, rm, disp, sib, b, x),
         NEW r \in Int, NEW low, low = r % 8, NEW e, e = Extended(r),
         NEW t, t = SetSibIndexValue(s, r), NEW n, n = [sib EXCEPT !.index = low]
  PROVE  Written(i, t, mod, rm, disp, n, b, e)
<1>1. PICK g : g = FieldsOf(s) /\ Stage(s, g) /\ g \in OperandFields /\ Shows(g, mod, rm, disp, sib, b, x)
  BY DEF Written, Stage
<1>2. PICK h : h = [g EXCEPT !.sib = n, !.x = e]
  OBVIOUS
<1>5. /\ h.sib = n /\ h.op = g.op /\ h.m = g.m /\ h.b = g.b /\ h.r = g.r /\ h.x = e /\ h.v = g.v
      /\ h.suffix = g.suffix
  BY <1>1, <1>2 DEF OperandFields
<1>7. OnlyIn("MODRM_RM", g, h)
  BY <1>5 DEF OnlyIn
<1>8. Goes(s, t, h)
  <2>1. Goes(s, SetSibIndexValue(s, r), PutIndex(g, r))
    BY <1>1, RegisterGoes
  <2>2. g.sib = sib
    BY <1>1 DEF Shows
  <2> QED BY <1>2, <2>1, <2>2, Zenon DEF PutIndex
<1>9. Shows(h, mod, rm, disp, n, b, e)
  BY <1>1, <1>5 DEF Shows
<1> QED BY <1>1, <1>7, <1>8, <1>9, WrittenOn, Zenon

LEMMA SibWrites ==
  ASSUME NEW i, NEW s, NEW mod, NEW rm, NEW disp, NEW sib, NEW b, NEW x, Written(i, s, mod, rm, disp, sib, b, x),
         NEW n \in Sib, NEW t, t = WithSib(s, n)
  PROVE  Written(i, t, mod, rm, disp, n, b, x)
<1>1. PICK g : g = FieldsOf(s) /\ Stage(s, g) /\ g \in OperandFields /\ Shows(g, mod, rm, disp, sib, b, x)
  BY DEF Written, Stage
<1>2. PICK h : h = [g EXCEPT !.sib = n]
  OBVIOUS
<1>5. /\ h.sib = n /\ h.op = g.op /\ h.m = g.m /\ h.b = g.b /\ h.r = g.r /\ h.x = g.x /\ h.v = g.v
      /\ h.suffix = g.suffix
  BY <1>1, <1>2 DEF OperandFields
<1>7. OnlyIn("MODRM_RM", g, h)
  BY <1>5 DEF OnlyIn
<1>8. Goes(s, t, h)
  BY <1>1, <1>2, SibBecomes, BecomesGoes DEF Stage
<1>9. Shows(h, mod, rm, disp, n, b, x)
  BY <1>1, <1>5 DEF Shows
<1> QED BY <1>1, <1>7, <1>8, <1>9, WrittenOn, Zenon

Means(mod, rm, disp, sib, b, x, what) ==
  \A g : Shows(g, mod, rm, disp, sib, b, x) => OperandOf(g, "MODRM_RM") = what
LEMMA WrittenPuts ==
  ASSUME NEW i, NEW s, NEW mod, NEW rm, NEW disp, NEW sib, NEW b, NEW x, Written(i, s, mod, rm, disp, sib, b, x),
         NEW what, Means(mod, rm, disp, sib, b, x, what)
  PROVE  Puts(i, s, "MODRM_RM", what)
BY Zenon DEF Written, Puts, Means

LEMMA DirectPuts ==
  ASSUME NEW i, NEW f, Stage(i, f), NEW r \in 0..15
  PROVE  Puts(i, SetModRmRmOperandToRegister(i, r), "MODRM_RM", <<"register", r>>)
<1>1. PICK low \in Nat, e \in 0..1 : low = r % 8 /\ e = Extended(r) /\ low + 8 * e = r /\ r \in Int
  BY RegisterHeld
<1>2. 3 \in 0..3
  OBVIOUS
<1>3. PICK mod0, rm0, disp0, b0, x0 : \E sib \in Sib : Written(i, i, mod0, rm0, disp0, sib, b0, x0)
  BY WrittenAtFirst, Zenon
<1>4. PICK sib0 \in Sib : Written(i, i, mod0, rm0, disp0, sib0, b0, x0)
  BY <1>3
<1>5. PICK s1 : s1 = SetMode(i, 3)
  OBVIOUS
<1>6. Written(i, s1, 3, rm0, disp0, sib0, b0, x0)
  BY <1>1, <1>2, <1>4, <1>5, ModeWrites
<1>7. PICK s2 : s2 = ClearSib(s1)
  OBVIOUS
<1>8. Written(i, s2, 3, rm0, disp0, DefaultSib, b0, x0)
  BY <1>1, <1>2, <1>6, <1>7, NoSibWrites
<1>9. PICK s3 : s3 = SetModRmRmValue(s2, r)
  OBVIOUS
<1>10. Written(i, s3, 3, low, disp0, DefaultSib, e, x0)
  BY <1>1, <1>2, <1>8, <1>9, RmWrites
<1>11. PICK what : what = <<"register", r>>
  OBVIOUS
<1>12. ASSUME NEW g, Shows(g, 3, low, disp0, DefaultSib, e, x0)
      PROVE  OperandOf(g, "MODRM_RM") = what
  BY <1>1, <1>12, <1>11 DEF Shows, OperandOf, Direct
<1>13. Means(3, low, disp0, DefaultSib, e, x0, what)
  BY <1>12 DEF Means
<1>14. Puts(i, s3, "MODRM_RM", what)
  BY <1>10, <1>13, WrittenPuts, Zenon
<1> QED BY <1>5, <1>7, <1>9, <1>11, <1>14, Zenon DEF SetModRmRmOperandToRegister, Direct

\* Each of the memory setters, when it accepts.
LEMMA AbsolutePuts ==
  ASSUME NEW i, NEW f, Stage(i, f), NEW a \in Int
  PROVE  Puts(i, SetSibIndexValue(SetSibBaseValue(SetModRmRmValue(SetDisplacement(SetMode(i, 0), a), 4), 5), 4), "MODRM_RM",
              <<"absolute", a>>)
<1>1. 4 % 8 = 4 /\ 4 \in Int /\ Extended(4) = 0 /\ 5 % 8 = 5 /\ 5 \in Int /\ Extended(5) = 0 /\ 0 \in 0..3
  BY DEF Extended, Flag, kMaxX86LegacyRegisterIndex
<1>2. PICK mod0, rm0, disp0, b0, x0 : \E sib \in Sib : Written(i, i, mod0, rm0, disp0, sib, b0, x0)
  BY WrittenAtFirst, Zenon
<1>3. PICK sib0 \in Sib : Written(i, i, mod0, rm0, disp0, sib0, b0, x0)
  BY <1>2
<1>4. PICK s1 : s1 = SetMode(i, 0)
  OBVIOUS
<1>5. Written(i, s1, 0, rm0, disp0, sib0, b0, x0)
  BY <1>1, <1>3, <1>4, ModeWrites
<1>6. PICK s2 : s2 = SetDisplacement(s1, a)
  OBVIOUS
<1>7. Written(i, s2, 0, rm0, a, sib0, b0, x0)
  BY <1>1, <1>5, <1>6, DisplacementWrites
<1>8. PICK s3 : s3 = SetModRmRmValue(s2, 4)
  OBVIOUS
<1>9. Written(i, s3, 0, 4, a, sib0, 0, x0)
  BY <1>1, <1>7, <1>8, RmWrites
<1>10. PICK s4, sib4 : s4 = SetSibBaseValue(s3, 5) /\ sib4 = [sib0 EXCEPT !.base = 5]
  OBVIOUS
<1>11. Written(i, s4, 0, 4, a, sib4, 0, x0)
  BY <1>1, <1>9, <1>10, BaseWrites
<1>12. PICK s5, sib5 : s5 = SetSibIndexValue(s4, 4) /\ sib5 = [sib4 EXCEPT !.index = 4]
  OBVIOUS
<1>13. Written(i, s5, 0, 4, a, sib5, 0, 0)
  BY <1>1, <1>11, <1>12, IndexWrites
<1>14. sib5.base = 5 /\ sib5.index = 4
  BY <1>3, <1>1, <1>10, <1>12 DEF Sib
<1>15. PICK what : what = <<"absolute", a>>
  OBVIOUS
<1>16. ASSUME NEW g, Shows(g, 0, 4, a, sib5, 0, 0)
      PROVE  OperandOf(g, "MODRM_RM") = what
  BY <1>16, <1>15, <1>14 DEF Shows, OperandOf, MemoryOf, Direct
<1>17. Means(0, 4, a, sib5, 0, 0, what)
  BY <1>16 DEF Means
<1>18. Puts(i, s5, "MODRM_RM", what)
  BY <1>13, <1>17, WrittenPuts, Zenon
<1> QED BY <1>4, <1>6, <1>8, <1>10, <1>12, <1>15, <1>18, Zenon

LEMMA BasePuts ==
  ASSUME NEW i, NEW f, Stage(i, f), NEW r \in 0..15, r % 8 \notin {4, 5}
  PROVE  Puts(i, SetModRmRmValue(ClearSib(SetMode(i, 0)), r), "MODRM_RM", <<"base", r>>)
<1>1. PICK low \in Nat, e \in 0..1 : low = r % 8 /\ e = Extended(r) /\ low + 8 * e = r /\ r \in Int
  BY RegisterHeld
<1>2. 0 \in 0..3
  OBVIOUS
<1>3. PICK mod0, rm0, disp0, b0, x0 : \E sib \in Sib : Written(i, i, mod0, rm0, disp0, sib, b0, x0)
  BY WrittenAtFirst, Zenon
<1>4. PICK sib0 \in Sib : Written(i, i, mod0, rm0, disp0, sib0, b0, x0)
  BY <1>3
<1>5. PICK s1 : s1 = SetMode(i, 0)
  OBVIOUS
<1>6. Written(i, s1, 0, rm0, disp0, sib0, b0, x0)
  BY <1>1, <1>2, <1>4, <1>5, ModeWrites
<1>7. PICK s2 : s2 = ClearSib(s1)
  OBVIOUS
<1>8. Written(i, s2, 0, rm0, disp0, DefaultSib, b0, x0)
  BY <1>1, <1>2, <1>6, <1>7, NoSibWrites
<1>9. PICK s3 : s3 = SetModRmRmValue(s2, r)
  OBVIOUS
<1>10. Written(i, s3, 0, low, disp0, DefaultSib, e, x0)
  BY <1>1, <1>2, <1>8, <1>9, RmWrites
<1>11. PICK what : what = <<"base", r>>
  OBVIOUS
<1>12. ASSUME NEW g, Shows(g, 0, low, disp0, DefaultSib, e, x0)
      PROVE  OperandOf(g, "MODRM_RM") = what
  BY <1>1, <1>12, <1>11 DEF Shows, OperandOf, MemoryOf, Direct
<1>13. Means(0, low, disp0, DefaultSib, e, x0, what)
  BY <1>12 DEF Means
<1>14. Puts(i, s3, "MODRM_RM", what)
  BY <1>10, <1>13, WrittenPuts, Zenon
<1> QED BY <1>5, <1>7, <1>9, <1>11, <1>14, Zenon

LEMMA RipPuts ==
  ASSUME NEW i, NEW f, Stage(i, f), NEW a \in Int
  PROVE  Puts(i, ClearSib(SetDisplacement(SetModRmRmValue(SetMode(i, 0), 5), a)), "MODRM_RM",
              <<"rip", a>>)
<1>1. 5 % 8 = 5 /\ 5 \in Int /\ Extended(5) = 0 /\ 0 \in 0..3
  BY DEF Extended, Flag, kMaxX86LegacyRegisterIndex
<1>2. PICK mod0, rm0, disp0, b0, x0 : \E sib \in Sib : Written(i, i, mod0, rm0, disp0, sib, b0, x0)
  BY WrittenAtFirst, Zenon
<1>3. PICK sib0 \in Sib : Written(i, i, mod0, rm0, disp0, sib0, b0, x0)
  BY <1>2
<1>4. PICK s1 : s1 = SetMode(i, 0)
  OBVIOUS
<1>5. Written(i, s1, 0, rm0, disp0, sib0, b0, x0)
  BY <1>1, <1>3, <1>4, ModeWrites
<1>6. PICK s2 : s2 = SetModRmRmValue(s1, 5)
  OBVIOUS
<1>7. Written(i, s2, 0, 5, disp0, sib0, 0, x0)
  BY <1>1, <1>5, <1>6, RmWrites
<1>8. PICK s3 : s3 = SetDisplacement(s2, a)
  OBVIOUS
<1>9. Written(i, s3, 0, 5, a, sib0, 0, x0)
  BY <1>1, <1>7, <1>8, DisplacementWrites
<1>10. PICK s4 : s4 = ClearSib(s3)
  OBVIOUS
<1>11. Written(i, s4, 0, 5, a, DefaultSib, 0, x0)
  BY <1>1, <1>9, <1>10, NoSibWrites
<1>12. PICK what : what = <<"rip", a>>
  OBVIOUS
<1>13. ASSUME NEW g, Shows(g, 0, 5, a, DefaultSib, 0, x0)
      PROVE  OperandOf(g, "MODRM_RM") = what
  BY <1>13, <1>12 DEF Shows, OperandOf, MemoryOf, Direct
<1>14. Means(0, 5, a, DefaultSib, 0, x0, what)
  BY <1>13 DEF Means
<1>15. Puts(i, s4, "MODRM_RM", what)
  BY <1>11, <1>14, WrittenPuts, Zenon
<1> QED BY <1>4, <1>6, <1>8, <1>10, <1>12, <1>15, Zenon

WithBaseSib(i, r) == SetSibIndexValue(SetSibBaseValue(SetModRmRmValue(SetMode(i, 0), 4), r), 4)

LEMMA BaseSibPuts ==
  ASSUME NEW i, NEW f, Stage(i, f), NEW r \in 0..15, r \notin {5, 13}, NEW scaled, scaled = [SibOf(WithBaseSib(i, r)) EXCEPT !.scale = 0]
  PROVE  Puts(i, WithSib(WithBaseSib(i, r), scaled), "MODRM_RM", <<"base", r>>)
<1>1. PICK low \in Nat, e \in 0..1 : low = r % 8 /\ e = Extended(r) /\ low + 8 * e = r /\ r \in Int
  BY RegisterHeld
<1>2. 4 % 8 = 4 /\ 4 \in Int /\ Extended(4) = 0 /\ 0 \in 0..3 /\ r % 8 # 5
  BY DEF Extended, Flag, kMaxX86LegacyRegisterIndex
<1>3. PICK mod0, rm0, disp0, b0, x0 : \E sib \in Sib : Written(i, i, mod0, rm0, disp0, sib, b0, x0)
  BY WrittenAtFirst, Zenon
<1>4. PICK sib0 \in Sib : Written(i, i, mod0, rm0, disp0, sib0, b0, x0)
  BY <1>3
<1>5. PICK s1 : s1 = SetMode(i, 0)
  OBVIOUS
<1>6. Written(i, s1, 0, rm0, disp0, sib0, b0, x0)
  BY <1>1, <1>2, <1>4, <1>5, ModeWrites
<1>7. PICK s2 : s2 = SetModRmRmValue(s1, 4)
  OBVIOUS
<1>8. Written(i, s2, 0, 4, disp0, sib0, 0, x0)
  BY <1>1, <1>2, <1>6, <1>7, RmWrites
<1>9. PICK s3, sib3 : s3 = SetSibBaseValue(s2, r) /\ sib3 = [sib0 EXCEPT !.base = low]
  OBVIOUS
<1>10. Written(i, s3, 0, 4, disp0, sib3, e, x0)
  BY <1>1, <1>2, <1>8, <1>9, BaseWrites
<1>11. PICK s4, sib4 : s4 = SetSibIndexValue(s3, 4) /\ sib4 = [sib3 EXCEPT !.index = 4]
  OBVIOUS
<1>12. Written(i, s4, 0, 4, disp0, sib4, e, 0)
  BY <1>1, <1>2, <1>10, <1>11, IndexWrites
<1>13. PICK s5, sib5 : s5 = WithSib(s4, sib5) /\ sib5 = [sib4 EXCEPT !.scale = 0]
  OBVIOUS
<1>14. sib5.base = low /\ sib5.index = 4 /\ sib5 \in Sib
  BY <1>4, <1>1, <1>2, <1>9, <1>11, <1>13 DEF Sib
<1>15. Written(i, s5, 0, 4, disp0, sib5, e, 0)
  BY <1>1, <1>2, <1>12, <1>13, <1>14, SibWrites
<1>16. PICK what : what = <<"base", r>>
  OBVIOUS
<1>17. ASSUME NEW g, Shows(g, 0, 4, disp0, sib5, e, 0)
      PROVE  OperandOf(g, "MODRM_RM") = what
  BY <1>1, <1>2, <1>17, <1>16, <1>14 DEF Shows, OperandOf, MemoryOf, Direct
<1>18. Means(0, 4, disp0, sib5, e, 0, what)
  BY <1>17 DEF Means
<1>19. Puts(i, s5, "MODRM_RM", what)
  BY <1>15, <1>18, WrittenPuts, Zenon
<1>20. s4 = WithBaseSib(i, r)
  BY <1>5, <1>7, <1>9, <1>11, Zenon DEF WithBaseSib
<1>21. SibOf(s4) = sib4
  BY <1>12, Zenon DEF Written, Shows, FieldsOf, Fields
<1> QED BY <1>13, <1>16, <1>19, <1>20, <1>21, Zenon

LEMMA BaseAndDisplacementPuts ==
  ASSUME NEW i, NEW f, Stage(i, f), NEW r \in 0..15, r \notin {4, 12}, NEW mod \in {1, 2}, NEW disp \in Int,
         NEW stored \in Int, stored = IF mod = 1 THEN disp % 256 ELSE disp, mod = 1 => disp \in -128..127
  PROVE  Puts(i, SetModRmRmValue(ClearSib(SetDisplacement(SetMode(i, mod), stored)), r), "MODRM_RM",
              <<"base", r, disp>>)
<1>1. PICK low \in Nat, e \in 0..1 : low = r % 8 /\ e = Extended(r) /\ low + 8 * e = r /\ r \in Int
  BY RegisterHeld
<1>2. low # 4 /\ mod \in 0..3
  BY <1>1
<1>3. PICK shown : shown = (IF mod = 1 THEN SignedByte(stored % 256) ELSE stored) /\ shown = disp
  <2>1. CASE mod = 1
    <3>1. disp \in -128..127 /\ stored = disp % 256
      BY <2>1
    <3>2. SignedByte((disp % 256) % 256) = disp
      BY <3>1, SMT DEF SignedByte
    <3> QED BY <2>1, <3>1, <3>2
  <2>2. CASE mod = 2
    BY <2>2
  <2> QED BY <2>1, <2>2
<1>4. PICK mod0, rm0, disp0, b0, x0 : \E sib \in Sib : Written(i, i, mod0, rm0, disp0, sib, b0, x0)
  BY WrittenAtFirst, Zenon
<1>5. PICK sib0 \in Sib : Written(i, i, mod0, rm0, disp0, sib0, b0, x0)
  BY <1>4
<1>6. PICK s1 : s1 = SetMode(i, mod)
  OBVIOUS
<1>7. Written(i, s1, mod, rm0, disp0, sib0, b0, x0)
  BY <1>1, <1>2, <1>3, <1>5, <1>6, ModeWrites
<1>8. PICK s2 : s2 = SetDisplacement(s1, stored)
  OBVIOUS
<1>9. Written(i, s2, mod, rm0, stored, sib0, b0, x0)
  BY <1>1, <1>2, <1>3, <1>7, <1>8, DisplacementWrites
<1>10. PICK s3 : s3 = ClearSib(s2)
  OBVIOUS
<1>11. Written(i, s3, mod, rm0, stored, DefaultSib, b0, x0)
  BY <1>1, <1>2, <1>3, <1>9, <1>10, NoSibWrites
<1>12. PICK s4 : s4 = SetModRmRmValue(s3, r)
  OBVIOUS
<1>13. Written(i, s4, mod, low, stored, DefaultSib, e, x0)
  BY <1>1, <1>2, <1>3, <1>11, <1>12, RmWrites
<1>14. PICK what : what = <<"base", r, disp>>
  OBVIOUS
<1>15. ASSUME NEW g, Shows(g, mod, low, stored, DefaultSib, e, x0)
      PROVE  OperandOf(g, "MODRM_RM") = what
  <2>1. g.m.mod = mod /\ g.m.rm = low /\ g.m.disp = stored /\ g.b = e
    BY <1>15, <1>14 DEF Shows
  <2>2. g.m.mod # 0 /\ g.m.mod # Direct /\ g.m.rm # 4
    BY <1>2, <2>1 DEF Direct
  <2>3. OperandOf(g, "MODRM_RM") = MemoryOf(g)
    BY <2>2 DEF OperandOf
  <2>4. MemoryOf(g) = <<"base", low + 8 * e, shown>>
    BY <1>3, <2>1, <2>2, Zenon DEF MemoryOf
  <2> QED BY <1>15, <1>14, <1>1, <1>3, <2>3, <2>4, Zenon
<1>16. Means(mod, low, stored, DefaultSib, e, x0, what)
  BY <1>15 DEF Means
<1>17. Puts(i, s4, "MODRM_RM", what)
  BY <1>13, <1>16, WrittenPuts, Zenon
<1> QED BY <1>6, <1>8, <1>10, <1>12, <1>14, <1>17, Zenon

-----------------------------------------------------------------------------
(* The calls of the setters.                                                 *)

\* A call for an operand with the encoding enc is refused and changes nothing, or it leaves an instruction
\* without an EVEX prefix, whose fields name the operand and every other operand as before.
Suits(i, enc) == /\ i.kind # "EVEX"
                 /\ enc \in {"VEX_V", "VEX_SUFFIX"} => i.kind = "VEX"
                 /\ enc = "OPCODE" => ExtensionBit(i, "b") = 0
Writes(i, s, enc, what) == (enc # "OPCODE" => s.kind # "EVEX") /\ (Suits(i, enc) => Puts(i, s, enc, what))
Sets(i, call, enc, what) == \/ ~call.ok /\ call.inst = i
                            \/ call.ok /\ enc \in EncodedIn /\ Writes(i, call.inst, enc, what)

LEMMA Staged ==
  ASSUME NEW i \in DecodedInstruction, i.kind # "EVEX"
  PROVE  Stage(i, FieldsOf(i))
BY FieldsType DEF Stage

LEMMA NoEvexLeft ==
  ASSUME NEW i \in DecodedInstruction, NEW r \in Int
  PROVE  /\ SetModRmRmValue(i, r).kind # "EVEX" /\ SetModRmRegOperand(i, r).kind # "EVEX"
         /\ SetSibBaseValue(i, r).kind # "EVEX" /\ SetSibIndexValue(i, r).kind # "EVEX"
         /\ SetVexPrefixOperand(i, r).kind # "EVEX" /\ SetVexSuffixOperand(i, r).kind # "EVEX"
<1>1. ASSUME NEW j \in DecodedInstruction, NEW e PROVE SetExtension(j, e, r).kind # "EVEX"
  <2>1. CASE j.kind = "VEX"
    <3>1. PICK vex : SetExtension(j, e, r) = [j EXCEPT !.vex = vex]
      BY <2>1 DEF SetExtension
    <3> QED BY <2>1, <3>1 DEF DecodedInstruction
  <2>2. CASE j.kind # "VEX"
    <3>1. PICK k \in DecodedInstruction : k = MutableLegacy(j) /\ k.kind = "legacy"
      <4>1. MutableLegacy(j) \in DecodedInstruction
        BY MutableTypes
      <4>2. MutableLegacy(j).kind = "legacy"
        BY DEF MutableLegacy, DecodedInstruction
      <4> QED BY <4>1, <4>2
    <3>2. PICK leg : SetExtension(j, e, r) = [k EXCEPT !.leg = leg]
      BY <2>2, <3>1 DEF SetExtension
    <3> QED BY <3>1, <3>2 DEF DecodedInstruction
  <2> QED BY <2>1, <2>2
<1>2. PICK m \in ModRm, sib \in Sib : m = ModRmOf(i) /\ sib = SibOf(i)
  BY ModRmOfType
<1>3. PICK low \in Nat : low = r % 8
  BY ModuloType
<1>4. /\ [i EXCEPT !.modrm = <<[m EXCEPT !.rm = low]>>] \in DecodedInstruction
      /\ [i EXCEPT !.modrm = <<[m EXCEPT !.reg = low]>>] \in DecodedInstruction
  BY ModRmFields, SetModRmField
<1>5. /\ WithSib(i, [sib EXCEPT !.base = low]) \in DecodedInstruction
      /\ WithSib(i, [sib EXCEPT !.index = low]) \in DecodedInstruction
  BY SibFields, SetSibField
<1>6. SetModRmRmValue(i, r).kind # "EVEX" /\ SetModRmRegOperand(i, r).kind # "EVEX"
  BY <1>1, <1>2, <1>3, <1>4, Zenon DEF SetModRmRmValue, SetModRmRegOperand
<1>7. SetSibBaseValue(i, r).kind # "EVEX" /\ SetSibIndexValue(i, r).kind # "EVEX"
  BY <1>1, <1>2, <1>3, <1>5, Zenon DEF SetSibBaseValue, SetSibIndexValue
<1>8. SetVexPrefixOperand(i, r).kind # "EVEX" /\ SetVexSuffixOperand(i, r).kind # "EVEX"
  <2>1. PICK k \in DecodedInstruction : k = MutableVex(i) /\ k.kind = "VEX"
    <3>1. MutableVex(i) \in DecodedInstruction
      BY MutableTypes
    <3>2. MutableVex(i).kind = "VEX"
      BY DEF MutableVex, DecodedInstruction
    <3> QED BY <3>1, <3>2
  <2>2. \A vex : [k EXCEPT !.vex = vex].kind = "VEX"
    BY <2>1 DEF DecodedInstruction
  <2>3. PICK v1, v2 : SetVexPrefixOperand(i, r) = [k EXCEPT !.vex = v1] /\ SetVexSuffixOperand(i, r) = [k EXCEPT !.vex = v2]
    BY <2>1 DEF SetVexPrefixOperand, SetVexSuffixOperand
  <2> QED BY <2>2, <2>3
<1> QED BY <1>6, <1>7, <1>8

LEMMA KindKept ==
  ASSUME NEW i \in DecodedInstruction
  PROVE  ClearSib(i).kind = i.kind /\ \A disp : SetDisplacement(i, disp).kind = i.kind /\ \A sib : WithSib(i, sib).kind = i.kind
BY DEF ClearSib, SetDisplacement, WithSib, DecodedInstruction

LEMMA RegisterSets ==
  ASSUME NEW i \in DecodedInstruction, NEW ops, NEW p \in AssignableOperands(ops),
         NEW r \in -1..kMaxX86GeneralPurposeRegisterIndex
  PROVE  Sets(i, SetOperandToRegister(ops, p, r, i), ops[p].enc, <<"register", r>>)
<1>1. PICK enc : enc = ops[p].enc
  OBVIOUS
<1>2. PICK call, what : call = SetOperandToRegister(ops, p, r, i) /\ what = <<"register", r>>
  OBVIOUS
<1>3. enc \in EncodedIn \cup {"IMPLICIT", "IMMEDIATE"} /\ p \in DOMAIN ops
  BY <1>1 DEF AssignableOperands, EncodedIn
<1>4. ASSUME call = Refused(i) PROVE Sets(i, call, enc, what)
  BY <1>4 DEF Refused, Sets
<1>5. ASSUME NEW s, call = Accepted(s), enc \in EncodedIn, Writes(i, s, enc, what) PROVE Sets(i, call, enc, what)
  <2>1. call.ok /\ call.inst = s
    BY <1>5 DEF Accepted
  <2> QED BY <1>5, <2>1, Zenon DEF Sets
<1>6. CASE r = -1
  <2>1. r \notin 0..kMaxX86RegisterIndex
    BY <1>6
  <2>2. call = Refused(i)
    BY <1>2, <2>1, Zenon DEF SetOperandToRegister
  <2> QED BY <1>1, <1>2, <1>4, <2>2, Zenon
<1>7. CASE r # -1
  <2>1. r \in 0..15 /\ r \in Int /\ r \in 0..kMaxX86RegisterIndex
    BY <1>7 DEF kMaxX86GeneralPurposeRegisterIndex, kMaxX86RegisterIndex
  <2>2. ASSUME i.kind # "EVEX" PROVE Stage(i, FieldsOf(i))
    BY <2>2, Staged
  <2>3. CASE enc = "OPCODE"
    <3>1. CASE r > kMaxX86LegacyRegisterIndex
      <4>1. call = Refused(i)
        BY <1>1, <1>2, <1>3, <2>1, <2>3, <3>1, Zenon DEF SetOperandToRegister
      <4> QED BY <1>1, <1>2, <1>4, <4>1, Zenon
    <3>2. CASE ~(r > kMaxX86LegacyRegisterIndex)
      <4>1. r \in 0..7
        BY <2>1, <3>2 DEF kMaxX86LegacyRegisterIndex
      <4>2. call = Accepted(SetOpcodeOperand(i, r))
        BY <1>1, <1>2, <1>3, <2>1, <2>3, <3>2, Zenon DEF SetOperandToRegister
      <4>3. ASSUME Suits(i, "OPCODE") PROVE Puts(i, SetOpcodeOperand(i, r), "OPCODE", <<"register", r>>)
        <5>1. PICK f : f = FieldsOf(i)
          OBVIOUS
        <5>2. f.b = 0 /\ Stage(i, f)
          BY <2>2, <4>3, <5>1 DEF Suits, FieldsOf, Fields
        <5> QED BY <4>1, <5>2, OpcodePuts
      <4>4. Writes(i, SetOpcodeOperand(i, r), enc, what)
        BY <1>2, <2>3, <4>3 DEF Writes
      <4> QED BY <1>1, <1>2, <1>5, <2>3, <4>2, <4>4 DEF EncodedIn
    <3> QED BY <3>1, <3>2
  <2>4. CASE enc = "MODRM_REG"
    <3>1. call = Accepted(SetModRmRegOperand(i, r))
      BY <1>1, <1>2, <1>3, <2>1, <2>4, Zenon DEF SetOperandToRegister
    <3>2. Writes(i, SetModRmRegOperand(i, r), enc, what)
      BY <1>2, <2>1, <2>2, <2>4, NoEvexLeft, RegPuts DEF Writes, Suits
    <3> QED BY <1>1, <1>2, <1>5, <2>4, <3>1, <3>2 DEF EncodedIn
  <2>5. CASE enc = "MODRM_RM"
    <3>1. call = Accepted(SetModRmRmOperandToRegister(i, r))
      BY <1>1, <1>2, <1>3, <2>1, <2>5, Zenon DEF SetOperandToRegister
    <3>2. SetModRmRmOperandToRegister(i, r).kind # "EVEX"
      <4>1. PICK j \in DecodedInstruction : j = SetMode(i, Direct)
        BY FieldSetterTypes DEF Direct
      <4>2. PICK k \in DecodedInstruction : k = ClearSib(j)
        BY FieldSetterTypes
      <4>3. SetModRmRmValue(k, r).kind # "EVEX"
        BY <2>1, NoEvexLeft
      <4> QED BY <4>1, <4>2, <4>3 DEF SetModRmRmOperandToRegister
    <3>3. Writes(i, SetModRmRmOperandToRegister(i, r), enc, what)
      BY <1>2, <2>1, <2>2, <2>5, <3>2, DirectPuts DEF Writes, Suits
    <3> QED BY <1>1, <1>2, <1>5, <2>5, <3>1, <3>3 DEF EncodedIn
  <2>6. CASE enc = "VEX_V"
    <3>1. call = Accepted(SetVexPrefixOperand(i, r))
      BY <1>1, <1>2, <1>3, <2>1, <2>6, Zenon DEF SetOperandToRegister
    <3>2. Writes(i, SetVexPrefixOperand(i, r), enc, what)
      BY <1>2, <2>1, <2>2, <2>6, NoEvexLeft, VexPuts DEF Writes, Suits
    <3> QED BY <1>1, <1>2, <1>5, <2>6, <3>1, <3>2 DEF EncodedIn
  <2>7. CASE enc = "VEX_SUFFIX"
    <3>1. call = Accepted(SetVexSuffixOperand(i, r))
      BY <1>1, <1>2, <1>3, <2>1, <2>7, Zenon DEF SetOperandToRegister
    <3>2. Writes(i, SetVexSuffixOperand(i, r), enc, what)
      BY <1>2, <2>1, <2>2, <2>7, NoEvexLeft, VexPuts DEF Writes, Suits
    <3> QED BY <1>1, <1>2, <1>5, <2>7, <3>1, <3>2 DEF EncodedIn
  <2>8. CASE enc \in {"IMPLICIT", "IMMEDIATE"}
    <3>1. call = Refused(i)
      BY <1>1, <1>2, <1>3, <2>1, <2>8 DEF SetOperandToRegister
    <3> QED BY <1>1, <1>2, <1>4, <3>1, Zenon
  <2> QED BY <1>3, <2>3, <2>4, <2>5, <2>6, <2>7, <2>8 DEF EncodedIn
<1> QED BY <1>6, <1>7

LEMMA IfMemorySets ==
  ASSUME NEW i, NEW ops, NEW condition, NEW changed, NEW what,
         condition => Writes(i, changed, "MODRM_RM", what)
  PROVE  Sets(i, IfMemory(ops, condition, i, changed), "MODRM_RM", what)
<1>1. CASE GetMemoryOperandPosition(ops) # {} /\ condition
  <2>1. IfMemory(ops, condition, i, changed) = Accepted(changed)
    BY <1>1, Zenon DEF IfMemory
  <2>2. Accepted(changed).ok /\ Accepted(changed).inst = changed
    BY DEF Accepted
  <2>3. "MODRM_RM" \in EncodedIn /\ Writes(i, changed, "MODRM_RM", what)
    BY <1>1 DEF EncodedIn
  <2> QED BY <2>1, <2>2, <2>3, Zenon DEF Sets
<1>2. CASE ~(GetMemoryOperandPosition(ops) # {} /\ condition)
  <2>1. IfMemory(ops, condition, i, changed) = Refused(i)
    BY <1>2, Zenon DEF IfMemory
  <2>2. ~Refused(i).ok /\ Refused(i).inst = i
    BY DEF Refused
  <2> QED BY <2>1, <2>2, Zenon DEF Sets
<1> QED BY <1>1, <1>2

LEMMA WritesMemory ==
  ASSUME NEW i \in DecodedInstruction, NEW s, NEW what, s.kind # "EVEX",
         ASSUME NEW f, Stage(i, f) PROVE Puts(i, s, "MODRM_RM", what)
  PROVE  Writes(i, s, "MODRM_RM", what)
BY Staged DEF Writes, Suits

LEMMA AbsoluteSets ==
  ASSUME NEW i \in DecodedInstruction, NEW ops, NEW a \in Int
  PROVE  Sets(i, SetOperandToMemoryAbsolute(ops, a, i), "MODRM_RM", <<"absolute", a>>)
<1>1. PICK j1 \in DecodedInstruction : j1 = SetMode(i, 0)
  BY FieldSetterTypes
<1>2. PICK j2 \in DecodedInstruction : j2 = SetDisplacement(j1, a)
  BY FieldSetterTypes
<1>3. PICK j3 \in DecodedInstruction : j3 = SetModRmRmValue(j2, 4)
  BY RegisterFieldTypes
<1>4. PICK j4 \in DecodedInstruction : j4 = SetSibBaseValue(j3, 5)
  BY RegisterFieldTypes
<1>5. PICK s, what : s = SetSibIndexValue(j4, 4) /\ what = <<"absolute", a>>
  OBVIOUS
<1>6. s.kind # "EVEX"
  BY <1>5, NoEvexLeft
<1>7. ASSUME NEW f, Stage(i, f) PROVE Puts(i, s, "MODRM_RM", what)
  <2>1. Puts(i, SetSibIndexValue(SetSibBaseValue(SetModRmRmValue(SetDisplacement(SetMode(i, 0), a), 4), 5), 4),
             "MODRM_RM", <<"absolute", a>>)
    BY <1>7, AbsolutePuts
  <2> QED BY <1>1, <1>2, <1>3, <1>4, <1>5, <2>1, Zenon
<1>8. Writes(i, s, "MODRM_RM", what)
  BY <1>6, <1>7, WritesMemory
<1>9. Sets(i, IfMemory(ops, TRUE, i, s), "MODRM_RM", what)
  BY <1>8, IfMemorySets
<1>10. SetOperandToMemoryAbsolute(ops, a, i) = IfMemory(ops, TRUE, i, s)
  BY <1>1, <1>2, <1>3, <1>4, <1>5, Zenon DEF SetOperandToMemoryAbsolute
<1> QED BY <1>5, <1>9, <1>10, Zenon

LEMMA BaseSets ==
  ASSUME NEW i \in DecodedInstruction, NEW ops, NEW r
  PROVE  Sets(i, SetOperandToMemoryBase(ops, r, i), "MODRM_RM", <<"base", r>>)
<1>1. PICK j1 \in DecodedInstruction : j1 = SetMode(i, 0)
  BY FieldSetterTypes
<1>2. PICK j2 \in DecodedInstruction : j2 = ClearSib(j1)
  BY FieldSetterTypes
<1>3. PICK s, what : s = SetModRmRmValue(j2, r) /\ what = <<"base", r>>
  OBVIOUS
<1>4. ASSUME IsGeneralPurpose(r) /\ r % 8 \notin {4, 5} PROVE Writes(i, s, "MODRM_RM", what)
  <2>1. r \in 0..15 /\ r \in Int
    BY <1>4 DEF IsGeneralPurpose, kMaxX86GeneralPurposeRegisterIndex
  <2>2. s.kind # "EVEX"
    BY <1>3, <2>1, NoEvexLeft
  <2>3. ASSUME NEW f, Stage(i, f) PROVE Puts(i, s, "MODRM_RM", what)
    <3>1. Puts(i, SetModRmRmValue(ClearSib(SetMode(i, 0)), r), "MODRM_RM", <<"base", r>>)
      BY <1>4, <2>1, <2>3, BasePuts
    <3> QED BY <1>1, <1>2, <1>3, <3>1, Zenon
  <2> QED BY <2>2, <2>3, WritesMemory
<1>5. Sets(i, IfMemory(ops, IsGeneralPurpose(r) /\ r % 8 \notin {4, 5}, i, s), "MODRM_RM", what)
  BY <1>4, IfMemorySets
<1>6. SetOperandToMemoryBase(ops, r, i) = IfMemory(ops, IsGeneralPurpose(r) /\ r % 8 \notin {4, 5}, i, s)
  BY <1>1, <1>2, <1>3, Zenon DEF SetOperandToMemoryBase
<1> QED BY <1>3, <1>5, <1>6, Zenon

LEMMA BaseSibSets ==
  ASSUME NEW i \in DecodedInstruction, NEW ops, NEW r
  PROVE  Sets(i, SetOperandToMemoryBaseSib(ops, r, i), "MODRM_RM", <<"base", r>>)
<1>1. PICK set : set = WithBaseSib(i, r)
  OBVIOUS
<1>2. PICK scaled : scaled = [SibOf(set) EXCEPT !.scale = 0]
  OBVIOUS
<1>3. PICK s, what : s = WithSib(set, scaled) /\ what = <<"base", r>>
  OBVIOUS
<1>4. ASSUME IsGeneralPurpose(r) /\ r \notin {5, 13} PROVE Writes(i, s, "MODRM_RM", what)
  <2>1. r \in 0..15 /\ r \in Int
    BY <1>4 DEF IsGeneralPurpose, kMaxX86GeneralPurposeRegisterIndex
  <2>2. PICK j1 \in DecodedInstruction : j1 = SetMode(i, 0)
    BY FieldSetterTypes
  <2>3. PICK j2 \in DecodedInstruction : j2 = SetModRmRmValue(j1, 4)
    BY RegisterFieldTypes
  <2>4. PICK j3 \in DecodedInstruction : j3 = SetSibBaseValue(j2, r)
    BY <2>1, RegisterFieldTypes
  <2>5. PICK j4 \in DecodedInstruction : j4 = SetSibIndexValue(j3, 4)
    BY RegisterFieldTypes
  <2>6. j4 = set
    BY <1>1, <2>2, <2>3, <2>4, <2>5, Zenon DEF WithBaseSib
  <2>7. j4.kind # "EVEX"
    BY <2>5, NoEvexLeft
  <2>8. s.kind # "EVEX"
    BY <1>3, <2>6, <2>7, KindKept
  <2>9. ASSUME NEW f, Stage(i, f) PROVE Puts(i, s, "MODRM_RM", what)
    <3>1. scaled = [SibOf(WithBaseSib(i, r)) EXCEPT !.scale = 0]
      BY <1>1, <1>2
    <3>2. Puts(i, WithSib(WithBaseSib(i, r), scaled), "MODRM_RM", <<"base", r>>)
      BY <1>4, <2>1, <2>9, <3>1, BaseSibPuts
    <3> QED BY <1>1, <1>3, <3>2, Zenon
  <2> QED BY <2>8, <2>9, WritesMemory
<1>5. Sets(i, IfMemory(ops, IsGeneralPurpose(r) /\ r \notin {5, 13}, i, s), "MODRM_RM", what)
  BY <1>4, IfMemorySets
<1>6. SetOperandToMemoryBaseSib(ops, r, i) = IfMemory(ops, IsGeneralPurpose(r) /\ r \notin {5, 13}, i, s)
  BY <1>1, <1>2, <1>3, Zenon DEF SetOperandToMemoryBaseSib, WithBaseSib
<1> QED BY <1>3, <1>5, <1>6, Zenon

LEMMA RipSets ==
  ASSUME NEW i \in DecodedInstruction, NEW ops, NEW a \in Int
  PROVE  Sets(i, SetOperandToMemoryRelativeToRip(ops, a, i), "MODRM_RM", <<"rip", a>>)
<1>1. PICK j1 \in DecodedInstruction : j1 = SetMode(i, 0)
  BY FieldSetterTypes
<1>2. PICK j2 \in DecodedInstruction : j2 = SetModRmRmValue(j1, 5)
  BY RegisterFieldTypes
<1>3. PICK j3 \in DecodedInstruction : j3 = SetDisplacement(j2, a)
  BY FieldSetterTypes
<1>4. PICK s, what : s = ClearSib(j3) /\ what = <<"rip", a>>
  OBVIOUS
<1>5. s.kind # "EVEX"
  <2>1. j2.kind # "EVEX"
    BY <1>2, NoEvexLeft
  <2> QED BY <1>3, <1>4, <2>1, KindKept
<1>6. ASSUME NEW f, Stage(i, f) PROVE Puts(i, s, "MODRM_RM", what)
  <2>1. Puts(i, ClearSib(SetDisplacement(SetModRmRmValue(SetMode(i, 0), 5), a)), "MODRM_RM", <<"rip", a>>)
    BY <1>6, RipPuts
  <2> QED BY <1>1, <1>2, <1>3, <1>4, <2>1, Zenon
<1>7. Writes(i, s, "MODRM_RM", what)
  BY <1>5, <1>6, WritesMemory
<1>8. Sets(i, IfMemory(ops, TRUE, i, s), "MODRM_RM", what)
  BY <1>7, IfMemorySets
<1>9. SetOperandToMemoryRelativeToRip(ops, a, i) = IfMemory(ops, TRUE, i, s)
  BY <1>1, <1>2, <1>3, <1>4, Zenon DEF SetOperandToMemoryRelativeToRip
<1> QED BY <1>4, <1>8, <1>9, Zenon

LEMMA BaseAndDisplacementSets ==
  ASSUME NEW i \in DecodedInstruction, NEW ops, NEW r, NEW d \in Int, NEW bits \in {8, 32},
         bits = 8 => d \in -128..127
  PROVE  Sets(i, SetOperandToMemoryBaseAndDisplacement(ops, r, d, bits, i), "MODRM_RM", <<"base", r, d>>)
<1>1. PICK mod \in {1, 2} : mod = IF bits = 8 THEN 1 ELSE 2
  OBVIOUS
<1>2. PICK stored \in Int : stored = IF bits = 8 THEN d % 256 ELSE d
  BY ModuloType
<1>3. PICK j1 \in DecodedInstruction : j1 = SetMode(i, mod)
  BY FieldSetterTypes
<1>4. PICK j2 \in DecodedInstruction : j2 = SetDisplacement(j1, stored)
  BY FieldSetterTypes
<1>5. PICK j3 \in DecodedInstruction : j3 = ClearSib(j2)
  BY FieldSetterTypes
<1>6. PICK s, what : s = SetModRmRmValue(j3, r) /\ what = <<"base", r, d>>
  OBVIOUS
<1>7. stored = (IF mod = 1 THEN d % 256 ELSE d) /\ (mod = 1 => d \in -128..127)
  BY <1>1, <1>2
<1>8. ASSUME IsGeneralPurpose(r) /\ r \notin {4, 12} PROVE Writes(i, s, "MODRM_RM", what)
  <2>1. r \in 0..15 /\ r \in Int
    BY <1>8 DEF IsGeneralPurpose, kMaxX86GeneralPurposeRegisterIndex
  <2>2. s.kind # "EVEX"
    BY <1>6, <2>1, NoEvexLeft
  <2>3. ASSUME NEW f, Stage(i, f) PROVE Puts(i, s, "MODRM_RM", what)
    <3>1. Puts(i, SetModRmRmValue(ClearSib(SetDisplacement(SetMode(i, mod), stored)), r), "MODRM_RM", <<"base", r, d>>)
      BY <1>7, <1>8, <2>1, <2>3, BaseAndDisplacementPuts
    <3> QED BY <1>3, <1>4, <1>5, <1>6, <3>1, Zenon
  <2> QED BY <2>2, <2>3, WritesMemory
<1>9. Sets(i, IfMemory(ops, IsGeneralPurpose(r) /\ r \notin {4, 12}, i, s), "MODRM_RM", what)
  BY <1>8, IfMemorySets
<1>10. SetOperandToMemoryBaseAndDisplacement(ops, r, d, bits, i)
         = IfMemory(ops, IsGeneralPurpose(r) /\ r \notin {4, 12}, i, s)
  BY <1>1, <1>2, <1>3, <1>4, <1>5, <1>6, ZenonT(40) DEF SetOperandToMemoryBaseAndDisplacement
<1> QED BY <1>6, <1>9, <1>10, Zenon
=============================================================================
