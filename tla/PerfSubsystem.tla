---------------------------- MODULE PerfSubsystem ----------------------------
(***************************************************************************)
(* Hardware counters (src/exegesis/itineraries/perf_subsystem.{h,cc}) and  *)
(* EvaluateAssemblyString, their caller (jit_perf_evaluator.cc).           *)
(*                                                                         *)
(* Every evaluation builds a PerfSubsystem of its own.  All of them share  *)
(* libpfm, which must be initialized once and terminated after the last    *)
(* one: ScopedLibPfmInitialization counts the objects under a mutex.  The  *)
(* kernel counts for the thread whose id is getpid(): the main thread.     *)
(***************************************************************************)
EXTENDS Integers, SequencesExt, FiniteSetsExt

CONSTANTS
  Threads,
  Main,             \* the main thread of the process
  EventCategories,  \* kPerfEventCategories: the events of each category
  MaxEvaluations    \* bound: evaluations per thread

Events == UNION {Range(EventCategories[c]) : c \in DOMAIN EventCategories}

ASSUME PerfAssumption ==
  /\ Main \in Threads /\ "free" \notin Threads
  /\ MaxEvaluations \in Nat
  /\ EventCategories \in Seq(Seq(Events)) /\ EventCategories # << >>
  \* The CHECK of StartCollectingEvents, and InsertOrDie of ReadCounters.
  /\ \A c \in DOMAIN EventCategories :
       Len(EventCategories[c]) <= 4 /\ IsInjective(EventCategories[c])

VARIABLES
  libpfm,          \* is libpfm initialized? (external)
  refcount_,
  refcount_mutex_, \* the thread that holds it, or "free"
  pc,              \* where each thread is
  category,        \* the loop of EvaluateAssemblyString
  counters,        \* counter_fds_ and event_names_, with what the kernel has counted
  result,          \* the PerfResult of the evaluation: raw counts by event
  evaluations      \* how many evaluations each thread has started

perfVars == <<libpfm, refcount_, refcount_mutex_, pc, category, counters, result, evaluations>>
library == <<libpfm, refcount_, refcount_mutex_>>

NoCounts == [event \in Events |-> 0]

PerfInit ==
  /\ libpfm = FALSE
  /\ refcount_ = 0
  /\ refcount_mutex_ = "free"
  /\ pc = [t \in Threads |-> "idle"]
  /\ category = [t \in Threads |-> 0]
  /\ counters = [t \in Threads |-> << >>]
  /\ result = [t \in Threads |-> NoCounts]
  /\ evaluations = [t \in Threads |-> 0]

GoTo(t, label) == pc' = [pc EXCEPT ![t] = label]

-----------------------------------------------------------------------------
\* A plausible bug: the count is not guarded.
TakesNoLock(t) == refcount_mutex_' = "free"

\* absl::MutexLock l(&refcount_mutex_).
Lock(t) ==
  /\ refcount_mutex_ = "free"
  /\ refcount_mutex_' = t

\* ScopedLibPfmInitialization(): the first object initializes libpfm.
Construct(t) ==
  /\ pc[t] = "idle"
  /\ evaluations[t] < MaxEvaluations
  /\ Lock(t)
  /\ evaluations' = [evaluations EXCEPT ![t] = @ + 1]
  /\ result' = [result EXCEPT ![t] = NoCounts]
  /\ GoTo(t, "count in")
  /\ UNCHANGED <<libpfm, refcount_, category, counters>>

CountIn(t) ==
  /\ pc[t] = "count in"
  /\ refcount_' = refcount_ + 1
  /\ GoTo(t, IF refcount_ = 0 THEN "initialize" ELSE "unlock in")
  /\ UNCHANGED <<libpfm, refcount_mutex_, category, counters, result, evaluations>>

Initialize(t) ==
  /\ pc[t] = "initialize"
  /\ libpfm' = TRUE
  /\ GoTo(t, "unlock in")
  /\ UNCHANGED <<refcount_, refcount_mutex_, category, counters, result, evaluations>>

\* ~ScopedLibPfmInitialization(): the last object terminates libpfm.
Destroy(t) ==
  /\ pc[t] = "destroy"
  /\ Lock(t)
  /\ counters' = [counters EXCEPT ![t] = << >>]
  /\ GoTo(t, "count out")
  /\ UNCHANGED <<libpfm, refcount_, category, result, evaluations>>

CountOut(t) ==
  /\ pc[t] = "count out"
  /\ refcount_' = refcount_ - 1
  /\ GoTo(t, IF refcount_ = 1 THEN "terminate" ELSE "unlock out")
  /\ UNCHANGED <<libpfm, refcount_mutex_, category, counters, result, evaluations>>

Terminate(t) ==
  /\ pc[t] = "terminate"
  /\ libpfm' = FALSE
  /\ GoTo(t, "unlock out")
  /\ UNCHANGED <<refcount_, refcount_mutex_, category, counters, result, evaluations>>

Unlock(t) ==
  /\ pc[t] \in {"unlock in", "unlock out"}
  /\ refcount_mutex_' = "free"
  /\ GoTo(t, IF pc[t] = "unlock in" THEN "info" ELSE "idle")
  /\ UNCHANGED <<libpfm, refcount_, category, counters, result, evaluations>>

-----------------------------------------------------------------------------
\* Where a thread calls into libpfm.
UsesLibrary(t) == pc[t] \in {"info", "add events"}

\* PerfSubsystem(): the rest of the constructor asks libpfm for its PMUs
\* (Info) and looks for the one of the host.
Info(t) ==
  /\ pc[t] = "info"
  /\ category' = [category EXCEPT ![t] = 1]
  /\ GoTo(t, "clean up")
  /\ UNCHANGED <<library, counters, result, evaluations>>

\* A plausible bug: the counters of the last category stay open.
KeepsCounters(t) ==
  /\ pc[t] = "clean up"
  /\ GoTo(t, "add events")
  /\ UNCHANGED <<library, category, counters, result, evaluations>>

\* StartCollectingEvents: CleanUp, an AddEvent for each event of the category,
\* and StartCollecting once they are all open.
CleanUp(t) ==
  /\ pc[t] = "clean up"
  /\ counters' = [counters EXCEPT ![t] = << >>]
  /\ GoTo(t, "add events")
  /\ UNCHANGED <<library, category, result, evaluations>>

NextEvents(t) == EventCategories[category[t]]

AddEvents(t) ==
  /\ pc[t] = "add events"
  /\ counters' = [counters EXCEPT ![t] =
                    @ \o [i \in DOMAIN NextEvents(t) |->
                            [event |-> NextEvents(t)[i], enabled |-> FALSE, count |-> 0]]]
  /\ GoTo(t, "start")
  /\ UNCHANGED <<library, category, result, evaluations>>

StartCollecting(t) ==
  /\ pc[t] = "start"
  /\ counters' = [counters EXCEPT ![t] =
                    [i \in DOMAIN @ |-> [@[i] EXCEPT !.enabled = TRUE]]]
  /\ GoTo(t, "call")
  /\ UNCHANGED <<library, category, result, evaluations>>

\* CallOrDie: the code runs once on this thread.  Only what the main thread
\* runs is counted, by all the counters that are enabled in the process.
Call(t) ==
  /\ pc[t] = "call"
  /\ counters' =
       IF t # Main THEN counters
       ELSE [u \in Threads |->
               [i \in DOMAIN counters[u] |->
                  [counters[u][i] EXCEPT !.count = @ + (IF counters[u][i].enabled THEN 1 ELSE 0)]]]
  /\ GoTo(t, "read")
  /\ UNCHANGED <<library, category, result, evaluations>>

\* StopAndReadCounters and PerfResult::Accumulate.
StopAndReadCounters(t) ==
  /\ pc[t] = "read"
  /\ counters' = [counters EXCEPT ![t] =
                    [i \in DOMAIN @ |-> [@[i] EXCEPT !.enabled = FALSE]]]
  /\ result' = [result EXCEPT ![t] =
                  [event \in Events |->
                     @[event] + MapThenSumSet(LAMBDA i : IF counters[t][i].event = event
                                                         THEN counters[t][i].count ELSE 0,
                                              DOMAIN counters[t])]]
  /\ IF category[t] < Len(EventCategories)
     THEN category' = [category EXCEPT ![t] = @ + 1] /\ GoTo(t, "clean up")
     ELSE category' = [category EXCEPT ![t] = 0] /\ GoTo(t, "destroy")
  /\ UNCHANGED <<library, evaluations>>

PerfNext ==
  \E t \in Threads :
    \/ Construct(t) \/ CountIn(t) \/ Initialize(t)
    \/ Destroy(t) \/ CountOut(t) \/ Terminate(t) \/ Unlock(t)
    \/ Info(t) \/ CleanUp(t) \/ AddEvents(t) \/ StartCollecting(t)
    \/ Call(t) \/ StopAndReadCounters(t)

-----------------------------------------------------------------------------
\* libpfm is initialized whenever a thread calls it, however the
\* constructors and destructors of other threads are interleaved with it, and
\* it is not left initialized when no object uses it any more.
LibraryIsReady ==
  /\ \A t \in Threads : UsesLibrary(t) => libpfm
  /\ (\A t \in Threads : pc[t] = "idle") => ~libpfm /\ refcount_ = 0

\* Each event of the main thread's result counts the code once for every
\* category that lists it: nothing of an earlier category, an earlier
\* evaluation or another thread is left in it.
EveryRunIsCountedOnce ==
  pc[Main] = "destroy" =>
    \A event \in Events :
      result[Main][event] =
        Cardinality({c \in DOMAIN EventCategories : event \in Range(EventCategories[c])})

=============================================================================
