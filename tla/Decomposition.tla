---------------------------- MODULE Decomposition ----------------------------
(***************************************************************************)
(* The decomposition of port measurements into micro-operations            *)
(* (src/exegesis/itineraries/decomposition.{h,cc}): a mixed integer        *)
(* programme finds the cheapest set of micro-operations that explains the  *)
(* measured load of every execution port, and OrderMicroOperations puts    *)
(* them into the order in which they are assumed to execute.               *)
(*                                                                         *)
(* Loads are counted in multiples of 1/Unit of a micro-operation.  The     *)
(* solver (GLPK, external) has a time limit.  It returns an optimal        *)
(* solution, any of them if there are several, or gives up: Run is the set *)
(* of the outcomes it can have.                                            *)
(***************************************************************************)
EXTENDS Integers, FiniteSets, SequencesExt

CONSTANTS
  PortMasks,         \* the port masks of the microarchitecture, a sequence of sets of ports
  LoadStoreMask,     \* index of the masks of load_store_address_generation(),
  StoreAddressMask,  \* ... of store_address_generation(),
  StoreDataMask,     \* ... and of store_data()
  Unit               \* the load of one micro-operation

\* On every microarchitecture that the code knows, no address is generated on
\* the port that writes the data of a store.
ASSUME DecompositionAssumption ==
  /\ Unit \in Nat \ {0}
  /\ PortMasks \in Seq(SUBSET Nat)
  /\ \A mask \in DOMAIN PortMasks : IsFiniteSet(PortMasks[mask])
  /\ StoreDataMask \notin {LoadStoreMask, StoreAddressMask}
  /\ {LoadStoreMask, StoreAddressMask, StoreDataMask} \subseteq DOMAIN PortMasks

MaskIndices == DOMAIN PortMasks
Ports == UNION {PortMasks[mask] : mask \in MaskIndices}

SumOver(f, S) == FoldFunctionOnSet(+, 0, f, S)
MaxOver(f, S) == CHOOSE v \in {f[x] : x \in S} : \A x \in S : f[x] <= v
MinOver(f, S) == CHOOSE v \in {f[x] : x \in S} : \A x \in S : f[x] >= v

NoUops == [status |-> "error", histogram |-> [mask \in MaskIndices |-> 0],
           microOps |-> << >>, isOrderUnique |-> FALSE]

-----------------------------------------------------------------------------
(***************************************************************************)
(* The programme.  A candidate is [used, left]: the micro-operations       *)
(* placed so far, each with its mask and the load it puts on the ports of  *)
(* the mask, and the measurement that is left for error_.                  *)
(***************************************************************************)

\* How many micro-operations of a mask there are variables for: the load of
\* its ports, truncated.
MaxUopsPerMask(measurements, mask) ==
  SumOver(measurements, PortMasks[mask]) \div Unit

\* The loads a used micro-operation can have: nothing outside its mask, one
\* micro-operation in total, and no port above what was measured.
LoadsOf(mask, left) ==
  {load \in [PortMasks[mask] -> 0 .. Unit] :
     /\ SumOver(load, PortMasks[mask]) = Unit
     /\ \A port \in PortMasks[mask] : load[port] <= left[port]}

\* The variables is_used_[mask][n] in the order in which they are made.
Slots(measurements) ==
  FlattenSeq([mask \in MaskIndices |->
                [n \in 1 .. MaxUopsPerMask(measurements, mask) |-> <<mask, n>>]])

\* is_used_[mask][n+1] <= is_used_[mask][n].
MayUse(candidate, slot) ==
  Cardinality({i \in DOMAIN candidate.used : candidate.used[i].mask = slot[1]}) = slot[2] - 1

Place(candidate, slot, load) ==
  [used |-> Append(candidate.used, [mask |-> slot[1], load |-> load]),
   left |-> [port \in Ports |->
               IF port \in PortMasks[slot[1]] THEN candidate.left[port] - load[port]
               ELSE candidate.left[port]]]

\* What remains is the error: at most one micro-operation per mask, and so
\* per port.
ErrorIsBounded(left) ==
  \A mask \in MaskIndices : SumOver(left, PortMasks[mask]) <= Unit

Solutions(measurements, numUops) ==
  LET TryBoth(candidates, slot) ==
        candidates \cup
        UNION {{Place(c, slot, load) : load \in LoadsOf(slot[1], c.left)} :
                 c \in {c \in candidates : MayUse(c, slot)}}
      all == FoldLeft(TryBoth, {[used |-> << >>, left |-> measurements]},
                      Slots(measurements))
  IN {c \in all : ErrorIsBounded(c.left) /\ Len(c.used) >= numUops}

\* kPortMaskSizeWeights: the cost of a micro-operation by the size of its
\* mask.
PortMaskSizeWeight(mask) ==
  <<32, 16, 8, 4, 2, 1>>[Cardinality(PortMasks[mask])]

\* The objective: favour large masks (O1), balance the load of a
\* micro-operation over its ports (O2), keep the errors (O3) and the largest
\* of them (O4) small, and the micro-operations few (O5).
Objective(candidate) ==
  LET Weight(uop) == Unit * (PortMaskSizeWeight(uop.mask) + 1)
                     + 10000 * (MaxOver(uop.load, PortMasks[uop.mask])
                                - MinOver(uop.load, PortMasks[uop.mask]))
  IN FoldLeft(+, 0, [i \in DOMAIN candidate.used |-> Weight(candidate.used[i])])
     + 1000 * SumOver(candidate.left, Ports)
     + 1000 * MaxOver(candidate.left, Ports)

-----------------------------------------------------------------------------
(***************************************************************************)
(* OrderMicroOperations: address generations that serve no store first,    *)
(* then computations, then each store with the address generation paired   *)
(* to it.  Stores are paired with store address generations before they    *)
(* are paired with general ones.                                           *)
(***************************************************************************)
AtMost(a, b) == IF a <= b THEN a ELSE b
Repeat(n, s) == FlattenSeq([i \in 1 .. n |-> s])

ComputationMasks == MaskIndices \ {LoadStoreMask, StoreAddressMask, StoreDataMask}

OrderMicroOperations(histogram) ==
  LET addressPairs == AtMost(histogram[StoreDataMask], histogram[StoreAddressMask])
      unpaired == [histogram EXCEPT ![StoreDataMask] = @ - addressPairs,
                                    ![StoreAddressMask] = @ - addressPairs]
      loadPairs == AtMost(unpaired[StoreDataMask], unpaired[LoadStoreMask])
      rest == [unpaired EXCEPT ![StoreDataMask] = @ - loadPairs,
                               ![LoadStoreMask] = @ - loadPairs]
      reads == Repeat(rest[LoadStoreMask], <<LoadStoreMask>>)
               \o (IF StoreAddressMask = LoadStoreMask THEN << >>
                   ELSE Repeat(rest[StoreAddressMask], <<StoreAddressMask>>))
      computations ==
        FlattenSeq([mask \in MaskIndices |->
                      IF mask \in ComputationMasks THEN Repeat(rest[mask], <<mask>>)
                      ELSE << >>])
  IN [signature |-> reads \o computations
                    \o Repeat(loadPairs, <<LoadStoreMask, StoreDataMask>>)
                    \o Repeat(addressPairs, <<StoreAddressMask, StoreDataMask>>)
                    \o Repeat(rest[StoreDataMask], <<StoreDataMask>>),
      isUnique |-> Cardinality({mask \in ComputationMasks : histogram[mask] > 0}) <= 1]

-----------------------------------------------------------------------------
\* FillInResults: what is kept of a solution.  port_loads_ stays in the order
\* of the masks, signature_ is in execution order.
FillInResults(solution) ==
  LET histogram == [mask \in MaskIndices |->
                      Cardinality({i \in DOMAIN solution.used : solution.used[i].mask = mask})]
      order == OrderMicroOperations(histogram)
  IN [histogram |-> histogram,
      portLoads |-> [i \in DOMAIN solution.used |-> solution.used[i].load],
      signature |-> order.signature,
      isOrderUnique |-> order.isUnique]

\* A plausible bug: the masks are taken in the order of their loads.
MicroOpsInMaskOrder(result) ==
  LET masks == SortSeq(result.signature, <) IN
  [i \in DOMAIN masks |-> [portMask |-> PortMasks[masks[i]], latency |-> 1]]

\* GetMicroOps: the i-th micro-operation has the i-th mask of the signature,
\* and as latency the rounded sum of the i-th load.
GetMicroOps(result) ==
  [i \in DOMAIN result.signature |->
     LET load == result.portLoads[i] IN
     [portMask |-> PortMasks[result.signature[i]],
      latency |-> (2 * SumOver(load, DOMAIN load) + Unit) \div (2 * Unit)]]

kMaxNumUopsToSolve == 50

\* Run: the outcomes of solving for the measured loads, given how many
\* micro-operations have retired (rounded down).  An infeasible programme is an
\* error, and so is one that the solver has not finished within its time limit,
\* with a solution that may not be optimal (FEASIBLE) or with none (NOT_SOLVED).
Run(measurements, numUops) ==
  LET solutions == Solutions(measurements, numUops)
      best == {s \in solutions : \A t \in solutions : Objective(s) <= Objective(t)}
      Outcome(s) ==
        LET result == FillInResults(s) IN
        [status |-> "ok", histogram |-> result.histogram,
         microOps |-> GetMicroOps(result), isOrderUnique |-> result.isOrderUnique]
  IN {NoUops} \cup (IF numUops > kMaxNumUopsToSolve THEN {} ELSE {Outcome(s) : s \in best})

=============================================================================
