----------------------------- MODULE Partition -----------------------------
(***************************************************************************)
(* What a finder of connected components promises (connected_components.h, *)
(* in the comments of DenseConnectedComponentsFinder): a graph that only   *)
(* grows, and answers about its components as they are now.                *)
(***************************************************************************)
EXTENDS Integers, Sequences, FiniteSets

CONSTANT Asked   \* the integers that callers may ask about

VARIABLES
  numNodes,   \* the nodes are 0 .. numNodes - 1
  class,      \* the connected component of each node
  result      \* the call that returned last and its answer, until the next call

vars == <<numNodes, class, result>>

Nodes == 0 .. numNodes - 1
Components == {class[n] : n \in Nodes}

Returned(op, args, answer) ==
  [op |-> op, args |-> args, answer |-> answer]

NoResult == Returned("none", << >>, FALSE)

Init == numNodes = 0 /\ class = << >> /\ result = NoResult

\* A call starts.  If it is about nodes that are new, they are added as
\* components of their own.
Call ==
  /\ numNodes' \in Nat /\ numNodes' >= numNodes
  /\ class' = [n \in 0 .. numNodes' - 1 |-> IF n < numNodes THEN class[n]
                                                          ELSE {n}]
  /\ result' = NoResult

\* Returns true if the two nodes are newly connected.
AddEdge ==
  \E m, n \in Nodes :
    /\ class' = [k \in Nodes |-> IF class[k] \in {class[m], class[n]}
                                 THEN class[m] \cup class[n] ELSE class[k]]
    /\ result' = Returned("AddEdge", <<m, n>>, class[m] # class[n])
    /\ UNCHANGED numNodes

\* Nodes that do not exist are connected to nothing ...
Connected ==
  /\ \E m, n \in Asked :
       result' = Returned("Connected", <<m, n>>,
                          {m, n} \subseteq Nodes /\ class[m] = class[n])
  /\ UNCHANGED <<numNodes, class>>

\* ... and are in no component.
GetSize ==
  /\ \E n \in Asked :
       result' = Returned("GetSize", <<n>>,
                          IF n \in Nodes THEN Cardinality(class[n]) ELSE 0)
  /\ UNCHANGED <<numNodes, class>>

\* The roots, one of each component, in sorted order.
IsRootsOf(roots) ==
  /\ \A i, j \in 1 .. Len(roots) : i < j => roots[i] < roots[j]
  /\ Len(roots) = Cardinality(Components)
  /\ \A c \in Components : \E i \in 1 .. Len(roots) : roots[i] \in c

GetComponentRoots ==
  /\ result' = Returned("GetComponentRoots", << >>, result'.answer)
  /\ IsRootsOf(result'.answer)
  /\ UNCHANGED <<numNodes, class>>

\* "Component #0 will be the one that has node #0, component #1 the one that
\* has the lowest-index node that isn't in component #0, and so on."
GetComponentIds ==
  /\ result' = Returned("GetComponentIds", << >>,
       [n \in Nodes |-> Cardinality(
          {c \in Components : \E m \in c : \A k \in class[n] : m < k})])
  /\ UNCHANGED <<numNodes, class>>

Next ==
  \/ Call
  \/ AddEdge \/ Connected \/ GetSize \/ GetComponentRoots
  \/ GetComponentIds

Spec == Init /\ [][Next]_vars

=============================================================================
