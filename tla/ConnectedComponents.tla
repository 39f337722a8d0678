------------------------ MODULE ConnectedComponents ------------------------
(***************************************************************************)
(* DenseConnectedComponentsFinder (util/graph/connected_components.cc): a  *)
(* disjoint-set forest with path compression and union by rank.            *)
(*                                                                         *)
(* A call starts, finds the roots of its nodes one after the other, a step *)
(* of a loop of FindRoot at a time, and returns.  The queries rewrite the  *)
(* forest as well.                                                         *)
(***************************************************************************)
EXTENDS Integers, Sequences, FiniteSets

CONSTANT MaxNodes   \* bound: how many nodes the graph may have

ASSUME MaxNodesAssumption == MaxNodes \in Nat

\* The integers that callers pass to queries: nodes that exist, and others.
Asked == -1 .. MaxNodes - 1

VARIABLES
  numNodes,           \* parent_.size()
  parent,             \* parent_
  componentSize,      \* component_size_
  rank,               \* rank_
  numComponents,      \* num_components_
  roots,              \* roots_
  numNodesAtLastGet,  \* num_nodes_at_last_get_roots_call_
  pc,                 \* "idle", "next", "search" or "compress"
  op, args,           \* the call that runs
  nodes,              \* the nodes whose roots it finds
  found,              \* the roots that it has found so far
  kept,               \* the nodes among them that are their own roots, which
                      \* GetComponentRoots leaves in roots_
  node, root,         \* locals of FindRoot
  class,              \* history: the component of each node, from the edges
  result              \* history: the call that returned last and its answer

forestVars == <<numNodes, parent, componentSize, rank, numComponents, class>>
rootsVars == <<roots, numNodesAtLastGet>>
callVars == <<op, args, nodes>>
findVars == <<found, kept, node, root>>
vars == <<forestVars, rootsVars, pc, callVars, findVars, result>>

Nodes == 0 .. numNodes - 1

Returned(name, arguments, answer) ==
  [op |-> name, args |-> arguments, answer |-> answer]

NoResult == Returned("none", << >>, FALSE)

Init ==
  /\ numNodes = 0 /\ parent = << >> /\ componentSize = << >> /\ rank = << >>
  /\ numComponents = 0
  /\ roots = << >> /\ numNodesAtLastGet = 0
  /\ pc = "idle" /\ op = "none" /\ args = << >> /\ nodes = << >>
  /\ found = << >> /\ kept = << >> /\ node = 0 /\ root = 0
  /\ class = << >> /\ result = NoResult

-----------------------------------------------------------------------------
(* Calls.                                                                  *)

\* SetNumberOfNodes: each new node is a component of its own.
Grow(size) ==
  /\ numNodes' = size
  /\ parent' = [n \in 0 .. size - 1 |-> IF n \in Nodes THEN parent[n] ELSE n]
  /\ componentSize' =
       [n \in 0 .. size - 1 |-> IF n \in Nodes THEN componentSize[n] ELSE 1]
  /\ rank' = [n \in 0 .. size - 1 |-> IF n \in Nodes THEN rank[n] ELSE 0]
  /\ numComponents' = numComponents + size - numNodes
  /\ class' = [n \in 0 .. size - 1 |-> IF n \in Nodes THEN class[n] ELSE {n}]

SetNumberOfNodes ==
  /\ pc = "idle"
  /\ \E size \in numNodes + 1 .. MaxNodes : Grow(size)
  /\ result' = NoResult
  /\ UNCHANGED <<rootsVars, pc, callVars, findVars>>

\* A call that starts by finding the roots of the nodes ns.
Start(name, arguments, ns) ==
  /\ pc = "idle" /\ pc' = "next"
  /\ op' = name /\ args' = arguments /\ nodes' = ns
  /\ result' = NoResult
  /\ UNCHANGED findVars

CallAddEdge ==
  \E m, n \in 0 .. MaxNodes - 1 :
    LET minNumNodes == (IF m > n THEN m ELSE n) + 1 IN
      /\ IF minNumNodes > numNodes THEN Grow(minNumNodes)
                                   ELSE UNCHANGED forestVars
      /\ Start("AddEdge", <<m, n>>, <<m, n>>)
      /\ UNCHANGED rootsVars

CallConnected ==
  \E m, n \in Asked :
    /\ Start("Connected", <<m, n>>,
             IF {m, n} \subseteq Nodes THEN <<m, n>> ELSE << >>)
    /\ UNCHANGED <<forestVars, rootsVars>>

CallGetSize ==
  \E n \in Asked :
    /\ Start("GetSize", <<n>>, IF n \in Nodes THEN <<n>> ELSE << >>)
    /\ UNCHANGED <<forestVars, rootsVars>>

\* The nodes that were added since the last call may be roots.
CallGetComponentRoots ==
  LET candidates == roots \o [k \in 1 .. numNodes - numNodesAtLastGet |->
                                numNodesAtLastGet + k - 1] IN
    /\ Start("GetComponentRoots", << >>, candidates)
    /\ roots' = candidates
    /\ UNCHANGED <<forestVars, numNodesAtLastGet>>

CallGetComponentIds ==
  /\ Start("GetComponentIds", << >>, [k \in 1 .. numNodes |-> k - 1])
  /\ UNCHANGED <<forestVars, rootsVars>>

-----------------------------------------------------------------------------
(* FindRoot.                                                               *)

FindNext ==
  /\ pc = "next" /\ Len(found) < Len(nodes)
  /\ node' = nodes[Len(found) + 1]
  /\ root' = parent[nodes[Len(found) + 1]]
  /\ pc' = "search"
  /\ UNCHANGED <<forestVars, rootsVars, callVars, found, kept, result>>

SearchStep ==
  /\ pc = "search" /\ parent[root] # root
  /\ root' = parent[root]
  /\ UNCHANGED <<forestVars, rootsVars, pc, callVars, found, kept, node,
                 result>>

SearchEnd ==
  /\ pc = "search" /\ parent[root] = root
  /\ pc' = "compress"
  /\ UNCHANGED <<forestVars, rootsVars, callVars, findVars, result>>

CompressStep ==
  /\ pc = "compress" /\ node # root
  /\ parent' = [parent EXCEPT ![node] = root]
  /\ node' = parent[node]
  /\ UNCHANGED <<numNodes, componentSize, rank, numComponents, class, rootsVars,
                 pc, callVars, found, kept, root, result>>

CompressEnd ==
  /\ pc = "compress" /\ node = root
  /\ found' = Append(found, root)
  /\ kept' = IF root = nodes[Len(found) + 1] THEN Append(kept, root) ELSE kept
  /\ pc' = "next"
  /\ UNCHANGED <<forestVars, rootsVars, callVars, node, root, result>>

-----------------------------------------------------------------------------
(* Returns.                                                                *)

\* The call returns, and its locals are gone.
Return(name, answer) ==
  /\ pc = "next" /\ op = name /\ Len(found) = Len(nodes)
  /\ pc' = "idle" /\ op' = "none" /\ args' = << >> /\ nodes' = << >>
  /\ found' = << >> /\ kept' = << >> /\ node' = 0 /\ root' = 0
  /\ result' = Returned(name, args, answer)

\* History: what an edge between m and n means.
Joined(m, n) ==
  [k \in Nodes |-> IF class[k] \in {class[m], class[n]}
                   THEN class[m] \cup class[n] ELSE class[k]]

\* The root `child' is attached to the root `top'.
Attach(child, top) ==
  /\ parent' = [parent EXCEPT ![child] = top]
  /\ componentSize' =
       [componentSize EXCEPT ![top] = @ + componentSize[child]]
  /\ rank' = [rank EXCEPT ![top] = IF rank[child] = @ THEN @ + 1 ELSE @]

\* The shallowest tree is attached to the root of the deepest one.
Union(root1, root2) ==
  IF rank[root1] > rank[root2] THEN Attach(root2, root1)
                               ELSE Attach(root1, root2)

\* Mutant: the nodes are joined, and not their roots.
AddEdgeToNodes ==
  /\ Return("AddEdge", found[1] # found[2])
  /\ IF found[1] = found[2]
     THEN UNCHANGED <<parent, componentSize, rank, numComponents>>
     ELSE /\ Union(args[1], args[2])
          /\ numComponents' = numComponents - 1
  /\ class' = Joined(args[1], args[2])
  /\ UNCHANGED <<numNodes, rootsVars>>

AddEdge ==
  /\ Return("AddEdge", found[1] # found[2])
  /\ IF found[1] = found[2]
     THEN UNCHANGED <<parent, componentSize, rank, numComponents>>
     ELSE /\ Union(found[1], found[2])
          /\ numComponents' = numComponents - 1
  /\ class' = Joined(args[1], args[2])
  /\ UNCHANGED <<numNodes, rootsVars>>

Connected ==
  /\ Return("Connected", nodes # << >> /\ found[1] = found[2])
  /\ UNCHANGED <<forestVars, rootsVars>>

GetSize ==
  /\ Return("GetSize", IF nodes = << >> THEN 0 ELSE componentSize[found[1]])
  /\ UNCHANGED <<forestVars, rootsVars>>

\* Candidates that are roots no more are removed.
GetComponentRoots ==
  /\ Return("GetComponentRoots", kept)
  /\ roots' = kept
  /\ numNodesAtLastGet' = numNodes
  /\ UNCHANGED forestVars

\* What FindRoot returned for node n when all nodes are walked.
FoundRoot(n) == found[n + 1]

\* The node that has the component seen first when the nodes are walked.
FirstNode(component) ==
  CHOOSE n \in Nodes : /\ FoundRoot(n) = component
                       /\ \A k \in 0 .. n - 1 : FoundRoot(k) # component

\* Mutant: the components are numbered in the order of their roots.
ComponentIdByRoot(n) ==
  Cardinality({FoundRoot(k) : k \in Nodes} \cap (0 .. FoundRoot(n) - 1))

\* Components are numbered when they are seen first.
ComponentId(n) ==
  Cardinality({FoundRoot(k) : k \in 0 .. FirstNode(FoundRoot(n)) - 1})

GetComponentIds ==
  /\ Return("GetComponentIds", [n \in Nodes |-> ComponentId(n)])
  /\ UNCHANGED <<forestVars, rootsVars>>

-----------------------------------------------------------------------------
Running ==
  \/ FindNext \/ SearchStep \/ SearchEnd \/ CompressStep \/ CompressEnd
  \/ AddEdge \/ Connected \/ GetSize \/ GetComponentRoots \/ GetComponentIds

Next ==
  \/ SetNumberOfNodes \/ CallAddEdge \/ CallConnected \/ CallGetSize
  \/ CallGetComponentRoots \/ CallGetComponentIds
  \/ Running

Spec == Init /\ [][Next]_vars

\* A call that has started runs on.
FairSpec == Spec /\ WF_vars(Running)

-----------------------------------------------------------------------------
(* Properties.                                                             *)

Roots == {n \in Nodes : parent[n] = n}

TypeOK ==
  /\ numNodes \in 0 .. MaxNodes
  /\ parent \in [Nodes -> Nodes]
  /\ componentSize \in [Nodes -> Nat]
  /\ rank \in [Nodes -> Nat]
  /\ numComponents \in Nat
  /\ roots \in Seq(Nodes)
  /\ numNodesAtLastGet \in 0 .. numNodes
  /\ pc \in {"idle", "next", "search", "compress"}
  /\ op \in {"none", "AddEdge", "Connected", "GetSize", "GetComponentRoots",
             "GetComponentIds"}
  /\ nodes \in Seq(Nodes)
  /\ found \in Seq(Nodes) /\ Len(found) <= Len(nodes)
  /\ kept \in Seq(Nodes)
  /\ node \in Nat /\ root \in Nat
  /\ pc \in {"search", "compress"} =>
       /\ node \in Nodes /\ root \in Nodes
       /\ Len(found) < Len(nodes)
  /\ class \in [Nodes -> SUBSET Nodes]

\* At every moment, also in the middle of a compression, the trees of the
\* forest are the components of the graph: a node has its parent in its
\* component, and a component has one root.
ForestMatchesGraph ==
  /\ \A n \in Nodes : class[parent[n]] = class[n]
  /\ \A m, n \in Roots : class[m] = class[n] => m = n

\* The counts that are kept incrementally agree with the forest: the DCHECK of
\* AddEdge that there are two components to join cannot fail.
CountsMatchForest ==
  /\ numComponents = Cardinality(Roots)
  /\ \A n \in Roots : componentSize[n] = Cardinality(class[n])

\* The roots that are kept lazily are in ascending order, and miss none of the
\* nodes that existed when they were last asked for.
RootsKept ==
  /\ \A i, j \in 1 .. Len(roots) : i < j => roots[i] < roots[j]
  /\ \A n \in Roots : n < numNodesAtLastGet => \E i \in 1 .. Len(roots) : roots[i] = n

Part == INSTANCE Partition

\* Every call returns, since there is no cycle in the forest and compression,
\* which walks the path that it rewrites, runs into none; and its answer is the
\* one that the graph defines.
CallsReturn == pc # "idle" ~> pc = "idle"
ImplementsPartition == Part!Spec /\ CallsReturn

=============================================================================
