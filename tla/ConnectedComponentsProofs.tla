--------------------- MODULE ConnectedComponentsProofs ---------------------
(***************************************************************************)
(* Proofs about ConnectedComponents, for graphs of any size: the forest    *)
(* represents the graph (Representation), the incremental counts are right *)
(* (Counting), and the lazily kept roots are complete and in order         *)
(* (LazyRoots).                                                            *)
(*                                                                         *)
(* ForestInv is about the forest alone.  To show that compression keeps it *)
(* one has to know that the root that was found has the highest rank in    *)
(* its component, so that no rank decreases towards a root.  FindInv says  *)
(* where FindRoot is, and that the roots found before are roots still.     *)
(***************************************************************************)
EXTENDS ConnectedComponents, FiniteSetTheorems, WellFoundedInduction, TLAPS

ForestTypeOK ==
  /\ numNodes \in 0 .. MaxNodes
  /\ parent \in [Nodes -> Nodes]
  /\ componentSize \in [Nodes -> Nat]
  /\ rank \in [Nodes -> Nat]
  /\ class \in [Nodes -> SUBSET Nodes]

\* The classes are a partition of the nodes.
ClassesOK ==
  \A m, n \in Nodes : n \in class[n] /\ (m \in class[n] => class[m] = class[n])

RanksOK ==
  /\ \A n \in Nodes : parent[n] = n \/ rank[n] < rank[parent[n]]
  /\ \A n \in Nodes, r \in Roots :
       class[n] = class[r] => n = r \/ rank[n] < rank[r]

ForestInv == ForestTypeOK /\ ClassesOK /\ ForestMatchesGraph /\ RanksOK

FindTypeOK ==
  /\ roots \in Seq(Nodes)
  /\ numNodesAtLastGet \in 0 .. numNodes
  /\ pc \in {"idle", "next", "search", "compress"}
  /\ op \in {"none", "AddEdge", "Connected", "GetSize", "GetComponentRoots",
             "GetComponentIds"}
  /\ nodes \in Seq(Nodes)
  /\ found \in Seq(Nodes) /\ Len(found) <= Len(nodes)
  /\ kept \in Seq(Nodes)
  /\ node \in Nat /\ root \in Nat

FindInv ==
  /\ FindTypeOK
  /\ pc = "idle" => found = << >> /\ kept = << >>
  /\ op = "AddEdge" => Len(nodes) = 2 /\ args = nodes
  /\ \A i \in 1 .. Len(found) :
       found[i] \in Roots /\ class[found[i]] = class[nodes[i]]
  /\ pc \in {"search", "compress"} =>
       /\ node \in Nodes /\ root \in Nodes /\ Len(found) < Len(nodes)
       /\ class[node] = class[nodes[Len(found) + 1]]
       /\ class[root] = class[node]
  /\ pc = "compress" => root \in Roots

IInv == ForestInv /\ FindInv

-----------------------------------------------------------------------------
(* What may happen to the forest.                                          *)

LEMMA SameForest ==
  ASSUME UNCHANGED forestVars
  PROVE  /\ Nodes' = Nodes /\ Roots' = Roots /\ numNodes' = numNodes
         /\ class' = class /\ parent' = parent
         /\ ForestInv => ForestInv'
BY DEF forestVars, Nodes, Roots, ForestInv, ForestTypeOK, ClassesOK,
       ForestMatchesGraph, RanksOK

LEMMA Growth ==
  ASSUME ForestInv, NEW size \in numNodes .. MaxNodes, Grow(size)
  PROVE  /\ Nodes' = 0 .. size - 1 /\ Nodes \subseteq Nodes'
         /\ \A n \in Nodes : class'[n] = class[n] /\ parent'[n] = parent[n]
                             /\ componentSize'[n] = componentSize[n]
         /\ \A n \in Nodes' \ Nodes :
              class'[n] = {n} /\ parent'[n] = n /\ componentSize'[n] = 1
         /\ Roots' = Roots \cup (numNodes .. size - 1)
         /\ ForestInv'
<1> USE MaxNodesAssumption
<1>1. numNodes \in Nat /\ size \in Nat /\ numNodes <= size
  BY DEF ForestInv, ForestTypeOK
<1>2. Nodes' = 0 .. size - 1 /\ Nodes \subseteq Nodes'
      /\ Nodes' \ Nodes = numNodes .. size - 1
  BY <1>1 DEF Grow, Nodes
<1>3. /\ \A n \in Nodes : class'[n] = class[n] /\ parent'[n] = parent[n]
                          /\ rank'[n] = rank[n]
                          /\ componentSize'[n] = componentSize[n]
      /\ \A n \in Nodes' \ Nodes : class'[n] = {n} /\ parent'[n] = n
                                   /\ componentSize'[n] = 1 /\ rank'[n] = 0
  BY <1>2 DEF Grow
<1>4. /\ \A n \in Nodes : parent[n] \in Nodes /\ class[n] \subseteq Nodes
                          /\ rank[n] \in Nat /\ componentSize[n] \in Nat
      /\ ClassesOK
  BY DEF ForestInv, ForestTypeOK
<1>5. Roots' = Roots \cup (numNodes .. size - 1)
  BY <1>2, <1>3 DEF Roots
<1>6. ForestTypeOK'
  <2>1. numNodes' \in 0 .. MaxNodes
    BY <1>1 DEF Grow
  <2>2. /\ parent' = [n \in Nodes' |-> parent'[n]]
        /\ componentSize' = [n \in Nodes' |-> componentSize'[n]]
        /\ rank' = [n \in Nodes' |-> rank'[n]]
        /\ class' = [n \in Nodes' |-> class'[n]]
    BY <1>2 DEF Grow
  <2>3. \A n \in Nodes' : /\ parent'[n] \in Nodes' /\ componentSize'[n] \in Nat
                          /\ rank'[n] \in Nat /\ class'[n] \subseteq Nodes'
    <3> SUFFICES ASSUME NEW n \in Nodes'
                 PROVE  /\ parent'[n] \in Nodes' /\ componentSize'[n] \in Nat
                        /\ rank'[n] \in Nat /\ class'[n] \subseteq Nodes'
      OBVIOUS
    <3>1. CASE n \in Nodes
      BY <1>2, <1>3, <1>4, <3>1
    <3>2. CASE n \notin Nodes
      BY <1>3, <3>2
    <3> QED BY <3>1, <3>2
  <2> QED BY <2>1, <2>2, <2>3 DEF ForestTypeOK
<1>7. ClassesOK'
  BY <1>2, <1>3, <1>4 DEF ClassesOK
<1>8. ForestMatchesGraph'
  <2>1. \A n \in Nodes' : class'[parent'[n]] = class'[n]
    <3> SUFFICES ASSUME NEW n \in Nodes' PROVE class'[parent'[n]] = class'[n]
      OBVIOUS
    <3>1. CASE n \in Nodes
      BY <1>3, <1>4, <3>1 DEF ForestInv, ForestMatchesGraph
    <3>2. CASE n \notin Nodes
      BY <1>3, <3>2
    <3> QED BY <3>1, <3>2
  <2>2. ASSUME NEW m \in Roots', NEW n \in Roots', class'[m] = class'[n]
        PROVE  m = n
    BY <2>2, <1>2, <1>3, <1>4, <1>7
    DEF ForestInv, ForestMatchesGraph, Roots, ClassesOK
  <2> QED BY <2>1, <2>2 DEF ForestMatchesGraph
<1>9. RanksOK'
  <2>1. \A n \in Nodes' : parent'[n] = n \/ rank'[n] < rank'[parent'[n]]
    BY <1>2, <1>3, <1>4 DEF ForestInv, RanksOK
  <2>2. ASSUME NEW n \in Nodes', NEW r \in Roots', class'[n] = class'[r]
        PROVE  n = r \/ rank'[n] < rank'[r]
    BY <2>2, <1>2, <1>3, <1>4, <1>7
    DEF ForestInv, RanksOK, Roots, ClassesOK
  <2> QED BY <2>1, <2>2 DEF RanksOK
<1> QED BY <1>2, <1>3, <1>5, <1>6, <1>7, <1>8, <1>9 DEF ForestInv

\* A node is attached to the root of its tree.
LEMMA Compression ==
  ASSUME ForestInv, NEW n \in Nodes, NEW r \in Roots, n # r,
         class[n] = class[r], parent' = [parent EXCEPT ![n] = r],
         UNCHANGED <<numNodes, componentSize, rank, class>>
  PROVE  Nodes' = Nodes /\ Roots' = Roots /\ ForestInv'
<1>1. Nodes' = Nodes /\ r \in Nodes /\ parent \in [Nodes -> Nodes]
  BY DEF Nodes, Roots, ForestInv, ForestTypeOK
<1>2. n \notin Roots
  BY DEF ForestInv, ForestMatchesGraph
<1>3. Roots' = Roots
  BY <1>1, <1>2 DEF Roots
<1>4. ForestTypeOK' /\ ClassesOK'
  BY <1>1 DEF ForestInv, ForestTypeOK, ClassesOK
<1>5. ForestMatchesGraph'
  BY <1>1, <1>3 DEF ForestInv, ForestMatchesGraph
<1>6. RanksOK'
  BY <1>1, <1>3 DEF ForestInv, RanksOK
<1> QED BY <1>1, <1>3, <1>4, <1>5, <1>6 DEF ForestInv

\* A root is attached to a root of no lower rank.
LEMMA Attachment ==
  ASSUME ForestInv, NEW child \in Roots, NEW top \in Roots, child # top,
         rank[child] <= rank[top], Attach(child, top),
         class' = [k \in Nodes |->
                     IF class[k] \in {class[child], class[top]}
                     THEN class[child] \cup class[top] ELSE class[k]],
         numNodes' = numNodes
  PROVE  Nodes' = Nodes /\ Roots' = Roots \ {child} /\ ForestInv'
<1> DEFINE joined == class[child] \cup class[top]
<1>1. /\ Nodes' = Nodes /\ child \in Nodes /\ top \in Nodes
      /\ parent[child] = child /\ parent[top] = top
      /\ parent \in [Nodes -> Nodes] /\ rank \in [Nodes -> Nat]
      /\ componentSize \in [Nodes -> Nat]
      /\ \A n \in Nodes : class[n] \subseteq Nodes
  BY DEF Nodes, Roots, ForestInv, ForestTypeOK
<1>2. /\ parent' \in [Nodes -> Nodes] /\ componentSize' \in [Nodes -> Nat]
      /\ rank' \in [Nodes -> Nat]
      /\ \A n \in Nodes : parent'[n] = IF n = child THEN top ELSE parent[n]
      /\ \A n \in Nodes : n # top => rank'[n] = rank[n]
      /\ rank'[top] >= rank[top] /\ rank'[top] > rank[child]
  BY <1>1 DEF Attach
<1>3. \A n \in Nodes :
        class'[n] = IF class[n] \in {class[child], class[top]}
                    THEN joined ELSE class[n]
  OBVIOUS
<1>4. class[child] # class[top]
  BY DEF ForestInv, ForestMatchesGraph
<1>5. Roots' = Roots \ {child}
  BY <1>1, <1>2 DEF Roots
<1>6. ForestTypeOK'
  BY <1>1, <1>2 DEF ForestInv, ForestTypeOK
<1>7. ClassesOK'
  <2> SUFFICES ASSUME NEW m \in Nodes, NEW n \in Nodes
               PROVE  n \in class'[n] /\ (m \in class'[n] => class'[m] = class'[n])
    BY <1>1 DEF ClassesOK
  <2>1. /\ n \in class[n] /\ (m \in class[n] => class[m] = class[n])
        /\ (m \in class[child] => class[m] = class[child])
        /\ (m \in class[top] => class[m] = class[top])
    BY <1>1 DEF ForestInv, ClassesOK
  <2> QED BY <1>3, <2>1
\* Two nodes are joined, or were in one component before.
<1>8. \A m, n \in Nodes : class'[m] = class'[n] =>
         \/ class[m] = class[n]
         \/ /\ class[m] \in {class[child], class[top]}
            /\ class[n] \in {class[child], class[top]}
  <2> SUFFICES ASSUME NEW m \in Nodes, NEW n \in Nodes, class'[m] = class'[n]
               PROVE  \/ class[m] = class[n]
                      \/ /\ class[m] \in {class[child], class[top]}
                         /\ class[n] \in {class[child], class[top]}
    OBVIOUS
  <2>1. ASSUME NEW k \in Nodes, class[k] = joined
        PROVE  class[k] = class[child]
    <3>1. child \in class[k]
      BY <1>1, <2>1 DEF ForestInv, ClassesOK
    <3> QED BY <1>1, <3>1 DEF ForestInv, ClassesOK
  <2> QED BY <1>3, <2>1
<1>9. ForestMatchesGraph'
  <2>1. \A n \in Nodes : class'[parent'[n]] = class'[n]
    <3> SUFFICES ASSUME NEW n \in Nodes PROVE class'[parent'[n]] = class'[n]
      OBVIOUS
    <3>1. class[parent[n]] = class[n] /\ parent[n] \in Nodes
      BY <1>1 DEF ForestInv, ForestMatchesGraph
    <3>2. CASE n = child
      BY <1>1, <1>2, <1>3, <3>2
    <3>3. CASE n # child
      BY <1>2, <1>3, <3>1, <3>3
    <3> QED BY <3>2, <3>3
  <2>2. ASSUME NEW m \in Roots', NEW n \in Roots', class'[m] = class'[n]
        PROVE  m = n
    <3>1. m \in Roots /\ n \in Roots /\ m \in Nodes /\ n \in Nodes
          /\ m # child /\ n # child
      BY <1>5 DEF Roots
    <3>2. class[m] # class[child] /\ class[n] # class[child]
      BY <3>1 DEF ForestInv, ForestMatchesGraph
    <3>3. class[m] = class[n]
      BY <1>8, <2>2, <3>1, <3>2
    <3> QED BY <3>1, <3>3 DEF ForestInv, ForestMatchesGraph
  <2> QED BY <1>1, <2>1, <2>2 DEF ForestMatchesGraph
<1>10. RanksOK'
  <2>1. ASSUME NEW n \in Nodes
        PROVE  parent'[n] = n \/ rank'[n] < rank'[parent'[n]]
    <3>1. CASE n = child
      BY <1>1, <1>2, <3>1
    <3>2. CASE n # child
      <4>1. parent[n] = n \/ rank[n] < rank[parent[n]]
        BY DEF ForestInv, RanksOK
      <4>2. /\ parent'[n] = parent[n] /\ parent[n] \in Nodes
            /\ rank[n] \in Nat /\ rank[parent[n]] \in Nat
            /\ rank'[parent[n]] \in Nat
        BY <1>1, <1>2, <3>2
      <4>3. n = top => parent'[n] = n
        BY <1>1, <4>2
      <4>4. rank'[parent[n]] >= rank[parent[n]]
        BY <1>1, <1>2, <4>2
      <4>5. n # top => rank'[n] = rank[n]
        BY <1>2
      <4> QED BY <4>1, <4>2, <4>3, <4>4, <4>5
    <3> QED BY <3>1, <3>2
  <2>2. ASSUME NEW n \in Nodes, NEW r \in Roots', class'[n] = class'[r]
        PROVE  n = r \/ rank'[n] < rank'[r]
    <3>1. r \in Roots /\ r \in Nodes /\ r # child
      BY <1>5 DEF Roots
    <3>2. /\ rank[n] \in Nat /\ rank[top] \in Nat /\ rank[child] \in Nat
          /\ rank'[r] \in Nat /\ rank'[top] \in Nat /\ rank[r] \in Nat
      BY <1>1, <1>2, <3>1
    <3>3. \A s \in Roots : class[n] = class[s] => n = s \/ rank[n] < rank[s]
      BY DEF ForestInv, RanksOK
    <3>4. CASE class[n] = class[r]
      <4>1. n = r \/ rank[n] < rank[r]
        BY <3>1, <3>3, <3>4
      <4>2. rank'[r] >= rank[r]
        BY <1>2, <3>1, <3>2
      <4>3. n = top => r = top
        BY <3>1, <3>4 DEF ForestInv, ForestMatchesGraph
      <4> QED BY <1>2, <3>2, <4>1, <4>2, <4>3
    <3>5. CASE class[n] # class[r]
      <4>1. class[r] \in {class[child], class[top]}
            /\ class[n] \in {class[child], class[top]}
        BY <1>8, <2>2, <3>1, <3>5
      <4>2. r = top
        BY <3>1, <4>1 DEF ForestInv, ForestMatchesGraph
      <4>3. class[n] = class[child]
        BY <3>5, <4>1, <4>2
      <4>4. n = child \/ rank[n] < rank[child]
        BY <3>3, <4>3
      <4>5. n # top
        BY <1>4, <4>3
      <4> QED BY <1>2, <3>2, <4>2, <4>4, <4>5
    <3> QED BY <3>4, <3>5
  <2> QED BY <1>1, <2>1, <2>2 DEF RanksOK
<1> QED BY <1>1, <1>5, <1>6, <1>7, <1>9, <1>10 DEF ForestInv

-----------------------------------------------------------------------------
(* Calls, FindRoot and returns.                                            *)

LEMMA InitIInv == Init => IInv
<1> SUFFICES ASSUME Init PROVE IInv
  OBVIOUS
<1> USE MaxNodesAssumption DEF Init
<1>1. Nodes = {} /\ Roots = {}
  BY DEF Nodes, Roots
<1>2. DOMAIN << >> = {}
  OBVIOUS
<1>3. ForestTypeOK
  BY <1>1, <1>2 DEF ForestTypeOK
<1>4. ClassesOK /\ ForestMatchesGraph /\ RanksOK
  BY <1>1 DEF ClassesOK, ForestMatchesGraph, RanksOK
<1>5. << >> \in Seq(Nodes) /\ Len(<< >>) = 0
  OBVIOUS
<1>6. FindInv
  BY <1>5 DEF FindInv, FindTypeOK
<1> QED BY <1>3, <1>4, <1>6 DEF IInv, ForestInv

\* A call starts, after which the forest may have grown.
LEMMA Starting ==
  ASSUME IInv, NEW name, NEW arguments, NEW ns, Start(name, arguments, ns),
         name \in {"AddEdge", "Connected", "GetSize", "GetComponentRoots",
                   "GetComponentIds"},
         name = "AddEdge" => Len(ns) = 2 /\ arguments = ns,
         ForestInv', numNodes' >= numNodes, ns \in Seq(Nodes'),
         roots' \in Seq(Nodes'), numNodesAtLastGet' = numNodesAtLastGet
  PROVE  IInv'
<1>1. numNodes \in Nat /\ numNodes' \in Nat
  BY DEF IInv, ForestInv, ForestTypeOK
<1>2. found' = << >> /\ kept' = << >> /\ pc' = "next" /\ Len(found') = 0
  BY DEF Start, findVars, IInv, FindInv
<1>3. found' \in Seq(Nodes') /\ kept' \in Seq(Nodes') /\ Len(found') <= Len(ns)
  BY <1>2
<1>4. numNodesAtLastGet' \in 0 .. numNodes'
  BY <1>1 DEF IInv, FindInv, FindTypeOK
<1>5. FindTypeOK'
  BY <1>2, <1>3, <1>4 DEF IInv, FindInv, FindTypeOK, Start, findVars
<1>6. FindInv'
  BY <1>2, <1>5 DEF FindInv, Start
<1> QED BY <1>6 DEF IInv

\* A step of FindRoot, or none at all.
LEMMA Finding ==
  ASSUME IInv, ForestInv', Nodes' = Nodes, numNodes' = numNodes,
         Roots' = Roots, class' = class,
         UNCHANGED <<rootsVars, callVars>>,
         FindTypeOK',
         pc' # "idle" \/ UNCHANGED <<pc, findVars>>,
         \A i \in 1 .. Len(found') :
           found'[i] \in Roots /\ class[found'[i]] = class[nodes[i]],
         pc' \in {"search", "compress"} =>
           /\ node' \in Nodes /\ root' \in Nodes /\ Len(found') < Len(nodes)
           /\ class[node'] = class[nodes[Len(found') + 1]]
           /\ class[root'] = class[node'],
         pc' = "compress" => root' \in Roots
  PROVE  IInv'
BY DEF IInv, FindInv, rootsVars, callVars, findVars

LEMMA FindNextKeeps == IInv /\ FindNext => IInv'
<1> SUFFICES ASSUME IInv, FindNext PROVE IInv'
  OBVIOUS
<1> USE DEF FindNext, IInv
<1>1. /\ Nodes' = Nodes /\ Roots' = Roots /\ numNodes' = numNodes
      /\ class' = class /\ ForestInv'
  BY SameForest
<1>2. Len(found) + 1 \in 1 .. Len(nodes) /\ nodes[Len(found) + 1] \in Nodes
  BY DEF FindInv, FindTypeOK
<1>3. node' \in Nodes /\ root' \in Nodes /\ class[root'] = class[node']
  BY <1>2 DEF ForestInv, ForestTypeOK, ForestMatchesGraph
<1>4. FindTypeOK'
  BY <1>1, <1>3 DEF FindInv, FindTypeOK, rootsVars, callVars, Nodes
<1> QED BY <1>1, <1>2, <1>3, <1>4, Finding DEF FindInv, rootsVars, callVars

LEMMA SearchStepKeeps == IInv /\ SearchStep => IInv'
<1> SUFFICES ASSUME IInv, SearchStep PROVE IInv'
  OBVIOUS
<1> USE DEF SearchStep, IInv
<1>1. /\ Nodes' = Nodes /\ Roots' = Roots /\ numNodes' = numNodes
      /\ class' = class /\ ForestInv'
  BY SameForest
<1>2. root' \in Nodes /\ class[root'] = class[root]
  BY DEF FindInv, ForestInv, ForestTypeOK, ForestMatchesGraph
<1>3. FindTypeOK'
  BY <1>1, <1>2 DEF FindInv, FindTypeOK, rootsVars, callVars, Nodes
<1> QED BY <1>1, <1>2, <1>3, Finding DEF FindInv, rootsVars, callVars

LEMMA SearchEndKeeps == IInv /\ SearchEnd => IInv'
<1> SUFFICES ASSUME IInv, SearchEnd PROVE IInv'
  OBVIOUS
<1> USE DEF SearchEnd, IInv
<1>1. /\ Nodes' = Nodes /\ Roots' = Roots /\ numNodes' = numNodes
      /\ class' = class /\ ForestInv'
  BY SameForest
<1>2. root \in Roots
  BY DEF FindInv, Roots
<1>3. FindTypeOK'
  BY <1>1 DEF FindInv, FindTypeOK, rootsVars, callVars, findVars
<1> QED BY <1>1, <1>2, <1>3, Finding DEF FindInv, rootsVars, callVars, findVars

LEMMA CompressStepKeeps == IInv /\ CompressStep => IInv'
<1> SUFFICES ASSUME IInv, CompressStep PROVE IInv'
  OBVIOUS
<1> USE DEF CompressStep, IInv
<1>1. node \in Nodes /\ root \in Roots /\ class[node] = class[root]
  BY DEF FindInv
<1>2. Nodes' = Nodes /\ Roots' = Roots /\ ForestInv'
  BY <1>1, Compression
<1>3. node' \in Nodes /\ class[node'] = class[node]
  BY <1>1 DEF ForestInv, ForestTypeOK, ForestMatchesGraph
<1>4. FindTypeOK'
  BY <1>2, <1>3 DEF FindInv, FindTypeOK, rootsVars, callVars, Nodes
<1> QED BY <1>2, <1>3, <1>4, Finding DEF FindInv, rootsVars, callVars

LEMMA CompressEndKeeps == IInv /\ CompressEnd => IInv'
<1> SUFFICES ASSUME IInv, CompressEnd PROVE IInv'
  OBVIOUS
<1> USE DEF CompressEnd, IInv
<1>1. /\ Nodes' = Nodes /\ Roots' = Roots /\ numNodes' = numNodes
      /\ class' = class /\ ForestInv'
  BY SameForest
<1>2. /\ root \in Roots /\ root \in Nodes /\ Len(found) < Len(nodes)
      /\ class[root] = class[nodes[Len(found) + 1]]
      /\ found \in Seq(Nodes) /\ kept \in Seq(Nodes) /\ nodes \in Seq(Nodes)
  BY DEF FindInv, FindTypeOK
<1>3. /\ found' \in Seq(Nodes) /\ Len(found') = Len(found) + 1
      /\ Len(found') <= Len(nodes) /\ kept' \in Seq(Nodes)
  BY <1>2
<1>4. \A i \in 1 .. Len(found') :
        found'[i] \in Roots /\ class[found'[i]] = class[nodes[i]]
  BY <1>2, <1>3 DEF FindInv
<1>5. FindTypeOK'
  BY <1>1, <1>3 DEF FindInv, FindTypeOK, rootsVars, callVars
<1> QED BY <1>1, <1>3, <1>4, <1>5, Finding DEF FindInv, rootsVars, callVars

\* A call returns.
LEMMA Returning ==
  ASSUME IInv, NEW name, NEW answer, Return(name, answer),
         ForestInv', Nodes' = Nodes, numNodes' = numNodes,
         roots' \in Seq(Nodes), numNodesAtLastGet' \in 0 .. numNodes
  PROVE  IInv'
<1>1. /\ pc' = "idle" /\ op' = "none" /\ nodes' = << >> /\ found' = << >>
      /\ kept' = << >> /\ node' = 0 /\ root' = 0
  BY DEF Return
<1>2. << >> \in Seq(Nodes') /\ Len(<< >>) = 0
  OBVIOUS
<1>3. FindTypeOK'
  BY <1>1, <1>2 DEF FindTypeOK
<1> QED BY <1>1, <1>2, <1>3 DEF IInv, FindInv

\* What an added edge does to the forest.
LEMMA Joining ==
  ASSUME IInv, AddEdge
  PROVE  /\ Nodes' = Nodes /\ numNodes' = numNodes
         /\ found[1] \in Roots /\ found[2] \in Roots
         /\ class' = [k \in Nodes |->
                        IF class[k] \in {class[found[1]], class[found[2]]}
                        THEN class[found[1]] \cup class[found[2]] ELSE class[k]]
         /\ ForestInv'
<1>1. numNodes' = numNodes /\ Nodes' = Nodes
  BY DEF AddEdge, Nodes
<1>2. Len(nodes) = 2 /\ args = nodes /\ Len(found) = 2
  BY DEF AddEdge, Return, IInv, FindInv
<1>3. /\ found[1] \in Roots /\ class[found[1]] = class[args[1]]
      /\ found[2] \in Roots /\ class[found[2]] = class[args[2]]
  BY <1>2 DEF IInv, FindInv
<1>4. class' = [k \in Nodes |->
                 IF class[k] \in {class[found[1]], class[found[2]]}
                 THEN class[found[1]] \cup class[found[2]] ELSE class[k]]
  BY <1>3 DEF AddEdge, Joined
<1>5. found[1] \in Nodes /\ found[2] \in Nodes
      /\ rank[found[1]] \in Nat /\ rank[found[2]] \in Nat
  BY <1>3 DEF Roots, IInv, ForestInv, ForestTypeOK
<1>6. CASE found[1] = found[2]
  <2>1. \A k \in Nodes : class'[k] = class[k]
    BY <1>4, <1>6
  <2>2. class' = class
    BY <2>1, <1>4 DEF IInv, ForestInv, ForestTypeOK
  <2>3. UNCHANGED forestVars
    BY <1>1, <1>6, <2>2 DEF AddEdge, forestVars
  <2> QED BY <1>1, <1>3, <1>4, <2>3, SameForest DEF IInv
<1>7. CASE found[1] # found[2]
  <2>1. CASE rank[found[1]] > rank[found[2]]
    <3>1. Attach(found[2], found[1]) /\ rank[found[2]] <= rank[found[1]]
      BY <1>5, <1>7, <2>1 DEF AddEdge, Union
    <3>2. class' = [k \in Nodes |->
                     IF class[k] \in {class[found[2]], class[found[1]]}
                     THEN class[found[2]] \cup class[found[1]] ELSE class[k]]
      <4>1. /\ {class[found[2]], class[found[1]]} = {class[found[1]], class[found[2]]}
            /\ class[found[2]] \cup class[found[1]] = class[found[1]] \cup class[found[2]]
        OBVIOUS
      <4> QED BY <1>4, <4>1
    <3> QED BY <1>1, <1>3, <1>4, <1>7, <3>1, <3>2, Attachment DEF IInv
  <2>2. CASE ~ (rank[found[1]] > rank[found[2]])
    <3>1. Attach(found[1], found[2]) /\ rank[found[1]] <= rank[found[2]]
      BY <1>5, <1>7, <2>2 DEF AddEdge, Union
    <3> QED BY <1>1, <1>3, <1>4, <1>7, <3>1, Attachment DEF IInv
  <2> QED BY <2>1, <2>2
<1> QED BY <1>6, <1>7

-----------------------------------------------------------------------------
(* Every step preserves the invariant.                                     *)

\* The nodes stay nodes.
LEMMA NodesRemain ==
  ASSUME IInv, NEW s \in Seq(Nodes), Nodes \subseteq Nodes'
  PROVE  s \in Seq(Nodes')
OBVIOUS

LEMMA SetNumberOfNodesKeeps == IInv /\ SetNumberOfNodes => IInv'
<1> SUFFICES ASSUME IInv, SetNumberOfNodes PROVE IInv'
  OBVIOUS
<1>1. PICK size \in numNodes + 1 .. MaxNodes : Grow(size)
  BY DEF SetNumberOfNodes
<1>2. size \in numNodes .. MaxNodes /\ numNodes \in Nat /\ size \in Nat
      /\ size >= numNodes
  BY MaxNodesAssumption DEF IInv, ForestInv, ForestTypeOK
<1>3. Nodes \subseteq Nodes' /\ ForestInv' /\ numNodes' = size
  BY <1>1, <1>2, Growth DEF IInv, Grow
<1>4. /\ pc' = "idle" /\ op' = op /\ nodes' = nodes /\ args' = args
      /\ found' = << >> /\ kept' = << >> /\ node' = node /\ root' = root
      /\ roots' = roots /\ numNodesAtLastGet' = numNodesAtLastGet
      /\ found' = found
  BY DEF SetNumberOfNodes, IInv, FindInv, callVars, findVars, rootsVars
<1>5. nodes \in Seq(Nodes) /\ roots \in Seq(Nodes) /\ Len(nodes) \in Nat
  BY DEF IInv, FindInv, FindTypeOK
<1>6. nodes' \in Seq(Nodes') /\ roots' \in Seq(Nodes')
  BY <1>3, <1>4, <1>5, NodesRemain
<1>7. found' \in Seq(Nodes') /\ kept' \in Seq(Nodes') /\ Len(found') = 0
  BY <1>4
<1>8. FindTypeOK'
  BY <1>2, <1>3, <1>4, <1>5, <1>6, <1>7 DEF IInv, FindInv, FindTypeOK
<1> QED BY <1>3, <1>4, <1>7, <1>8 DEF IInv, FindInv

LEMMA CallAddEdgeKeeps == IInv /\ CallAddEdge => IInv'
<1> SUFFICES ASSUME IInv, CallAddEdge PROVE IInv'
  OBVIOUS
<1>1. PICK m, n \in 0 .. MaxNodes - 1 :
        /\ IF (IF m > n THEN m ELSE n) + 1 > numNodes
           THEN Grow((IF m > n THEN m ELSE n) + 1) ELSE UNCHANGED forestVars
        /\ Start("AddEdge", <<m, n>>, <<m, n>>)
        /\ UNCHANGED rootsVars
  BY DEF CallAddEdge
<1>2. PICK size : size = (IF m > n THEN m ELSE n) + 1
  OBVIOUS
<1>3. numNodes \in 0 .. MaxNodes /\ size \in 1 .. MaxNodes /\ m < size /\ n < size
  BY <1>2, MaxNodesAssumption DEF IInv, ForestInv, ForestTypeOK
<1>4. /\ ForestInv' /\ numNodes' >= numNodes /\ Nodes \subseteq Nodes'
      /\ m \in Nodes' /\ n \in Nodes'
  <2>1. CASE size > numNodes
    <3>1. Grow(size) /\ size \in numNodes .. MaxNodes
      BY <1>1, <1>2, <1>3, <2>1
    <3>2. ForestInv' /\ Nodes' = 0 .. size - 1 /\ Nodes \subseteq Nodes'
      BY <3>1, Growth DEF IInv
    <3> QED BY <1>3, <2>1, <3>1, <3>2 DEF Grow
  <2>2. CASE ~ (size > numNodes)
    <3>1. UNCHANGED forestVars
      BY <1>1, <1>2, <2>2
    <3>2. ForestInv' /\ Nodes' = Nodes /\ numNodes' = numNodes
      BY <3>1, SameForest DEF IInv
    <3> QED BY <1>3, <2>2, <3>2 DEF Nodes
  <2> QED BY <2>1, <2>2
<1>5. roots' \in Seq(Nodes') /\ numNodesAtLastGet' = numNodesAtLastGet
  BY <1>1, <1>4, NodesRemain DEF IInv, FindInv, FindTypeOK, rootsVars
<1>6. <<m, n>> \in Seq(Nodes') /\ Len(<<m, n>>) = 2
  BY <1>4
<1> QED BY <1>1, <1>4, <1>5, <1>6, Starting

LEMMA QueriesKeep ==
  IInv /\ (CallConnected \/ CallGetSize \/ CallGetComponentRoots
           \/ CallGetComponentIds) => IInv'
<1> SUFFICES ASSUME IInv,
                    CallConnected \/ CallGetSize \/ CallGetComponentRoots
                      \/ CallGetComponentIds
             PROVE  IInv'
  OBVIOUS
<1>1. UNCHANGED forestVars /\ numNodesAtLastGet' = numNodesAtLastGet
  BY DEF CallConnected, CallGetSize, CallGetComponentRoots,
         CallGetComponentIds, rootsVars
<1>2. ForestInv' /\ Nodes' = Nodes /\ numNodes' = numNodes
  BY <1>1, SameForest DEF IInv
<1>3. /\ numNodes \in Nat /\ numNodesAtLastGet \in 0 .. numNodes
      /\ roots \in Seq(Nodes)
  BY DEF IInv, ForestInv, ForestTypeOK, FindInv, FindTypeOK
<1>4. CASE CallConnected
  <2>1. PICK m, n \in Asked :
          Start("Connected", <<m, n>>,
                IF {m, n} \subseteq Nodes THEN <<m, n>> ELSE << >>)
    BY <1>4 DEF CallConnected
  <2>2. PICK ns : ns = IF {m, n} \subseteq Nodes THEN <<m, n>> ELSE << >>
    OBVIOUS
  <2>3. ns \in Seq(Nodes') /\ Start("Connected", <<m, n>>, ns)
    BY <1>2, <2>1, <2>2
  <2>4. roots' = roots
    BY <1>4 DEF CallConnected, rootsVars
  <2> QED BY <1>1, <1>2, <1>3, <2>3, <2>4, Starting
<1>5. CASE CallGetSize
  <2>1. PICK n \in Asked :
          Start("GetSize", <<n>>, IF n \in Nodes THEN <<n>> ELSE << >>)
    BY <1>5 DEF CallGetSize
  <2>2. PICK ns : ns = IF n \in Nodes THEN <<n>> ELSE << >>
    OBVIOUS
  <2>3. ns \in Seq(Nodes') /\ Start("GetSize", <<n>>, ns)
    BY <1>2, <2>1, <2>2
  <2>4. roots' = roots
    BY <1>5 DEF CallGetSize, rootsVars
  <2> QED BY <1>1, <1>2, <1>3, <2>3, <2>4, Starting
<1>6. CASE CallGetComponentRoots
  <2> DEFINE new == [k \in 1 .. numNodes - numNodesAtLastGet |->
                       numNodesAtLastGet + k - 1]
             candidates == roots \o new
  <2>1. new \in Seq(Nodes)
    BY <1>3 DEF Nodes
  <2>2. candidates \in Seq(Nodes)
    BY <1>3, <2>1
  <2>3. Start("GetComponentRoots", << >>, candidates) /\ roots' = candidates
    BY <1>6 DEF CallGetComponentRoots
  <2> HIDE DEF candidates
  <2> QED BY <1>1, <1>2, <1>3, <2>2, <2>3, Starting
<1>7. CASE CallGetComponentIds
  <2> DEFINE all == [k \in 1 .. numNodes |-> k - 1]
  <2>1. all \in Seq(Nodes)
    BY <1>3 DEF Nodes
  <2>2. Start("GetComponentIds", << >>, all) /\ roots' = roots
    BY <1>7 DEF CallGetComponentIds, rootsVars
  <2> HIDE DEF all
  <2> QED BY <1>1, <1>2, <1>3, <2>1, <2>2, Starting
<1> QED BY <1>4, <1>5, <1>6, <1>7

LEMMA ReturnsKeep ==
  IInv /\ (AddEdge \/ Connected \/ GetSize \/ GetComponentRoots
           \/ GetComponentIds) => IInv'
<1> SUFFICES ASSUME IInv,
                    AddEdge \/ Connected \/ GetSize \/ GetComponentRoots
                      \/ GetComponentIds
             PROVE  IInv'
  OBVIOUS
<1>1. numNodes \in Nat /\ numNodesAtLastGet \in 0 .. numNodes
      /\ roots \in Seq(Nodes) /\ kept \in Seq(Nodes)
  BY DEF IInv, ForestInv, ForestTypeOK, FindInv, FindTypeOK
<1>2. ForestInv' /\ Nodes' = Nodes /\ numNodes' = numNodes
  <2>1. CASE AddEdge
    BY <2>1, Joining
  <2>2. CASE ~ AddEdge
    BY <2>2, SameForest
    DEF IInv, Connected, GetSize, GetComponentRoots, GetComponentIds
  <2> QED BY <2>1, <2>2
<1>3. roots' \in Seq(Nodes) /\ numNodesAtLastGet' \in 0 .. numNodes
  BY <1>1 DEF AddEdge, Connected, GetSize, GetComponentRoots, GetComponentIds,
              rootsVars
<1>4. \E name, answer : Return(name, answer)
  BY DEF AddEdge, Connected, GetSize, GetComponentRoots, GetComponentIds
<1> QED BY <1>2, <1>3, <1>4, Returning

LEMMA StutterKeeps == IInv /\ UNCHANGED vars => IInv'
<1> SUFFICES ASSUME IInv, UNCHANGED vars PROVE IInv'
  OBVIOUS
<1>1. /\ Nodes' = Nodes /\ Roots' = Roots /\ numNodes' = numNodes
      /\ class' = class /\ ForestInv'
  BY SameForest DEF vars, IInv
<1> QED BY <1>1 DEF IInv, FindInv, FindTypeOK, vars, rootsVars, callVars,
                    findVars

LEMMA NextIInv == IInv /\ [Next]_vars => IInv'
BY SetNumberOfNodesKeeps, CallAddEdgeKeeps, QueriesKeep, FindNextKeeps,
   SearchStepKeeps, SearchEndKeeps, CompressStepKeeps, CompressEndKeeps,
   ReturnsKeep, StutterKeeps
DEF Next, Running

\* The invariant holds in every reachable state.
THEOREM Invariance == Spec => []IInv
<1>1. Init => IInv
  BY InitIInv
<1>2. IInv /\ [Next]_vars => IInv'
  BY NextIInv
<1> QED BY <1>1, <1>2, PTL DEF Spec

\* In a graph of any size, the trees of the forest are the components of the
\* graph after every step of every operation.
THEOREM Representation == Spec => []ForestMatchesGraph
<1>1. IInv => ForestMatchesGraph
  BY DEF IInv, ForestInv
<1> QED BY Invariance, <1>1, PTL

-----------------------------------------------------------------------------
(* The counts.                                                             *)

LEMMA Finiteness ==
  ASSUME IInv
  PROVE  /\ IsFiniteSet(Roots) /\ Cardinality(Roots) \in Nat
         /\ \A n \in Nodes : IsFiniteSet(class[n]) /\ Cardinality(class[n]) \in Nat
<1>1. numNodes - 1 \in Int /\ 0 \in Int
  BY DEF IInv, ForestInv, ForestTypeOK
<1>2. IsFiniteSet(Nodes)
  BY <1>1, FS_Interval DEF Nodes
<1>3. Roots \in SUBSET Nodes /\ \A n \in Nodes : class[n] \in SUBSET Nodes
  BY DEF Roots, IInv, ForestInv, ForestTypeOK
<1>4. \A S \in SUBSET Nodes : IsFiniteSet(S)
  BY <1>2, FS_Subset
<1> QED BY <1>3, <1>4, FS_CardinalityType

LEMMA GrowthCounts ==
  ASSUME IInv, CountsMatchForest, NEW size \in numNodes .. MaxNodes, Grow(size)
  PROVE  CountsMatchForest'
<1> DEFINE new == numNodes .. size - 1
<1>1. numNodes \in Nat /\ size \in Nat /\ numNodes <= size
  BY MaxNodesAssumption DEF IInv, ForestInv, ForestTypeOK
<1>2. IsFiniteSet(new) /\ Cardinality(new) = size - numNodes
  <2>1. numNodes \in Int /\ size - 1 \in Int
    BY <1>1
  <2>2. /\ IsFiniteSet(new)
        /\ Cardinality(new) = IF numNodes > size - 1 THEN 0
                                                    ELSE size - 1 - numNodes + 1
    BY <2>1, FS_Interval
  <2> QED BY <1>1, <2>2
<1>3. /\ Nodes' = 0 .. size - 1
      /\ \A n \in Nodes : class'[n] = class[n]
                          /\ componentSize'[n] = componentSize[n]
      /\ \A n \in Nodes' \ Nodes : class'[n] = {n} /\ componentSize'[n] = 1
      /\ Roots' = Roots \cup new
  BY Growth DEF IInv
<1>4. Roots \cap new = {}
  BY <1>1 DEF Roots, Nodes
<1>5. Cardinality(Roots') = Cardinality(Roots) + (size - numNodes)
  <2> HIDE DEF new
  <2>1. Cardinality(Roots \cup new) =
          Cardinality(Roots) + Cardinality(new) - Cardinality(Roots \cap new)
    BY <1>2, Finiteness, FS_Union
  <2>2. Cardinality(Roots \cap new) = 0
    BY <1>4, FS_EmptySet
  <2>3. Cardinality(Roots) \in Nat
    BY Finiteness
  <2> QED BY <1>1, <1>2, <1>3, <2>1, <2>2, <2>3
<1>6. numComponents' = Cardinality(Roots')
  BY <1>1, <1>5, Finiteness DEF CountsMatchForest, Grow
<1>7. ASSUME NEW n \in Roots'
      PROVE  componentSize'[n] = Cardinality(class'[n])
  <2>1. CASE n \in Roots
    BY <1>3, <2>1 DEF CountsMatchForest, Roots
  <2>2. CASE n \notin Roots
    <3>1. n \in new
      BY <1>3, <2>2
    <3>2. n \in 0 .. size - 1 /\ n \notin 0 .. numNodes - 1
      BY <1>1, <3>1
    <3>3. n \in Nodes' \ Nodes
      <4>1. Nodes = 0 .. numNodes - 1
        BY DEF Nodes
      <4> QED BY <1>3, <3>2, <4>1
    <3>4. class'[n] = {n} /\ componentSize'[n] = 1
      BY <1>3, <3>3
    <3> QED BY <3>4, FS_Singleton
  <2> QED BY <2>1, <2>2
<1> QED BY <1>6, <1>7 DEF CountsMatchForest

LEMMA AddEdgeCounts ==
  ASSUME IInv, CountsMatchForest, AddEdge
  PROVE  CountsMatchForest'
<1>1. /\ Nodes' = Nodes /\ found[1] \in Roots /\ found[2] \in Roots
      /\ class' = [k \in Nodes |->
                     IF class[k] \in {class[found[1]], class[found[2]]}
                     THEN class[found[1]] \cup class[found[2]] ELSE class[k]]
  BY Joining
<1>2. CASE found[1] = found[2]
  <2>1. \A n \in Nodes : class'[n] = class[n]
    BY <1>1, <1>2
  <2>2. Roots' = Roots /\ componentSize' = componentSize
        /\ numComponents' = numComponents
    BY <1>1, <1>2 DEF AddEdge, Roots
  <2> QED BY <2>1, <2>2 DEF CountsMatchForest, Roots
<1>3. ASSUME NEW child \in Roots, NEW top \in Roots, child # top,
             rank[child] <= rank[top], Attach(child, top),
             class' = [k \in Nodes |->
                        IF class[k] \in {class[child], class[top]}
                        THEN class[child] \cup class[top] ELSE class[k]],
             numNodes' = numNodes, numComponents' = numComponents - 1
      PROVE  CountsMatchForest'
  <2>1. Roots' = Roots \ {child}
    BY <1>3, Attachment DEF IInv
  <2>2. numComponents' = Cardinality(Roots')
    <3>1. Cardinality(Roots \ {child}) = Cardinality(Roots) - 1
      BY Finiteness, FS_RemoveElement
    <3> QED BY <1>3, <2>1, <3>1 DEF CountsMatchForest
  <2>3. ASSUME NEW n \in Roots'
        PROVE  componentSize'[n] = Cardinality(class'[n])
    <3>1. n \in Roots /\ n # child /\ n \in Nodes /\ top \in Nodes /\ child \in Nodes
      BY <2>1 DEF Roots
    <3>2. CASE n = top
      <4>1. class[child] \cap class[top] = {}
        <5> SUFFICES ASSUME NEW k, k \in class[child], k \in class[top]
                     PROVE  FALSE
          OBVIOUS
        <5>1. k \in Nodes
          BY <3>1 DEF IInv, ForestInv, ForestTypeOK
        <5>2. class[k] = class[child] /\ class[k] = class[top]
          BY <3>1, <5>1 DEF IInv, ForestInv, ClassesOK
        <5> QED BY <1>3, <5>2 DEF IInv, ForestInv, ForestMatchesGraph
      <4>2. Cardinality(class[child] \cup class[top]) =
              Cardinality(class[child]) + Cardinality(class[top])
              - Cardinality(class[child] \cap class[top])
        BY <3>1, Finiteness, FS_Union
      <4>3. Cardinality(class[child]) \in Nat /\ Cardinality(class[top]) \in Nat
        BY <3>1, Finiteness
      <4>4. componentSize'[top] = componentSize[top] + componentSize[child]
        BY <1>3, <3>1 DEF Attach, IInv, ForestInv, ForestTypeOK
      <4>5. /\ componentSize[top] = Cardinality(class[top])
            /\ componentSize[child] = Cardinality(class[child])
        BY <1>3 DEF CountsMatchForest
      <4>6. class'[top] = class[child] \cup class[top]
        BY <1>3, <3>1
      <4>7. Cardinality(class[child] \cap class[top]) = 0
        BY <4>1, FS_EmptySet
      <4>8. Cardinality(class[child] \cup class[top]) =
              Cardinality(class[child]) + Cardinality(class[top])
        BY <4>2, <4>3, <4>7
      <4> QED BY <3>2, <4>3, <4>4, <4>5, <4>6, <4>8
    <3>3. CASE n # top
      <4>1. class[n] # class[child] /\ class[n] # class[top]
        BY <1>3, <3>1, <3>3 DEF IInv, ForestInv, ForestMatchesGraph
      <4>2. class'[n] = class[n]
        BY <1>3, <3>1, <4>1
      <4>3. componentSize'[n] = componentSize[n]
        BY <1>3, <3>1, <3>3 DEF Attach, IInv, ForestInv, ForestTypeOK
      <4> QED BY <3>1, <4>2, <4>3 DEF CountsMatchForest
    <3> QED BY <3>2, <3>3
  <2> QED BY <2>2, <2>3 DEF CountsMatchForest
<1>4. CASE found[1] # found[2]
  <2>1. /\ numNodes' = numNodes /\ numComponents' = numComponents - 1
        /\ Union(found[1], found[2])
    BY <1>4 DEF AddEdge
  <2>2. rank[found[1]] \in Nat /\ rank[found[2]] \in Nat
    BY <1>1 DEF Roots, IInv, ForestInv, ForestTypeOK
  <2>3. CASE rank[found[1]] > rank[found[2]]
    <3>1. Attach(found[2], found[1]) /\ rank[found[2]] <= rank[found[1]]
      BY <2>1, <2>2, <2>3 DEF Union
    <3>2. /\ {class[found[2]], class[found[1]]} = {class[found[1]], class[found[2]]}
          /\ class[found[2]] \cup class[found[1]] = class[found[1]] \cup class[found[2]]
      OBVIOUS
    <3>3. class' = [k \in Nodes |->
                     IF class[k] \in {class[found[2]], class[found[1]]}
                     THEN class[found[2]] \cup class[found[1]] ELSE class[k]]
      BY <1>1, <3>2
    <3> QED BY <1>1, <1>3, <1>4, <2>1, <3>1, <3>3
  <2>4. CASE ~ (rank[found[1]] > rank[found[2]])
    <3>1. Attach(found[1], found[2]) /\ rank[found[1]] <= rank[found[2]]
      BY <2>1, <2>2, <2>4 DEF Union
    <3> QED BY <1>1, <1>3, <1>4, <2>1, <3>1
  <2> QED BY <2>3, <2>4
<1> QED BY <1>2, <1>4

\* Nothing else changes what is counted.
LEMMA OtherCounts ==
  ASSUME IInv, CountsMatchForest, UNCHANGED forestVars \/ CompressStep
  PROVE  CountsMatchForest'
<1>1. Roots' = Roots
  <2>1. CASE UNCHANGED forestVars
    BY <2>1, SameForest
  <2>2. CASE CompressStep
    <3>1. node \in Nodes /\ root \in Roots /\ class[node] = class[root]
      BY <2>2 DEF IInv, FindInv, CompressStep
    <3> QED BY <2>2, <3>1, Compression DEF CompressStep, IInv
  <2> QED BY <2>1, <2>2
<1>2. /\ numComponents' = numComponents /\ componentSize' = componentSize
      /\ class' = class
  BY DEF forestVars, CompressStep
<1> QED BY <1>1, <1>2 DEF CountsMatchForest

\* The number of components, and the size of each, are always those of the
\* graph: when two components are joined there are two.
THEOREM Counting == Spec => []CountsMatchForest
<1>1. Init => CountsMatchForest
  <2> SUFFICES ASSUME Init PROVE CountsMatchForest
    OBVIOUS
  <2>1. Nodes = {} /\ Roots = {}
    BY DEF Init, Nodes, Roots
  <2> QED BY <2>1, FS_EmptySet DEF Init, CountsMatchForest
<1>2. IInv /\ CountsMatchForest /\ [Next]_vars => CountsMatchForest'
  <2> SUFFICES ASSUME IInv, CountsMatchForest, [Next]_vars
               PROVE  CountsMatchForest'
    OBVIOUS
  <2>1. numNodes \in 0 .. MaxNodes
    BY DEF IInv, ForestInv, ForestTypeOK
  <2>2. CASE SetNumberOfNodes
    <3>1. PICK size \in numNodes + 1 .. MaxNodes : Grow(size)
      BY <2>2 DEF SetNumberOfNodes
    <3>2. size \in numNodes .. MaxNodes
      BY <2>1, MaxNodesAssumption
    <3> QED BY <3>1, <3>2, GrowthCounts
  <2>3. CASE CallAddEdge
    <3>1. PICK m, n \in 0 .. MaxNodes - 1 :
            IF (IF m > n THEN m ELSE n) + 1 > numNodes
            THEN Grow((IF m > n THEN m ELSE n) + 1) ELSE UNCHANGED forestVars
      BY <2>3 DEF CallAddEdge
    <3>2. PICK size : size = (IF m > n THEN m ELSE n) + 1
      OBVIOUS
    <3>3. size \in 1 .. MaxNodes
      BY <3>2, MaxNodesAssumption
    <3>4. CASE size > numNodes
      <4>1. size \in numNodes .. MaxNodes /\ Grow(size)
        BY <2>1, <3>1, <3>2, <3>3, <3>4, MaxNodesAssumption
      <4> QED BY <4>1, GrowthCounts
    <3>5. CASE ~ (size > numNodes)
      BY <3>1, <3>2, <3>5, OtherCounts
    <3> QED BY <3>4, <3>5
  <2>4. CASE AddEdge
    BY <2>4, AddEdgeCounts
  <2>5. CASE CompressStep
    BY <2>5, OtherCounts
  <2>6. CASE UNCHANGED forestVars
    BY <2>6, OtherCounts
  <2> QED BY <2>2, <2>3, <2>4, <2>5, <2>6
      DEF Next, Running, CallConnected, CallGetSize, CallGetComponentRoots,
          CallGetComponentIds, FindNext, SearchStep, SearchEnd, CompressEnd,
          Connected, GetSize, GetComponentRoots, GetComponentIds, vars
<1> QED BY <1>1, <1>2, Invariance, PTL DEF Spec

\* The state is well formed. That the count of components does not become
\* negative follows from its being right.
THEOREM TypeCorrectness == Spec => []TypeOK
<1>1. IInv /\ CountsMatchForest => TypeOK
  BY Finiteness DEF IInv, ForestInv, ForestTypeOK, FindInv, FindTypeOK,
                    CountsMatchForest, TypeOK
<1> QED BY Invariance, Counting, <1>1, PTL

-----------------------------------------------------------------------------
(* The roots that are kept between calls.                                  *)

Ascending(s) == \A i, j \in 1 .. Len(s) : i < j => s[i] < s[j]
Occurs(n, s) == \E i \in 1 .. Len(s) : s[i] = n

\* While GetComponentRoots runs, all roots are candidates, and those that it
\* has looked at were kept in order.
LazyInv ==
  /\ RootsKept
  /\ op # "GetComponentRoots" =>
       \A i \in 1 .. Len(roots) : roots[i] < numNodesAtLastGet
  /\ pc = "idle" => op = "none"
  /\ op = "GetComponentRoots" =>
       /\ nodes = roots
       /\ \A n \in Roots : Occurs(n, roots)
       /\ Ascending(kept)
       /\ \A i \in 1 .. Len(kept) :
            \E k \in 1 .. Len(found) : kept[i] = nodes[k]
       /\ \A k \in 1 .. Len(found) : nodes[k] \in Roots => Occurs(nodes[k], kept)

\* Steps that neither look at a candidate nor touch roots_.
LEMMA LazyUnchanged ==
  ASSUME IInv, LazyInv, UNCHANGED <<rootsVars, callVars, found, kept>>,
         numNodes' >= numNodes, Roots' \cap Nodes \subseteq Roots,
         op = "GetComponentRoots" => Roots' = Roots,
         pc' = "idle" => pc = "idle"
  PROVE  LazyInv'
<1>1. /\ numNodes \in Nat /\ numNodesAtLastGet \in 0 .. numNodes
      /\ numNodes' >= numNodes
  BY DEF IInv, ForestInv, ForestTypeOK, FindInv, FindTypeOK
<1>2. /\ roots' = roots /\ numNodesAtLastGet' = numNodesAtLastGet /\ op' = op
      /\ nodes' = nodes /\ found' = found /\ kept' = kept
  BY DEF rootsVars, callVars
<1>3. RootsKept'
  <2>1. ASSUME NEW n \in Roots', n < numNodesAtLastGet
        PROVE  \E i \in 1 .. Len(roots) : roots[i] = n
    <3>1. n \in Nat
      BY <1>1 DEF Roots, Nodes
    <3>2. n \in Nodes
      BY <1>1, <2>1, <3>1 DEF Nodes
    <3> QED BY <2>1, <3>2 DEF LazyInv, RootsKept
  <2> QED BY <1>2, <2>1 DEF LazyInv, RootsKept
<1> QED BY <1>2, <1>3 DEF LazyInv, Ascending, Occurs

\* A call that is not GetComponentRoots starts or returns.
LEMMA LazyOtherOp ==
  ASSUME IInv, LazyInv, op # "GetComponentRoots", op' # "GetComponentRoots",
         UNCHANGED rootsVars, numNodes' >= numNodes,
         Roots' \cap Nodes \subseteq Roots, pc' = "idle" => op' = "none"
  PROVE  LazyInv'
<1>1. /\ numNodes \in Nat /\ numNodesAtLastGet \in 0 .. numNodes
      /\ numNodes' >= numNodes
  BY DEF IInv, ForestInv, ForestTypeOK, FindInv, FindTypeOK
<1>2. RootsKept'
  <2>1. ASSUME NEW n \in Roots', n < numNodesAtLastGet
        PROVE  \E i \in 1 .. Len(roots) : roots[i] = n
    <3>1. n \in Nat
      BY <1>1 DEF Roots, Nodes
    <3>2. n \in Nodes
      BY <1>1, <2>1, <3>1 DEF Nodes
    <3> QED BY <2>1, <3>2 DEF LazyInv, RootsKept
  <2> QED BY <2>1 DEF LazyInv, RootsKept, rootsVars
<1> QED BY <1>2 DEF LazyInv, rootsVars

\* The nodes that were added since the last time become candidates.
LEMMA LazyCandidates ==
  ASSUME IInv, LazyInv, CallGetComponentRoots
  PROVE  LazyInv'
<1> DEFINE last == numNodesAtLastGet
           new == [k \in 1 .. numNodes - last |-> last + k - 1]
           candidates == roots \o new
<1>1. /\ numNodes \in Nat /\ last \in 0 .. numNodes /\ roots \in Seq(Nodes)
      /\ pc = "idle" /\ op = "none" /\ found = << >> /\ kept = << >>
  BY DEF IInv, ForestInv, ForestTypeOK, FindInv, FindTypeOK, LazyInv,
         CallGetComponentRoots, Start
<1>2. /\ roots' = candidates /\ nodes' = candidates /\ found' = << >>
      /\ kept' = << >> /\ numNodesAtLastGet' = last /\ UNCHANGED forestVars
      /\ op' = "GetComponentRoots" /\ pc' = "next"
  BY <1>1 DEF CallGetComponentRoots, Start, findVars
<1>3. Roots' = Roots /\ Nodes' = Nodes
  BY <1>2, SameForest
<1>4. /\ new \in Seq(Nodes) /\ Len(new) = numNodes - last
      /\ \A k \in 1 .. numNodes - last : new[k] = last + k - 1
  BY <1>1 DEF Nodes
<1> HIDE DEF new, last
<1>5. /\ candidates \in Seq(Nodes) /\ Len(roots) \in Nat
      /\ Len(candidates) = Len(roots) + (numNodes - last)
      /\ \A i \in 1 .. Len(roots) : candidates[i] = roots[i]
      /\ \A k \in 1 .. numNodes - last : candidates[Len(roots) + k] = last + k - 1
  BY <1>1, <1>4
<1>6. \A i \in 1 .. Len(roots) : roots[i] < last /\ roots[i] \in Nat
  BY <1>1 DEF LazyInv, Nodes, last
<1>7. ASSUME NEW i \in 1 .. Len(candidates), NEW j \in 1 .. Len(candidates), i < j
      PROVE  candidates[i] < candidates[j]
  <2>1. CASE j \in 1 .. Len(roots)
    <3>1. i \in 1 .. Len(roots)
      BY <1>5, <1>7, <2>1
    <3> QED BY <1>5, <1>7, <2>1, <3>1 DEF LazyInv, RootsKept
  <2>2. CASE j \notin 1 .. Len(roots)
    <3>1. PICK k \in 1 .. numNodes - last : j = Len(roots) + k
      <4>1. /\ j - Len(roots) \in 1 .. numNodes - last
            /\ j = Len(roots) + (j - Len(roots))
        BY <1>1, <1>5, <2>2 DEF last
      <4> QED BY <4>1
    <3>2. candidates[j] = last + k - 1 /\ last \in Nat /\ k \in Nat /\ k >= 1
      BY <1>1, <1>5, <3>1 DEF last
    <3>3. CASE i \in 1 .. Len(roots)
      BY <1>5, <1>6, <3>2, <3>3
    <3>4. CASE i \notin 1 .. Len(roots)
      <4>1. /\ i - Len(roots) \in 1 .. numNodes - last
            /\ i = Len(roots) + (i - Len(roots))
        BY <1>1, <1>5, <3>4 DEF last
      <4>2. candidates[i] = last + (i - Len(roots)) - 1
        BY <1>5, <4>1
      <4> QED BY <1>5, <1>7, <3>1, <3>2, <4>1, <4>2
    <3> QED BY <3>3, <3>4
  <2> QED BY <2>1, <2>2
<1>8. ASSUME NEW n \in Roots
      PROVE  Occurs(n, candidates)
  <2>1. n \in 0 .. numNodes - 1
    BY DEF Roots, Nodes
  <2>2. CASE n < last
    <3>1. PICK i \in 1 .. Len(roots) : roots[i] = n
      BY <2>2 DEF LazyInv, RootsKept, last
    <3>2. i \in 1 .. Len(candidates) /\ candidates[i] = n
      BY <1>1, <1>5, <3>1 DEF last
    <3> QED BY <3>2 DEF Occurs
  <2>3. CASE ~ (n < last)
    <3>1. n - last + 1 \in 1 .. numNodes - last
      BY <1>1, <2>1, <2>3 DEF last
    <3>2. candidates[Len(roots) + (n - last + 1)] = last + (n - last + 1) - 1
      BY <1>5, <3>1
    <3>3. /\ Len(roots) + (n - last + 1) \in 1 .. Len(candidates)
          /\ last + (n - last + 1) - 1 = n
      BY <1>1, <1>5, <2>1, <3>1 DEF last
    <3> QED BY <3>2, <3>3 DEF Occurs
  <2> QED BY <2>2, <2>3
<1> HIDE DEF candidates
<1>9. RootsKept'
  BY <1>2, <1>3, <1>7, <1>8 DEF RootsKept, Occurs
<1>10. Len(kept') = 0 /\ Len(found') = 0
  BY <1>2
<1>11. \A n \in Roots' : Occurs(n, roots')
  BY <1>2, <1>3, <1>8
<1> QED BY <1>2, <1>9, <1>10, <1>11 DEF LazyInv, Ascending, Occurs

\* A candidate is kept exactly if it is a root.
LEMMA LazyCandidateFound ==
  ASSUME IInv, LazyInv, CompressEnd, op = "GetComponentRoots"
  PROVE  LazyInv'
<1> DEFINE L == Len(found)
<1>1. /\ UNCHANGED forestVars /\ UNCHANGED rootsVars /\ UNCHANGED callVars
      /\ root \in Roots /\ class[root] = class[nodes[L + 1]]
      /\ L \in Nat /\ L < Len(nodes) /\ Len(nodes) \in Nat /\ pc' = "next"
      /\ found' = Append(found, root) /\ Len(found') = L + 1
      /\ nodes[L + 1] \in Nodes /\ kept \in Seq(Nodes)
      /\ kept' = IF root = nodes[L + 1] THEN Append(kept, root) ELSE kept
  BY DEF CompressEnd, IInv, FindInv, FindTypeOK
<1>2. Roots' = Roots
  BY <1>1, SameForest
<1>3. roots' = roots /\ nodes' = nodes /\ op' = op /\ nodes = roots
      /\ numNodesAtLastGet' = numNodesAtLastGet
  BY <1>1 DEF rootsVars, callVars, LazyInv
<1>4. nodes[L + 1] \in Roots => root = nodes[L + 1]
  BY <1>1 DEF IInv, ForestInv, ForestMatchesGraph
<1>5. /\ Ascending(kept)
      /\ \A i \in 1 .. Len(kept) : \E k \in 1 .. L : kept[i] = nodes[k]
      /\ \A k \in 1 .. L : nodes[k] \in Roots => Occurs(nodes[k], kept)
  BY DEF LazyInv
<1> HIDE DEF L
<1>6. \A i \in 1 .. Len(kept) : kept[i] < nodes[L + 1]
  <2> SUFFICES ASSUME NEW i \in 1 .. Len(kept) PROVE kept[i] < nodes[L + 1]
    OBVIOUS
  <2>1. PICK k \in 1 .. L : kept[i] = nodes[k]
    BY <1>5
  <2>2. k \in 1 .. Len(nodes) /\ L + 1 \in 1 .. Len(nodes) /\ k < L + 1
    BY <1>1
  <2> QED BY <1>3, <2>1, <2>2 DEF LazyInv, RootsKept
<1>7. /\ Ascending(kept')
      /\ \A i \in 1 .. Len(kept') : \E k \in 1 .. L + 1 : kept'[i] = nodes[k]
      /\ \A k \in 1 .. L + 1 : nodes[k] \in Roots => Occurs(nodes[k], kept')
  <2>1. CASE root = nodes[L + 1]
    <3>1. /\ kept' = Append(kept, root) /\ Len(kept) \in Nat
          /\ Len(kept') = Len(kept) + 1
          /\ \A i \in 1 .. Len(kept) : kept'[i] = kept[i]
          /\ kept'[Len(kept) + 1] = nodes[L + 1]
      <4>1. root \in Nodes
        BY <1>1, <2>1
      <4> QED BY <1>1, <2>1, <4>1
    <3>2. Ascending(kept')
      <4> SUFFICES ASSUME NEW i \in 1 .. Len(kept) + 1,
                          NEW j \in 1 .. Len(kept) + 1, i < j
                   PROVE  kept'[i] < kept'[j]
        BY <3>1 DEF Ascending
      <4>1. i \in 1 .. Len(kept)
        BY <3>1
      <4>2. CASE j = Len(kept) + 1
        BY <1>6, <3>1, <4>1, <4>2
      <4>3. CASE j # Len(kept) + 1
        <5>1. j \in 1 .. Len(kept)
          BY <3>1, <4>3
        <5> QED BY <1>5, <3>1, <4>1, <5>1 DEF Ascending
      <4> QED BY <4>2, <4>3
    <3>3. \A i \in 1 .. Len(kept') : \E k \in 1 .. L + 1 : kept'[i] = nodes[k]
      <4> SUFFICES ASSUME NEW i \in 1 .. Len(kept')
                   PROVE  \E k \in 1 .. L + 1 : kept'[i] = nodes[k]
        OBVIOUS
      <4>1. CASE i = Len(kept) + 1
        BY <1>1, <3>1, <4>1
      <4>2. CASE i # Len(kept) + 1
        <5>1. i \in 1 .. Len(kept)
          BY <3>1, <4>2
        <5>2. PICK k \in 1 .. L : kept[i] = nodes[k]
          BY <1>5, <5>1
        <5>3. k \in 1 .. L + 1 /\ kept'[i] = nodes[k]
          BY <1>1, <3>1, <5>1, <5>2
        <5> QED BY <5>3
      <4> QED BY <4>1, <4>2
    <3>4. \A k \in 1 .. L + 1 : nodes[k] \in Roots => Occurs(nodes[k], kept')
      <4> SUFFICES ASSUME NEW k \in 1 .. L + 1, nodes[k] \in Roots
                   PROVE  Occurs(nodes[k], kept')
        OBVIOUS
      <4>1. CASE k = L + 1
        BY <3>1, <4>1 DEF Occurs
      <4>2. CASE k # L + 1
        <5>1. k \in 1 .. L
          BY <1>1, <4>2
        <5>2. PICK i \in 1 .. Len(kept) : kept[i] = nodes[k]
          BY <1>5, <5>1 DEF Occurs
        <5>3. i \in 1 .. Len(kept') /\ kept'[i] = nodes[k]
          BY <3>1, <5>2
        <5> QED BY <5>3 DEF Occurs
      <4> QED BY <4>1, <4>2
    <3> QED BY <3>2, <3>3, <3>4
  <2>2. CASE root # nodes[L + 1]
    <3>1. kept' = kept /\ nodes[L + 1] \notin Roots
      BY <1>1, <1>4, <2>2
    <3>2. \A k \in 1 .. L + 1 : k = L + 1 \/ k \in 1 .. L
      BY <1>1
    <3>3. \A k \in 1 .. L : k \in 1 .. L + 1
      BY <1>1
    <3> QED BY <1>5, <3>1, <3>2, <3>3
  <2> QED BY <2>1, <2>2
<1>8. RootsKept'
  BY <1>2, <1>3 DEF LazyInv, RootsKept
<1>9. \A n \in Roots' : Occurs(n, roots)'
  BY <1>2, <1>3 DEF LazyInv, Occurs
<1>10. \A k \in 1 .. Len(found') : nodes'[k] \in Roots' => Occurs(nodes[k], kept)'
  BY <1>1, <1>2, <1>3, <1>7 DEF Occurs
<1>11. \A i \in 1 .. Len(kept') : \E k \in 1 .. Len(found') : kept'[i] = nodes'[k]
  BY <1>1, <1>3, <1>7
<1>12. Ascending(kept)'
  BY <1>7 DEF Ascending
<1>13. pc' = "next" /\ op' = "GetComponentRoots" /\ nodes' = roots'
  BY <1>1, <1>3
<1> QED BY <1>8, <1>9, <1>10, <1>11, <1>12, <1>13 DEF LazyInv

\* When all candidates were looked at, what was kept are the roots.
LEMMA LazyReturn ==
  ASSUME IInv, LazyInv, GetComponentRoots
  PROVE  LazyInv'
<1>1. /\ UNCHANGED forestVars /\ roots' = kept /\ numNodesAtLastGet' = numNodes
      /\ op = "GetComponentRoots" /\ op' = "none"
      /\ Len(found) = Len(nodes) /\ nodes = roots
  BY DEF GetComponentRoots, Return, LazyInv
<1>2. Roots' = Roots
  BY <1>1, SameForest
<1>3. \A n \in Roots : Occurs(n, kept)
  <2> SUFFICES ASSUME NEW n \in Roots PROVE Occurs(n, kept)
    OBVIOUS
  <2>1. PICK k \in 1 .. Len(roots) : roots[k] = n
    BY <1>1 DEF LazyInv, Occurs
  <2> QED BY <1>1, <2>1 DEF LazyInv
<1>4. Ascending(kept)
  BY <1>1 DEF LazyInv
<1>5. \A i \in 1 .. Len(kept) : kept[i] < numNodes
  <2>1. kept \in Seq(Nodes) /\ numNodes \in Nat
    BY DEF IInv, FindInv, FindTypeOK, ForestInv, ForestTypeOK
  <2>2. \A i \in 1 .. Len(kept) : kept[i] \in Nodes
    BY <2>1
  <2> QED BY <2>1, <2>2 DEF Nodes
<1> QED BY <1>1, <1>2, <1>3, <1>4, <1>5
    DEF LazyInv, RootsKept, Ascending, Occurs

\* Steps of FindRoot before it has the root.
LEMMA LazyFinding ==
  ASSUME IInv, LazyInv, FindNext \/ SearchStep \/ SearchEnd \/ CompressStep
  PROVE  LazyInv'
<1>1. numNodes' = numNodes /\ numNodes \in Nat
  BY DEF FindNext, SearchStep, SearchEnd, CompressStep, forestVars,
         IInv, ForestInv, ForestTypeOK
<1>2. Roots' = Roots
  <2>1. CASE CompressStep
    <3>1. node \in Nodes /\ root \in Roots /\ class[node] = class[root]
      BY <2>1 DEF IInv, FindInv, CompressStep
    <3> QED BY <2>1, <3>1, Compression DEF CompressStep, IInv
  <2>2. CASE ~ CompressStep
    BY <2>2, SameForest DEF FindNext, SearchStep, SearchEnd
  <2> QED BY <2>1, <2>2
<1>3. UNCHANGED <<rootsVars, callVars, found, kept>> /\ pc' # "idle"
  BY DEF FindNext, SearchStep, SearchEnd, CompressStep, findVars, rootsVars,
         callVars
<1>4. Roots' \cap Nodes \subseteq Roots /\ numNodes' >= numNodes
  BY <1>1, <1>2
<1> QED BY <1>2, <1>3, <1>4, LazyUnchanged

\* Nodes that are added are not among those that existed.
LEMMA LazyGrowth ==
  ASSUME IInv, NEW size \in numNodes .. MaxNodes, Grow(size)
  PROVE  Roots' \cap Nodes \subseteq Roots /\ numNodes' >= numNodes
<1>1. numNodes \in Nat /\ size >= numNodes /\ numNodes' = size
  BY MaxNodesAssumption DEF Grow, IInv, ForestInv, ForestTypeOK
<1>2. Roots' = Roots \cup (numNodes .. size - 1)
  BY Growth DEF IInv
<1>3. \A n \in numNodes .. size - 1 : n \notin Nodes
  BY <1>1 DEF Nodes
<1> QED BY <1>1, <1>2, <1>3

\* The roots after an edge was added are among those before.
LEMMA LazyAddEdge ==
  ASSUME IInv, LazyInv, AddEdge
  PROVE  LazyInv'
<1>1. /\ numNodes' = numNodes /\ numNodes \in Nat /\ UNCHANGED rootsVars
      /\ op = "AddEdge" /\ op' = "none"
  BY DEF AddEdge, Return, IInv, ForestInv, ForestTypeOK
<1>2. Roots' \subseteq Roots
  <2>1. Nodes' = Nodes /\ found[1] \in Roots /\ found[2] \in Roots
    BY Joining
  <2>2. found[1] \in Nodes /\ found[2] \in Nodes /\ parent \in [Nodes -> Nodes]
    BY <2>1 DEF Roots, IInv, ForestInv, ForestTypeOK
  <2>3. \/ parent' = parent
        \/ /\ found[1] # found[2]
           /\ \/ parent' = [parent EXCEPT ![found[1]] = found[2]]
              \/ parent' = [parent EXCEPT ![found[2]] = found[1]]
    BY DEF AddEdge, Union, Attach
  <2> QED BY <2>1, <2>2, <2>3 DEF Roots
<1> QED BY <1>1, <1>2, LazyOtherOp

\* Calls that are not GetComponentRoots, when they start.
LEMMA LazyStarts ==
  ASSUME IInv, LazyInv, CallAddEdge \/ CallConnected \/ CallGetSize
                          \/ CallGetComponentIds
  PROVE  LazyInv'
<1>1. /\ pc = "idle" /\ pc' = "next" /\ op' # "GetComponentRoots"
      /\ UNCHANGED rootsVars
  BY DEF CallAddEdge, CallConnected, CallGetSize, CallGetComponentIds, Start
<1>2. op = "none"
  BY <1>1 DEF LazyInv
<1>3. numNodes \in 0 .. MaxNodes
  BY DEF IInv, ForestInv, ForestTypeOK
<1>4. Roots' \cap Nodes \subseteq Roots /\ numNodes' >= numNodes
  <2>1. CASE UNCHANGED forestVars
    <3>1. Roots' = Roots /\ numNodes' = numNodes
      BY <2>1, SameForest DEF forestVars
    <3> QED BY <1>3, <3>1
  <2>2. CASE ~ UNCHANGED forestVars
    <3>1. CallAddEdge
      BY <2>2 DEF CallConnected, CallGetSize, CallGetComponentIds
    <3>2. PICK m, n \in 0 .. MaxNodes - 1 :
            IF (IF m > n THEN m ELSE n) + 1 > numNodes
            THEN Grow((IF m > n THEN m ELSE n) + 1) ELSE UNCHANGED forestVars
      BY <3>1 DEF CallAddEdge
    <3>3. PICK size : size = (IF m > n THEN m ELSE n) + 1
      OBVIOUS
    <3>4. size \in 1 .. MaxNodes
      BY <3>3, MaxNodesAssumption
    <3>5. size \in numNodes .. MaxNodes /\ Grow(size)
      BY <1>3, <2>2, <3>2, <3>3, <3>4, MaxNodesAssumption
    <3> QED BY <3>5, LazyGrowth
  <2> QED BY <2>1, <2>2
<1> QED BY <1>1, <1>2, <1>4, LazyOtherOp

\* Calls that leave the forest and the roots alone, when they return.
LEMMA LazyQueriesReturn ==
  ASSUME IInv, LazyInv, Connected \/ GetSize \/ GetComponentIds
  PROVE  LazyInv'
<1>1. /\ op # "GetComponentRoots" /\ op' = "none" /\ UNCHANGED rootsVars
      /\ UNCHANGED forestVars
  BY DEF Connected, GetSize, GetComponentIds, Return
<1>2. Roots' = Roots /\ numNodes' = numNodes /\ numNodes \in Nat
  BY <1>1, SameForest DEF forestVars, IInv, ForestInv, ForestTypeOK
<1> QED BY <1>1, <1>2, LazyOtherOp

LEMMA NextLazyInv == IInv /\ LazyInv /\ [Next]_vars => LazyInv'
<1> SUFFICES ASSUME IInv, LazyInv, [Next]_vars PROVE LazyInv'
  OBVIOUS
<1>1. CASE SetNumberOfNodes
  <2>1. PICK size \in numNodes + 1 .. MaxNodes : Grow(size)
    BY <1>1 DEF SetNumberOfNodes
  <2>2. size \in numNodes .. MaxNodes
    BY MaxNodesAssumption DEF IInv, ForestInv, ForestTypeOK
  <2>3. pc = "idle" /\ op = "none"
    BY <1>1 DEF SetNumberOfNodes, LazyInv
  <2>4. UNCHANGED <<rootsVars, callVars, found, kept, pc>>
    BY <1>1 DEF SetNumberOfNodes, findVars
  <2> QED BY <2>1, <2>2, <2>3, <2>4, LazyGrowth, LazyUnchanged
<1>2. CASE CallAddEdge \/ CallConnected \/ CallGetSize \/ CallGetComponentIds
  BY <1>2, LazyStarts
<1>3. CASE CallGetComponentRoots
  BY <1>3, LazyCandidates
<1>4. CASE FindNext \/ SearchStep \/ SearchEnd \/ CompressStep
  BY <1>4, LazyFinding
<1>5. CASE CompressEnd
  <2>1. CASE op = "GetComponentRoots"
    BY <1>5, <2>1, LazyCandidateFound
  <2>2. CASE op # "GetComponentRoots"
    <3>1. /\ UNCHANGED forestVars /\ UNCHANGED rootsVars /\ op' = op
          /\ pc' # "idle"
      BY <1>5 DEF CompressEnd, callVars
    <3>2. Roots' = Roots /\ numNodes' = numNodes /\ numNodes \in Nat
      BY <3>1, SameForest DEF forestVars, IInv, ForestInv, ForestTypeOK
    <3> QED BY <2>2, <3>1, <3>2, LazyOtherOp
  <2> QED BY <2>1, <2>2
<1>6. CASE AddEdge
  BY <1>6, LazyAddEdge
<1>7. CASE Connected \/ GetSize \/ GetComponentIds
  BY <1>7, LazyQueriesReturn
<1>8. CASE GetComponentRoots
  BY <1>8, LazyReturn
<1>9. CASE UNCHANGED vars
  <2>1. Roots' = Roots /\ numNodes' = numNodes /\ numNodes \in Nat
    BY <1>9, SameForest DEF vars, forestVars, IInv, ForestInv, ForestTypeOK
  <2>2. UNCHANGED <<rootsVars, callVars, found, kept, pc>>
    BY <1>9 DEF vars, findVars
  <2> QED BY <2>1, <2>2, LazyUnchanged
<1> QED BY <1>1, <1>2, <1>3, <1>4, <1>5, <1>6, <1>7, <1>8, <1>9
    DEF Next, Running

LEMMA InitLazyInv == Init => LazyInv
<1> SUFFICES ASSUME Init PROVE LazyInv
  OBVIOUS
<1>1. Roots = {} /\ Len(roots) = 0
  BY DEF Init, Roots, Nodes
<1> QED BY <1>1 DEF Init, LazyInv, RootsKept

\* The lazily kept roots are in ascending order and complete: no sequence of
\* edges and queries makes GetComponentRoots miss a component.
THEOREM LazyRoots == Spec => []RootsKept
<1>1. Init => LazyInv
  BY InitLazyInv
<1>2. IInv /\ LazyInv /\ [Next]_vars => LazyInv'
  BY NextLazyInv
<1>3. LazyInv => RootsKept
  BY DEF LazyInv
<1> QED BY <1>1, <1>2, <1>3, Invariance, PTL DEF Spec

-----------------------------------------------------------------------------
(* The answers are those of the graph.                                     *)

\* What a call was asked, and the candidates that it kept.
CallInv ==
  /\ op = "Connected" =>
       \E m, n \in Asked : /\ args = <<m, n>>
                           /\ nodes = IF {m, n} \subseteq Nodes THEN <<m, n>> ELSE << >>
  /\ op = "GetSize" =>
       \E n \in Asked : /\ args = <<n>>
                        /\ nodes = IF n \in Nodes THEN <<n>> ELSE << >>
  /\ op \in {"GetComponentRoots", "GetComponentIds"} => args = << >>
  /\ op = "GetComponentIds" => nodes = [k \in 1 .. numNodes |-> k - 1]
  /\ \A i \in 1 .. Len(kept) : kept[i] \in Roots

\* A step of a call, or none.
LEMMA CallGoesOn ==
  ASSUME CallInv, UNCHANGED callVars, Nodes' = Nodes, numNodes' = numNodes,
         \A i \in 1 .. Len(kept') : kept'[i] \in Roots'
  PROVE  CallInv'
BY DEF CallInv, callVars

LEMMA CallStarts ==
  ASSUME IInv, CallInv, LazyInv,
         \/ SetNumberOfNodes \/ CallAddEdge \/ CallConnected \/ CallGetSize
         \/ CallGetComponentRoots \/ CallGetComponentIds
  PROVE  CallInv'
<1>1. pc = "idle" /\ kept' = kept
  BY DEF SetNumberOfNodes, CallAddEdge, CallConnected, CallGetSize,
     CallGetComponentRoots, CallGetComponentIds, Start, findVars
<1>2. op = "none" /\ kept = << >> /\ Len(<< >>) = 0
  BY <1>1 DEF LazyInv, IInv, FindInv
<1>3. \A i \in 1 .. Len(kept') : kept'[i] \in Roots'
  BY <1>1, <1>2
<1>4. CASE SetNumberOfNodes
  BY <1>2, <1>3, <1>4 DEF SetNumberOfNodes, callVars, CallInv
<1>5. CASE CallAddEdge
  BY <1>3, <1>5 DEF CallAddEdge, Start, CallInv
<1>6. CASE CallConnected
  <2>1. UNCHANGED forestVars /\ op' = "Connected"
    BY <1>6 DEF CallConnected, Start
  <2>2. Nodes' = Nodes
    BY <2>1, SameForest
  <2>3. PICK m, n \in Asked :
          args' = <<m, n>> /\ nodes' = IF {m, n} \subseteq Nodes THEN <<m, n>> ELSE << >>
    BY <1>6 DEF CallConnected, Start
  <2>4. \E i, j \in Asked' :
          args' = <<i, j>> /\ nodes' = IF {i, j} \subseteq Nodes' THEN <<i, j>> ELSE << >>
    BY <2>2, <2>3 DEF Asked
  <2> QED BY <2>1, <2>4, <1>3 DEF CallInv
<1>7. CASE CallGetSize
  <2>1. UNCHANGED forestVars /\ op' = "GetSize"
    BY <1>7 DEF CallGetSize, Start
  <2>2. Nodes' = Nodes
    BY <2>1, SameForest
  <2>3. PICK n \in Asked : args' = <<n>> /\ nodes' = IF n \in Nodes THEN <<n>> ELSE << >>
    BY <1>7 DEF CallGetSize, Start
  <2>4. \E i \in Asked' : args' = <<i>> /\ nodes' = IF i \in Nodes' THEN <<i>> ELSE << >>
    BY <2>2, <2>3 DEF Asked
  <2> QED BY <2>1, <2>4, <1>3 DEF CallInv
<1>8. CASE CallGetComponentRoots
  BY <1>3, <1>8 DEF CallGetComponentRoots, Start, CallInv
<1>9. CASE CallGetComponentIds
  <2>1. /\ op' = "GetComponentIds" /\ args' = << >>
        /\ nodes' = [k \in 1 .. numNodes |-> k - 1]
    BY <1>9 DEF CallGetComponentIds, Start
  <2>2. numNodes' = numNodes
    BY <1>9 DEF CallGetComponentIds, forestVars
  <2> QED BY <2>1, <2>2, <1>3 DEF CallInv
<1> QED BY <1>4, <1>5, <1>6, <1>7, <1>8, <1>9

LEMMA CallFinds ==
  ASSUME IInv, CallInv,
         FindNext \/ SearchStep \/ SearchEnd \/ CompressStep \/ CompressEnd \/ UNCHANGED vars
  PROVE  CallInv'
<1>1. UNCHANGED callVars
  BY DEF FindNext, SearchStep, SearchEnd, CompressStep, CompressEnd, vars
<1>2. Nodes' = Nodes /\ numNodes' = numNodes /\ Roots' = Roots
  <2>1. CASE CompressStep
    <3>1. node \in Nodes /\ root \in Roots /\ class[node] = class[root]
      BY <2>1 DEF IInv, FindInv, CompressStep
    <3> QED BY <2>1, <3>1, Compression DEF CompressStep, IInv
  <2>2. CASE ~ CompressStep
    <3>1. UNCHANGED forestVars
      BY <2>2 DEF FindNext, SearchStep, SearchEnd, CompressEnd, vars
    <3> QED BY <3>1, SameForest
  <2> QED BY <2>1, <2>2
<1>3. \A i \in 1 .. Len(kept') : kept'[i] \in Roots
  <2>1. CASE kept' = kept
    BY <2>1 DEF CallInv
  <2>2. CASE kept' # kept
    <3>1. kept' = Append(kept, root) /\ root \in Roots /\ kept \in Seq(Nodes)
      BY <2>2 DEF FindNext, SearchStep, SearchEnd, CompressStep, CompressEnd, vars,
         findVars, IInv, FindInv, FindTypeOK
    <3>2. /\ Len(kept') = Len(kept) + 1 /\ Len(kept) \in Nat /\ kept'[Len(kept) + 1] = root
          /\ \A i \in 1 .. Len(kept) : kept'[i] = kept[i]
      BY <3>1
    <3>3. \A i \in 1 .. Len(kept') : i \in 1 .. Len(kept) \/ i = Len(kept) + 1
      BY <3>2
    <3> QED BY <3>1, <3>2, <3>3 DEF CallInv
  <2> QED BY <2>1, <2>2
<1> QED BY <1>1, <1>2, <1>3, CallGoesOn

LEMMA NextCallInv == IInv /\ LazyInv /\ CallInv /\ [Next]_vars => CallInv'
<1> SUFFICES ASSUME IInv, LazyInv, CallInv, [Next]_vars PROVE CallInv'
  OBVIOUS
<1>1. CASE \/ SetNumberOfNodes \/ CallAddEdge \/ CallConnected \/ CallGetSize
           \/ CallGetComponentRoots \/ CallGetComponentIds
  BY <1>1, CallStarts
<1>2. CASE FindNext \/ SearchStep \/ SearchEnd \/ CompressStep \/ CompressEnd \/ UNCHANGED vars
  BY <1>2, CallFinds
<1>3. CASE AddEdge \/ Connected \/ GetSize \/ GetComponentRoots \/ GetComponentIds
  <2>1. op' = "none" /\ kept' = << >> /\ Len(<< >>) = 0
    BY <1>3 DEF AddEdge, Connected, GetSize, GetComponentRoots, GetComponentIds, Return
  <2> QED BY <2>1 DEF CallInv
<1> QED BY <1>1, <1>2, <1>3 DEF Next, Running

\* The pairs of naturals of which the first is less.
LessThan == {ss \in Nat \X Nat : ss[1] < ss[2]}

LEMMA LessThanIsWellFounded == IsWellFoundedOn(LessThan, Nat)
BY NatLessThanWellFounded, Zenon DEF OpToRel, LessThan

LEMMA LeastExists ==
  ASSUME NEW S \in SUBSET Nat, S # {}
  PROVE  \E m \in S : \A e \in S : m <= e
<1>1. PICK m \in S : \A e \in S : ~ (<<e, m>> \in LessThan)
  <2>1. PICK e0 \in S : TRUE
    OBVIOUS
  <2> QED BY <2>1, LessThanIsWellFounded, WFMin
<1>2. ASSUME NEW e \in S PROVE m <= e
  <2>1. e \in Nat /\ m \in Nat /\ ~ (<<e, m>> \in LessThan)
    BY <1>1
  <2>2. ~ (e < m)
    BY <2>1 DEF LessThan
  <2> QED BY <2>1, <2>2
<1> QED BY <1>2

\* There is a highest rank.
LEMMA RanksAreBounded ==
  ASSUME IInv
  PROVE  \E b \in Nat : \A k \in Nodes : rank[k] <= b
<1> DEFINE Bounds(b, j) == \A k \in Nodes : k < j => rank[k] <= b
<1>1. numNodes \in Nat /\ rank \in [Nodes -> Nat] /\ Nodes = 0 .. numNodes - 1
  BY DEF IInv, ForestInv, ForestTypeOK, Nodes
<1>2. PICK W : W = {j \in Nat : ~ \E b \in Nat : Bounds(b, j)}
  OBVIOUS
<1>3. W = {}
  <2> SUFFICES ASSUME W # {} PROVE FALSE
    OBVIOUS
  <2>1. PICK j \in W : \A e \in W : j <= e
    <3>1. W \in SUBSET Nat
      BY <1>2
    <3> QED BY <3>1, LeastExists
  <2>2. j \in Nat /\ ~ \E b \in Nat : Bounds(b, j)
    BY <1>2
  <2>3. j # 0
    <3>1. \A k \in Nodes : ~ (k < 0)
      BY <1>1
    <3>2. Bounds(0, 0)
      BY <3>1
    <3> QED BY <2>2, <3>2
  <2>4. PICK i \in Nat : j = i + 1
    <3>1. j - 1 \in Nat /\ j = (j - 1) + 1
      BY <2>2, <2>3
    <3> QED BY <3>1
  <2>5. i \notin W
    BY <2>1, <2>2, <2>4
  <2>6. PICK b \in Nat : Bounds(b, i)
    BY <2>5, <1>2
  <2>7. PICK c \in Nat : b <= c /\ (i \in Nodes => rank[i] <= c)
    <3>1. CASE i \in Nodes
      <4>1. rank[i] \in Nat
        BY <3>1, <1>1
      <4>2. CASE b <= rank[i]
        BY <4>1, <4>2
      <4>3. CASE ~ (b <= rank[i])
        BY <4>1, <4>3
      <4> QED BY <4>2, <4>3
    <3>2. CASE i \notin Nodes
      <4>1. b <= b
        OBVIOUS
      <4> QED BY <3>2, <4>1
    <3> QED BY <3>1, <3>2
  <2>8. ASSUME NEW k \in Nodes, k < j PROVE rank[k] <= c
    <3>1. k \in Nat /\ rank[k] \in Nat
      BY <1>1
    <3>2. k < i \/ k = i
      BY <3>1, <2>4, <2>8
    <3> QED BY <3>1, <3>2, <2>6, <2>7
  <2> QED BY <2>2, <2>8
<1>4. PICK b \in Nat : Bounds(b, numNodes)
  BY <1>1, <1>2, <1>3
<1>5. \A k \in Nodes : k < numNodes
  BY <1>1
<1> QED BY <1>4, <1>5

\* Every component has a root: the node of the highest rank.
LEMMA ComponentHasRoot ==
  ASSUME IInv, NEW n \in Nodes
  PROVE  \E r \in Roots : class[r] = class[n]
<1>1. /\ class[n] \in SUBSET Nodes /\ n \in class[n] /\ rank \in [Nodes -> Nat]
      /\ parent \in [Nodes -> Nodes]
  BY DEF IInv, ForestInv, ForestTypeOK, ClassesOK
<1>2. PICK b \in Nat : \A k \in Nodes : rank[k] <= b
  BY RanksAreBounded
<1>3. PICK S : S = {b - rank[k] : k \in class[n]}
  OBVIOUS
<1>4. S \in SUBSET Nat /\ S # {}
  <2>1. \A k \in class[n] : b - rank[k] \in Nat
    BY <1>1, <1>2
  <2> QED BY <2>1, <1>1, <1>3
<1>5. PICK k \in class[n] : \A j \in class[n] : b - rank[k] <= b - rank[j]
  <2>1. PICK m \in S : \A e \in S : m <= e
    BY <1>4, LeastExists
  <2>2. PICK k \in class[n] : m = b - rank[k]
    BY <1>3
  <2>3. \A j \in class[n] : b - rank[j] \in S
    BY <1>3
  <2> QED BY <2>1, <2>2, <2>3
<1>6. \A j \in class[n] : rank[j] <= rank[k]
  BY <1>1, <1>5
<1>7. k \in Nodes /\ parent[k] \in Nodes /\ class[k] = class[n]
  BY <1>1 DEF IInv, ForestInv, ClassesOK
<1>8. class[parent[k]] = class[k]
  BY <1>7 DEF IInv, ForestInv, ForestMatchesGraph
<1>9. parent[k] \in class[n]
  BY <1>7, <1>8 DEF IInv, ForestInv, ClassesOK
<1>10. parent[k] = k
  <2>1. rank[parent[k]] <= rank[k] /\ rank[k] \in Nat /\ rank[parent[k]] \in Nat
    BY <1>1, <1>6, <1>7, <1>9
  <2>2. parent[k] = k \/ rank[k] < rank[parent[k]]
    BY <1>7 DEF IInv, ForestInv, RanksOK
  <2> QED BY <2>1, <2>2
<1> QED BY <1>7, <1>10 DEF Roots

\* A root stands for its component.
LEMMA RootsAreComponents ==
  ASSUME IInv
  PROVE  /\ Roots \subseteq Nodes
         /\ \A r, s \in Roots : class[r] = class[s] => r = s
         /\ \A n \in Nodes : class[n] \in SUBSET Nodes /\ n \in class[n]
         /\ \A m, n \in Nodes : m \in class[n] => class[m] = class[n]
         /\ numNodes \in Nat /\ Nodes = 0 .. numNodes - 1 /\ Nodes \subseteq Nat
         /\ Part!Nodes = Nodes /\ Part!Components = {class[n] : n \in Nodes}
<1>1. Part!Nodes = Nodes /\ Part!Components = {class[n] : n \in Nodes}
  BY DEF Part!Nodes, Part!Components, Nodes
<1>2. numNodes \in Nat /\ Nodes = 0 .. numNodes - 1
  BY DEF IInv, ForestInv, ForestTypeOK, Nodes
<1>3. Nodes \subseteq Nat
  BY <1>2
<1> QED BY <1>1, <1>2, <1>3 DEF IInv, ForestInv, ForestTypeOK, ClassesOK,
    ForestMatchesGraph, Roots

LEMMA SameCardinality == \A S : Part!Cardinality(S) = Cardinality(S)
BY DEF Part!Cardinality, Cardinality

LEMMA AddEdgeAnswers == IInv /\ AddEdge => Part!AddEdge
<1> SUFFICES ASSUME IInv, AddEdge PROVE Part!AddEdge
  OBVIOUS
<1>1. /\ Len(nodes) = 2 /\ args = nodes /\ Len(found) = 2 /\ nodes \in Seq(Nodes)
      /\ result' = Returned("AddEdge", args, found[1] # found[2])
      /\ class' = Joined(args[1], args[2]) /\ numNodes' = numNodes
  BY DEF AddEdge, Return, IInv, FindInv, FindTypeOK
<1>2. PICK m, n \in Nodes : args = <<m, n>> /\ m = args[1] /\ n = args[2]
  BY <1>1
<1>3. /\ found[1] \in Roots /\ class[found[1]] = class[m]
      /\ found[2] \in Roots /\ class[found[2]] = class[n]
  BY <1>1, <1>2 DEF IInv, FindInv
<1>4. (found[1] # found[2]) = (class[m] # class[n])
  BY <1>3, RootsAreComponents
<1>5. result' = Part!Returned("AddEdge", <<m, n>>, class[m] # class[n])
  BY <1>1, <1>2, <1>4 DEF Returned, Part!Returned
<1>6. class' = [k \in Nodes |-> IF class[k] \in {class[m], class[n]}
                                THEN class[m] \cup class[n] ELSE class[k]]
  BY <1>1, <1>2 DEF Joined
<1>7. Part!Nodes = Nodes
  BY RootsAreComponents
<1>8. /\ m \in Part!Nodes /\ n \in Part!Nodes
      /\ class' = [k \in Part!Nodes |-> IF class[k] \in {class[m], class[n]}
                                        THEN class[m] \cup class[n] ELSE class[k]]
      /\ numNodes' = numNodes
  BY <1>1, <1>6, <1>7
<1> QED BY <1>5, <1>8, Zenon DEF Part!AddEdge

LEMMA ConnectedAnswers == IInv /\ CallInv /\ Connected => Part!Connected
<1> SUFFICES ASSUME IInv, CallInv, Connected PROVE Part!Connected
  OBVIOUS
<1>1. /\ op = "Connected" /\ Len(found) = Len(nodes) /\ UNCHANGED <<numNodes, class>>
      /\ result' = Returned("Connected", args, nodes # << >> /\ found[1] = found[2])
  BY DEF Connected, Return, forestVars
<1>2. PICK m, n \in Asked :
        args = <<m, n>> /\ nodes = IF {m, n} \subseteq Nodes THEN <<m, n>> ELSE << >>
  BY <1>1 DEF CallInv
<1>3. (nodes # << >> /\ found[1] = found[2]) =
        ({m, n} \subseteq Nodes /\ class[m] = class[n])
  <2>1. CASE {m, n} \subseteq Nodes
    <3>1. nodes = <<m, n>> /\ Len(nodes) = 2 /\ nodes[1] = m /\ nodes[2] = n
      BY <2>1, <1>2
    <3>2. /\ found[1] \in Roots /\ class[found[1]] = class[m]
          /\ found[2] \in Roots /\ class[found[2]] = class[n]
      BY <3>1, <1>1 DEF IInv, FindInv
    <3> QED BY <2>1, <3>1, <3>2, RootsAreComponents
  <2>2. CASE ~ ({m, n} \subseteq Nodes)
    BY <2>2, <1>2
  <2> QED BY <2>1, <2>2
<1> QED BY <1>1, <1>2, <1>3, RootsAreComponents
    DEF Part!Connected, Returned, Part!Returned

LEMMA GetSizeAnswers ==
  IInv /\ CountsMatchForest /\ CallInv /\ GetSize => Part!GetSize
<1> SUFFICES ASSUME IInv, CountsMatchForest, CallInv, GetSize PROVE Part!GetSize
  OBVIOUS
<1>1. /\ op = "GetSize" /\ Len(found) = Len(nodes) /\ UNCHANGED <<numNodes, class>>
      /\ result' = Returned("GetSize", args,
                            IF nodes = << >> THEN 0 ELSE componentSize[found[1]])
  BY DEF GetSize, Return, forestVars
<1>2. PICK n \in Asked : args = <<n>> /\ nodes = IF n \in Nodes THEN <<n>> ELSE << >>
  BY <1>1 DEF CallInv
<1>3. (IF nodes = << >> THEN 0 ELSE componentSize[found[1]]) =
        (IF n \in Nodes THEN Cardinality(class[n]) ELSE 0)
  <2>1. CASE n \in Nodes
    <3>1. nodes = <<n>> /\ nodes # << >> /\ Len(nodes) = 1 /\ nodes[1] = n
      BY <2>1, <1>2
    <3>2. found[1] \in Roots /\ class[found[1]] = class[n]
      BY <3>1, <1>1 DEF IInv, FindInv
    <3> QED BY <2>1, <3>1, <3>2 DEF CountsMatchForest
  <2>2. CASE n \notin Nodes
    BY <2>2, <1>2
  <2> QED BY <2>1, <2>2
<1>4. Part!Nodes = Nodes /\ Part!Cardinality(class[n]) = Cardinality(class[n])
  BY RootsAreComponents, SameCardinality
<1> QED BY <1>1, <1>2, <1>3, <1>4 DEF Part!GetSize, Returned, Part!Returned

LEMMA GetComponentRootsAnswers ==
  IInv /\ LazyInv /\ CallInv /\ GetComponentRoots => Part!GetComponentRoots
<1> SUFFICES ASSUME IInv, LazyInv, CallInv, GetComponentRoots
             PROVE  Part!GetComponentRoots
  OBVIOUS
<1>1. /\ op = "GetComponentRoots" /\ args = << >> /\ UNCHANGED <<numNodes, class>>
      /\ roots' = kept /\ numNodesAtLastGet' = numNodes
      /\ result' = Returned("GetComponentRoots", args, kept)
  BY DEF GetComponentRoots, Return, forestVars, CallInv
<1>2. /\ kept \in Seq(Nodes) /\ Len(kept) \in Nat
      /\ \A i \in 1 .. Len(kept) : kept[i] \in Roots /\ kept[i] \in Nat
      /\ Ascending(kept)
  <2>1. kept \in Seq(Nodes)
    BY DEF IInv, FindInv, FindTypeOK
  <2>2. \A i \in 1 .. Len(kept) : kept[i] \in Roots
    BY DEF CallInv
  <2>3. Ascending(kept)
    BY <1>1 DEF LazyInv
  <2>4. \A r \in Roots : r \in Nat
    BY RootsAreComponents
  <2> QED BY <2>1, <2>2, <2>3, <2>4
<1>3. ASSUME NEW r \in Roots PROVE \E i \in 1 .. Len(kept) : kept[i] = r
  <2>1. RootsKept' /\ Roots' = Roots
    BY LazyReturn, SameForest DEF LazyInv, GetComponentRoots
  <2>2. r < numNodes
    BY RootsAreComponents
  <2> QED BY <2>1, <2>2, <1>1 DEF RootsKept
<1>4. PICK g, C : /\ C = Part!Components
                  /\ g = [i \in 1 .. Len(kept) |-> class[kept[i]]]
  OBVIOUS
<1>5. \A i \in 1 .. Len(kept) : kept[i] \in Nodes /\ class[kept[i]] \in C
  BY <1>2, <1>4, RootsAreComponents
<1>6. ASSUME NEW c \in C PROVE \E i \in 1 .. Len(kept) : class[kept[i]] = c
  <2>1. PICK n \in Nodes : c = class[n]
    BY <1>4, RootsAreComponents
  <2>2. PICK r \in Roots : class[r] = c
    BY <2>1, ComponentHasRoot
  <2> QED BY <2>2, <1>3
<1>7. ASSUME NEW i \in 1 .. Len(kept), NEW j \in 1 .. Len(kept),
             class[kept[i]] = class[kept[j]]
      PROVE  i = j
  <2>1. kept[i] = kept[j]
    BY <1>2, <1>7, RootsAreComponents
  <2>2. i \in Nat /\ j \in Nat /\ kept[i] \in Nat /\ kept[j] \in Nat
    BY <1>2
  <2>3. (i < j => kept[i] < kept[j]) /\ (j < i => kept[j] < kept[i])
    BY <1>2 DEF Ascending
  <2> QED BY <2>1, <2>2, <2>3
<1>8. Len(kept) = Cardinality(C)
  <2>1. g \in Bijection(1 .. Len(kept), C)
    <3>1. g \in [1 .. Len(kept) -> C]
      BY <1>4, <1>5
    <3>2. IsInjective(g)
      BY <1>4, <1>7 DEF IsInjective
    <3>3. \A c \in C : \E i \in 1 .. Len(kept) : g[i] = c
      BY <1>4, <1>6
    <3> QED BY <3>1, <3>2, <3>3 DEF Bijection, Injection, Surjection
  <2>2. IsFiniteSet(1 .. Len(kept)) /\ Cardinality(1 .. Len(kept)) = Len(kept)
    <3>1. PICK l : l = Len(kept)
      OBVIOUS
    <3>2. l \in Nat /\ l \in Int /\ 1 \in Int /\ (1 > l => l = 0) /\ l - 1 + 1 = l
      BY <3>1, <1>2
    <3>3. IsFiniteSet(1 .. l) /\ Cardinality(1 .. l) = IF 1 > l THEN 0 ELSE l - 1 + 1
      BY <3>2, FS_Interval
    <3> QED BY <3>1, <3>2, <3>3
  <2> QED BY <2>1, <2>2, FS_Bijection DEF ExistsBijection
<1>9. Part!IsRootsOf(kept)
  <2>1. \A c \in Part!Components : \E i \in 1 .. Len(kept) : kept[i] \in c
    BY <1>4, <1>5, <1>6, RootsAreComponents
  <2>2. Len(kept) = Part!Cardinality(Part!Components)
    BY <1>4, <1>8, SameCardinality
  <2> QED BY <1>2, <2>1, <2>2 DEF Part!IsRootsOf, Ascending
<1>10. result'.answer = kept /\ result' = Part!Returned("GetComponentRoots", << >>, kept)
  BY <1>1 DEF Returned, Part!Returned
<1> QED BY <1>1, <1>9, <1>10 DEF Part!GetComponentRoots

LEMMA FirstNodeIsLeast ==
  ASSUME IInv, CallInv, op = "GetComponentIds", Len(found) = Len(nodes), NEW n \in Nodes
  PROVE  /\ FirstNode(FoundRoot(n)) \in class[n]
         /\ \A k \in class[n] : FirstNode(FoundRoot(n)) <= k
         /\ \A k \in Nodes : FoundRoot(k) \in Roots /\ class[FoundRoot(k)] = class[k]
<1>1. \A k \in Nodes : FoundRoot(k) \in Roots /\ class[FoundRoot(k)] = class[k]
  <2> SUFFICES ASSUME NEW k \in Nodes
               PROVE  FoundRoot(k) \in Roots /\ class[FoundRoot(k)] = class[k]
    OBVIOUS
  <2>1. nodes = [j \in 1 .. numNodes |-> j - 1] /\ nodes \in Seq(Nodes)
    BY DEF CallInv, IInv, FindInv, FindTypeOK
  <2>2. k \in Nat /\ k + 1 \in 1 .. numNodes /\ (k + 1) - 1 = k /\ numNodes \in Nat
    BY RootsAreComponents
  <2>3. Len(nodes) = numNodes
    BY <2>1, <2>2
  <2>4. nodes[k + 1] = k /\ k + 1 \in 1 .. Len(found)
    BY <2>1, <2>2, <2>3
  <2> QED BY <2>4 DEF FoundRoot, IInv, FindInv
<1>2. PICK f \in class[n] : \A k \in class[n] : f <= k
  <2>1. class[n] \in SUBSET Nat /\ class[n] # {}
    BY RootsAreComponents
  <2> QED BY <2>1, LeastExists
<1>3. /\ f \in Nodes /\ f \in Nat
      /\ \A k \in Nodes : FoundRoot(k) = FoundRoot(n) <=> k \in class[n]
  <2>1. f \in Nodes /\ f \in Nat
    BY RootsAreComponents
  <2>2. \A k \in Nodes : FoundRoot(k) = FoundRoot(n) <=> class[k] = class[n]
    BY <1>1, RootsAreComponents
  <2>3. \A k \in Nodes : class[k] = class[n] <=> k \in class[n]
    BY RootsAreComponents
  <2> QED BY <2>1, <2>2, <2>3
<1>4. /\ FoundRoot(f) = FoundRoot(n)
      /\ \A k \in 0 .. f - 1 : FoundRoot(k) # FoundRoot(n)
  <2>1. ASSUME NEW k \in 0 .. f - 1 PROVE FoundRoot(k) # FoundRoot(n)
    <3>1. k \in Nodes /\ k \in Nat /\ ~ (f <= k)
      BY <1>3, RootsAreComponents
    <3> QED BY <3>1, <1>2, <1>3
  <2> QED BY <2>1, <1>2, <1>3
<1>5. ASSUME NEW x \in Nodes, FoundRoot(x) = FoundRoot(n),
             \A k \in 0 .. x - 1 : FoundRoot(k) # FoundRoot(n)
      PROVE  x = f
  <2>1. x \in class[n] /\ x \in Nat /\ f <= x
    BY <1>2, <1>3, <1>5, RootsAreComponents
  <2>2. ~ (f \in 0 .. x - 1)
    BY <1>4, <1>5
  <2> QED BY <2>1, <2>2, <1>3
<1>6. FirstNode(FoundRoot(n)) = f
  BY <1>3, <1>4, <1>5 DEF FirstNode
<1> QED BY <1>1, <1>2, <1>6

LEMMA GetComponentIdsAnswers ==
  IInv /\ CallInv /\ GetComponentIds => Part!GetComponentIds
<1> SUFFICES ASSUME IInv, CallInv, GetComponentIds PROVE Part!GetComponentIds
  OBVIOUS
<1>1. /\ op = "GetComponentIds" /\ args = << >> /\ UNCHANGED <<numNodes, class>>
      /\ Len(found) = Len(nodes)
      /\ result' = Returned("GetComponentIds", args, [n \in Nodes |-> ComponentId(n)])
  BY DEF GetComponentIds, Return, forestVars, CallInv
<1>2. ASSUME NEW n \in Nodes
      PROVE  ComponentId(n) = Cardinality(
               {c \in Part!Components : \E m \in c : \A k \in class[n] : m < k})
  <2>1. PICK f : f = FirstNode(FoundRoot(n))
    OBVIOUS
  <2>2. /\ f \in class[n] /\ f \in Nat /\ f \in Nodes /\ \A k \in class[n] : f <= k
        /\ \A k \in Nodes : FoundRoot(k) \in Roots /\ class[FoundRoot(k)] = class[k]
    BY <2>1, <1>1, FirstNodeIsLeast, RootsAreComponents
  <2>3. PICK A, B, h :
          /\ A = {FoundRoot(k) : k \in 0 .. f - 1}
          /\ B = {c \in Part!Components : \E m \in c : \A k \in class[n] : m < k}
          /\ h = [r \in A |-> class[r]]
    OBVIOUS
  <2>4. A \subseteq Roots
    <3>1. \A k \in 0 .. f - 1 : k \in Nodes
      BY <2>2, RootsAreComponents
    <3> QED BY <3>1, <2>2, <2>3
  <2>5. ASSUME NEW r \in A PROVE class[r] \in B
    <3>1. PICK k \in 0 .. f - 1 : r = FoundRoot(k)
      BY <2>3
    <3>2. k \in Nodes /\ k \in Nat /\ k < f
      BY <2>2, RootsAreComponents
    <3>3. class[r] = class[k] /\ k \in class[k] /\ class[k] \in Part!Components
      BY <3>1, <3>2, <2>2, RootsAreComponents
    <3>4. \A j \in class[n] : k < j
      <4>1. \A j \in class[n] : j \in Nat /\ f <= j
        BY <2>2, RootsAreComponents
      <4> QED BY <4>1, <3>2, <2>2
    <3> QED BY <3>3, <3>4, <2>3
  <2>6. ASSUME NEW c \in B PROVE \E r \in A : class[r] = c
    <3>1. PICK j \in Nodes : c = class[j]
      BY <2>3, RootsAreComponents
    <3>2. PICK m \in c : \A k \in class[n] : m < k
      BY <2>3
    <3>3. m \in Nodes /\ m \in Nat /\ class[m] = c /\ m < f
      BY <3>1, <3>2, <2>2, RootsAreComponents
    <3>4. m \in 0 .. f - 1
      BY <3>3, <2>2
    <3>5. FoundRoot(m) \in A /\ class[FoundRoot(m)] = c
      BY <3>3, <3>4, <2>2, <2>3
    <3> QED BY <3>5
  <2>7. h \in Bijection(A, B)
    <3>1. h \in [A -> B]
      BY <2>3, <2>5
    <3>2. IsInjective(h)
      BY <2>3, <2>4, RootsAreComponents DEF IsInjective
    <3>3. \A c \in B : \E r \in A : h[r] = c
      BY <2>3, <2>6
    <3> QED BY <3>1, <3>2, <3>3 DEF Bijection, Injection, Surjection
  <2>8. IsFiniteSet(A)
    BY <2>4, Finiteness, FS_Subset
  <2>9. Cardinality(A) = Cardinality(B)
    BY <2>7, <2>8, FS_Bijection DEF ExistsBijection
  <2> QED BY <2>1, <2>3, <2>9 DEF ComponentId
<1>3. [n \in Nodes |-> ComponentId(n)] = [n \in Part!Nodes |-> Part!Cardinality(
        {c \in Part!Components : \E m \in c : \A k \in class[n] : m < k})]
  <2> DEFINE Earlier(n) == {c \in Part!Components : \E m \in c : \A k \in class[n] : m < k}
  <2>1. \A n \in Nodes : ComponentId(n) = Part!Cardinality(Earlier(n))
    BY <1>2, SameCardinality
  <2>2. Part!Nodes = Nodes
    BY RootsAreComponents
  <2> HIDE DEF Earlier
  <2>3. [n \in Nodes |-> ComponentId(n)] = [n \in Part!Nodes |-> Part!Cardinality(Earlier(n))]
    BY <2>1, <2>2
  <2> QED BY <2>3, Zenon DEF Earlier
<1> QED BY <1>1, <1>3 DEF Part!GetComponentIds, Returned, Part!Returned

\* A call that starts, and a step that no caller sees.
LEMMA StartsAreCalls ==
  IInv /\ (SetNumberOfNodes \/ CallAddEdge \/ CallConnected \/ CallGetSize
           \/ CallGetComponentRoots \/ CallGetComponentIds) => Part!Call
<1> SUFFICES ASSUME IInv,
                    \/ SetNumberOfNodes \/ CallAddEdge \/ CallConnected \/ CallGetSize
                    \/ CallGetComponentRoots \/ CallGetComponentIds
             PROVE  Part!Call
  OBVIOUS
<1>1. /\ numNodes \in 0 .. MaxNodes /\ numNodes \in Nat /\ Nodes = 0 .. numNodes - 1
      /\ class \in [Nodes -> SUBSET Nodes]
  BY MaxNodesAssumption DEF IInv, ForestInv, ForestTypeOK, Nodes
<1>2. result' = Part!NoResult
  BY DEF SetNumberOfNodes, CallAddEdge, CallConnected, CallGetSize,
     CallGetComponentRoots, CallGetComponentIds, Start, NoResult, Returned,
     Part!NoResult, Part!Returned
<1>3. \/ UNCHANGED forestVars
      \/ \E size \in Nat : size >= numNodes /\ Grow(size)
  <2>1. CASE SetNumberOfNodes
    <3>1. PICK size \in numNodes + 1 .. MaxNodes : Grow(size)
      BY <2>1 DEF SetNumberOfNodes
    <3>2. size \in Nat /\ size >= numNodes
      BY <1>1, MaxNodesAssumption
    <3> QED BY <3>1, <3>2
  <2>2. CASE CallAddEdge
    <3>1. PICK m, n \in 0 .. MaxNodes - 1 :
            IF (IF m > n THEN m ELSE n) + 1 > numNodes
            THEN Grow((IF m > n THEN m ELSE n) + 1) ELSE UNCHANGED forestVars
      BY <2>2 DEF CallAddEdge
    <3>2. PICK size : size = (IF m > n THEN m ELSE n) + 1
      OBVIOUS
    <3>3. size \in Nat
      BY <3>2
    <3>4. size > numNodes => size >= numNodes
      BY <3>3, <1>1
    <3> QED BY <3>1, <3>2, <3>3, <3>4
  <2>3. CASE CallConnected \/ CallGetSize \/ CallGetComponentRoots \/ CallGetComponentIds
    BY <2>3 DEF CallConnected, CallGetSize, CallGetComponentRoots, CallGetComponentIds
  <2> QED BY <2>1, <2>2, <2>3
<1>4. CASE UNCHANGED forestVars
  <2>1. numNodes' = numNodes /\ class' = class
    BY <1>4 DEF forestVars
  <2>2. \A n \in 0 .. numNodes - 1 : n < numNodes
    BY <1>1
  <2>3. class = [n \in 0 .. numNodes - 1 |-> IF n < numNodes THEN class[n] ELSE {n}]
    BY <1>1, <2>2
  <2>4. numNodes >= numNodes
    BY <1>1
  <2> QED BY <2>1, <2>3, <2>4, <1>1, <1>2 DEF Part!Call
<1>5. ASSUME NEW size \in Nat, size >= numNodes, Grow(size) PROVE Part!Call
  <2>1. /\ numNodes' = size
        /\ class' = [n \in 0 .. size - 1 |-> IF n \in Nodes THEN class[n] ELSE {n}]
    BY <1>5 DEF Grow
  <2>2. \A n \in 0 .. size - 1 : n \in Nodes <=> n < numNodes
    BY <1>1
  <2>3. class' = [n \in 0 .. size - 1 |-> IF n < numNodes THEN class[n] ELSE {n}]
    BY <2>1, <2>2
  <2> QED BY <2>1, <2>3, <1>2, <1>5 DEF Part!Call
<1> QED BY <1>3, <1>4, <1>5

\* Every call answers what the graph says at that moment, whatever sequence of
\* edges and queries, each of which rewrites the forest, came before: the
\* finder implements the graph whose components its comments speak of.
THEOREM Refinement == Spec => Part!Spec
<1>1. Init => Part!Init /\ CallInv
  <2> SUFFICES ASSUME Init PROVE Part!Init /\ CallInv
    OBVIOUS
  <2>1. Part!Init
    BY DEF Init, Part!Init, NoResult, Part!NoResult, Returned, Part!Returned
  <2>2. CallInv
    <3>1. Len(<< >>) = 0
      OBVIOUS
    <3> QED BY <3>1 DEF Init, CallInv
  <2> QED BY <2>1, <2>2
<1>2. IInv /\ LazyInv /\ CallInv /\ [Next]_vars => CallInv' /\ LazyInv'
  BY NextCallInv, NextLazyInv
<1>3. /\ IInv /\ LazyInv /\ CallInv /\ CountsMatchForest
      /\ [Next]_vars
      => [Part!Next]_(Part!vars)
  <2> SUFFICES ASSUME IInv, LazyInv, CallInv, CountsMatchForest, [Next]_vars
               PROVE  [Part!Next]_(Part!vars)
    OBVIOUS
  <2>1. CASE \/ SetNumberOfNodes \/ CallAddEdge \/ CallConnected \/ CallGetSize
             \/ CallGetComponentRoots \/ CallGetComponentIds
    BY <2>1, StartsAreCalls DEF Part!Next
  <2>2. CASE FindNext \/ SearchStep \/ SearchEnd \/ CompressStep \/ CompressEnd
             \/ UNCHANGED vars
    BY <2>2 DEF FindNext, SearchStep, SearchEnd, CompressStep, CompressEnd, vars,
       forestVars, Part!vars
  <2>3. CASE AddEdge \/ Connected \/ GetSize \/ GetComponentRoots \/ GetComponentIds
    BY <2>3, AddEdgeAnswers, ConnectedAnswers, GetSizeAnswers, GetComponentRootsAnswers,
       GetComponentIdsAnswers DEF Part!Next
  <2> QED BY <2>1, <2>2, <2>3 DEF Next, Running
<1>4. Init => LazyInv
  BY InitLazyInv
<1> QED BY <1>1, <1>2, <1>3, <1>4, Invariance, Counting, PTL DEF Spec, Part!Spec

=============================================================================
