-------------------------------- MODULE Dag --------------------------------
(***************************************************************************)
(* The DAG of convenient-graph: nodes, a Vec of edges, and in each node    *)
(* the sets of its neighbours.  add_edge refuses an edge that would close  *)
(* a cycle, but not one that is there already; topological_sort counts the *)
(* edges of the Vec and discounts the neighbours of the sets.              *)
(***************************************************************************)
EXTENDS Integers, Bags, SequencesExt

CONSTANTS
    Nodes,          \* the ids that add_node gives out
    MaxEdges        \* bound on the edges, equal ones counted each

ASSUME NodesFinite == IsFiniteSet(Nodes)

VARIABLES
    nodes,          \* the nodes added
    edges,          \* the edges added, <<from, to>>, as a bag
    degrees,        \* in_degree of the running sort
    ready,          \* its queue
    order,          \* its result
    state           \* "building", "sorting", or how the sort returned

dagVars == <<nodes, edges, degrees, ready, order, state>>

DagInit ==
    /\ nodes = {}
    /\ edges = EmptyBag
    /\ degrees = [n \in Nodes |-> 0]
    /\ ready = << >>
    /\ order = << >>
    /\ state = "building"

Outgoing(n) == {e[2] : e \in {f \in BagToSet(edges) : f[1] = n}}

(* can_reach: the nodes found from n by going along outgoing edges.        *)
ReachableFrom(n) ==
    LET found[k \in Nat] ==
            IF k = 0 THEN {n}
            ELSE found[k - 1] \cup UNION {Outgoing(m) : m \in found[k - 1]}
    IN found[Cardinality(Nodes)]

(* How often the edges of S are in the Vec.                                *)
EdgeCount(S) == MapThenSumSet(LAMBDA e : edges[e], S)

AddNode(n) ==
    /\ state = "building"
    /\ n \notin nodes
    /\ nodes' = nodes \cup {n}
    /\ UNCHANGED <<edges, degrees, ready, order, state>>

(* add_edge; with a node missing, or a way back, nothing changes.          *)
AddEdge(from, to) ==
    /\ state = "building"
    /\ EdgeCount(BagToSet(edges)) < MaxEdges
    /\ {from, to} \subseteq nodes
    /\ from \notin ReachableFrom(to)
    /\ edges' = edges (+) SetToBag({<<from, to>>})
    /\ UNCHANGED <<nodes, degrees, ready, order, state>>

(* The in-degree counts the edges of the Vec.                              *)
DegreesOfEdges ==
    [n \in Nodes |-> EdgeCount({e \in BagToSet(edges) : e[2] = n})]

StartSort ==
    /\ state = "building"
    /\ degrees' = DegreesOfEdges
    /\ ready' \in SetToSeqs({n \in nodes : degrees'[n] = 0})
    /\ state' = "sorting"
    /\ UNCHANGED <<nodes, edges, order>>

(* One node is placed and the degrees of its neighbours go down by one;    *)
(* those that come to 0 are queued in the order of a HashSet.              *)
Place ==
    /\ state = "sorting"
    /\ ready # << >>
    /\ LET n == Head(ready) IN
           /\ degrees' = [m \in Nodes |-> IF m \in Outgoing(n) THEN degrees[m] - 1 ELSE degrees[m]]
           /\ \E released \in SetToSeqs({m \in Outgoing(n) : degrees'[m] = 0}) :
                  ready' = Tail(ready) \o released
           /\ order' = Append(order, n)
    /\ UNCHANGED <<nodes, edges, state>>

EndSort ==
    /\ state = "sorting"
    /\ ready = << >>
    /\ state' = IF Len(order) = Cardinality(nodes) THEN "sorted" ELSE "cycle"
    /\ UNCHANGED <<nodes, edges, degrees, ready, order>>

DagStep ==
    \/ \E n \in Nodes : AddNode(n)
    \/ \E from, to \in Nodes : AddEdge(from, to)
    \/ StartSort
    \/ Place
    \/ EndSort

-----------------------------------------------------------------------------
(* Types; a degree is a usize and must not fall below 0.                   *)
DagTypeOK ==
    /\ nodes \subseteq Nodes
    /\ BagToSet(edges) \subseteq nodes \X nodes
    /\ degrees \in [Nodes -> Nat]
    /\ ToSet(ready) \cup ToSet(order) \subseteq nodes
    /\ IsInjective(order)

(* Whatever edges are added in whatever order, there is no way back.       *)
NoWayBack == \A e \in BagToSet(edges) : e[1] \notin ReachableFrom(e[2])

(* A node is placed behind all the nodes with an edge to it; and although  *)
(* the graph has no cycle the sort reports one, if and only if two edges   *)
(* lead from the same node to the same node.                               *)
SortFailsOnParallelEdges ==
    /\ \A e \in BagToSet(edges) : \A j \in DOMAIN order :
           order[j] = e[2] => \E i \in 1 .. j - 1 : order[i] = e[1]
    /\ state = "sorted" => \A e \in BagToSet(edges) : edges[e] = 1
    /\ state = "cycle" => \E e \in BagToSet(edges) : edges[e] > 1

(* The graph stays acyclic, and the sort fails on nothing but edges that   *)
(* run side by side.                                                       *)
DagSound ==
    /\ DagTypeOK
    /\ NoWayBack
    /\ SortFailsOnParallelEdges
=============================================================================
