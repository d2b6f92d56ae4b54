---------------------------- MODULE ShortestPath ----------------------------
(***************************************************************************)
(* Graph.LookupShortestPath (graffiti/graph/graph.go): Dijkstra from the   *)
(* target over unit edges, then a walk along previous from the node n.     *)
(* Distances are unsigned integers of Width bits and ^uint(0) stands for   *)
(* infinity, so that infinity + 1 is 0: nodes that are not connected to    *)
(* the target do get a previous node.  The order of the map iterations is  *)
(* a nondeterministic choice.                                              *)
(***************************************************************************)
EXTENDS Naturals, Sequences, SequencesExt, FiniteSets

CONSTANTS Nodes,     \* the nodes of the graph
          Width      \* bits of an unsigned integer

ASSUME WidthAssumption == Width \in Nat /\ 2 ^ Width > Cardinality(Nodes) + 1

VARIABLES links,     \* the edges that match em, as sets of one or two nodes
          n, target,
          nodesMap,  \* nodes Dijkstra has not visited yet
          distance, previous,
          pc, node, retNodes

vars == <<links, n, target, nodesMap, distance, previous, pc, node, retNodes>>

MaxUint == 2 ^ Width - 1
Uint(x) == x % (2 ^ Width)
NoNode == <<>>

getNeighborNodes(u) == {v \in Nodes : {u, v} \in links}

Init ==
  /\ links \in SUBSET {{u, v} : u, v \in Nodes}
  /\ n \in Nodes /\ target \in Nodes
  /\ nodesMap = Nodes
  /\ distance = [v \in Nodes |-> IF v = target THEN 0 ELSE MaxUint]
  /\ previous = [v \in Nodes |-> NoNode]
  /\ pc = "visit"
  /\ node = n
  /\ retNodes = <<>>

\* getNodeMinDistance: the unvisited nodes it may return.
Closest == {u \in nodesMap : \A v \in nodesMap : distance[u] <= distance[v]}

\* The neighbours of u whose distance the visit of u improves.
Improved(u) == {v \in getNeighborNodes(u) \cap (nodesMap \ {u}) : Uint(distance[u] + 1) < distance[v]}

MutVisit(u) ==
  /\ pc = "visit"
  /\ u \in Closest
  /\ distance' = [v \in Nodes |-> IF v \in Improved(u) THEN Uint(distance[u] + 1) ELSE distance[v]]
  /\ previous' = [v \in Nodes |-> IF v \in Improved(u) THEN u ELSE previous[v]]
  /\ UNCHANGED <<links, n, target, nodesMap, pc, node, retNodes>>

Visit(u) ==
  /\ pc = "visit"
  /\ u \in Closest
  /\ nodesMap' = nodesMap \ {u}
  /\ distance' = [v \in Nodes |-> IF v \in Improved(u) THEN Uint(distance[u] + 1) ELSE distance[v]]
  /\ previous' = [v \in Nodes |-> IF v \in Improved(u) THEN u ELSE previous[v]]
  /\ UNCHANGED <<links, n, target, pc, node, retNodes>>

Visited ==
  /\ pc = "visit"
  /\ nodesMap = {}
  /\ pc' = "walk"
  /\ UNCHANGED <<links, n, target, nodesMap, distance, previous, node, retNodes>>

\* One turn of the loop that collects the path.
Walk ==
  /\ pc = "walk"
  /\ retNodes' = Append(retNodes, node)
  /\ IF previous[node] \in {NoNode, node} THEN pc' = "check" /\ UNCHANGED node
                                         ELSE node' = previous[node] /\ UNCHANGED pc
  /\ UNCHANGED <<links, n, target, nodesMap, distance, previous>>

MutCheck ==
  /\ pc = "check"
  /\ pc' = "done"
  /\ UNCHANGED <<links, n, target, nodesMap, distance, previous, node, retNodes>>

Check ==
  /\ pc = "check"
  /\ retNodes' = IF node # target THEN <<>> ELSE retNodes
  /\ pc' = "done"
  /\ UNCHANGED <<links, n, target, nodesMap, distance, previous, node>>

Next == (\E u \in Nodes : Visit(u)) \/ Visited \/ Walk \/ Check

Spec == Init /\ [][Next]_vars /\ WF_vars(Next)
-----------------------------------------------------------------------------
(* Reference: the nodes at most k edges away from the target. *)
Ball[k \in Nat] ==
  IF k = 0 THEN {target}
           ELSE Ball[k - 1] \cup {v \in Nodes : getNeighborNodes(v) \cap Ball[k - 1] # {}}

Reachable == Ball[Cardinality(Nodes)]
Hops(v) == CHOOSE k \in 0 .. Cardinality(Nodes) : v \in Ball[k] /\ \A j \in 0 .. k - 1 : v \notin Ball[j]

\* Every variable has its type.
TypeOK ==
  /\ nodesMap \subseteq Nodes
  /\ distance \in [Nodes -> 0 .. MaxUint]
  /\ \A v \in Nodes : previous[v] \in Nodes \/ previous[v] = NoNode
  /\ pc \in {"visit", "walk", "check", "done"}
  /\ node \in Nodes
  /\ Len(retNodes) <= Cardinality(Nodes)

\* The result is a path of the graph from n to the target, none is shorter, and
\* there is no result exactly when there is no path, although infinity + 1
\* wraps to 0 in the part of the graph the target does not reach.
ShortestPathFound ==
  pc = "done" =>
    IF n \notin Reachable
      THEN retNodes = <<>>
      ELSE /\ Len(retNodes) = Hops(n) + 1
           /\ retNodes[1] = n /\ Last(retNodes) = target
           /\ \A k \in 1 .. Len(retNodes) - 1 : {retNodes[k], retNodes[k + 1]} \in links

\* The walk along previous ends: it never runs in a circle.
Terminates == <>(pc = "done")
=============================================================================
