--------------------------- MODULE MCReplication ---------------------------
(***************************************************************************)
(* One pod with the nodes p and q and the edge pq; hub A owns the node a.  *)
(***************************************************************************)
EXTENDS Replication

MCEnds == [e \in Edges |-> <<"p", "q">>]
MCOrigin == [x \in Elements |-> IF x = "a" THEN "A" ELSE "pod"]

Deployment(hubs, elements, m, n) ==
    [hubs |-> hubs, elements |-> elements, podBreaks |-> m, peerBreaks |-> n]
\* A pod that reconnects to its only hub, and two hubs that lose one another.
MCDeployments == {Deployment({"A"}, {"p", "q", "pq"}, 1, 0),
                  Deployment({"A", "B"}, {"p", "a"}, 0, 1)}
\* The pod switches to another hub, the hubs lose one another, the pod has an
\* edge.
MCSwitch == {Deployment({"A", "B"}, {"p"}, 1, 0)}
MCPartition == {Deployment({"A", "B"}, {"p"}, 0, 1)}
MCEdge == {Deployment({"A", "B"}, {"p", "q", "pq"}, 0, 0)}
=============================================================================
