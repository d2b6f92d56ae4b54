------------------------------- MODULE MCGraph -------------------------------
(* Two nodes, an edge between them and a loop on the first. *)
EXTENDS Graph
CONSTANTS n1, n2, e1, e2
MCNodeIDs == {n1, n2}
MCEdgeIDs == {e1, e2}
MCEnds == [e \in MCEdgeIDs |-> IF e = e1 THEN <<n1, n2>> ELSE <<n1, n1>>]
=============================================================================
