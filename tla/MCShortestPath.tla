--------------------------- MODULE MCShortestPath ---------------------------
(* Every graph on four nodes, loops included. *)
EXTENDS ShortestPath
=============================================================================
