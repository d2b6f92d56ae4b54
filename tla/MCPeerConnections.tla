------------------------- MODULE MCPeerConnections -------------------------
(***************************************************************************)
(* Hubs A and B list each other (ab, ba), and A lists C (ac), which does   *)
(* not list A.  In the self configuration A lists itself (aa); in the      *)
(* two-address one, A lists B under two addresses (ab and ab2).            *)
(***************************************************************************)
EXTENDS PeerConnections

MCFrom == [l \in Links |-> IF l = "ba" THEN "B" ELSE "A"]
MCTo == [l \in Links |-> CASE l \in {"ab", "ab2"} -> "B"
                          [] l \in {"ba", "aa"} -> "A"
                          [] l = "ac" -> "C"]
=============================================================================
