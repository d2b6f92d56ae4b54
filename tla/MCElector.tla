----------------------------- MODULE MCElector -----------------------------
(***************************************************************************)
(* Three services that start, stop, crash and restart, and one etcd        *)
(* request that fails; two services for the disagreements.                 *)
(***************************************************************************)
EXTENDS Elector
=============================================================================
