-------------------------- MODULE MCMasterElection --------------------------
(***************************************************************************)
(* A pod with up to three hubs whose connections are lost a few times: a   *)
(* master is lost while another hub is up, connecting, or being lost too.  *)
(***************************************************************************)
EXTENDS MasterElection
=============================================================================
