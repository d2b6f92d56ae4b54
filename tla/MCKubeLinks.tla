---------------------------- MODULE MCKubeLinks ----------------------------
(***************************************************************************)
(* KubeLinks with a service, a pod, the two containers that it may have    *)
(* and a docker container.  Labels and containers are interchangeable.     *)
(***************************************************************************)
EXTENDS KubeLinks, TLC

Symmetry == Permutations(Values) \cup Permutations(Conts)
=============================================================================
