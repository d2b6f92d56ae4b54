---------------------------- MODULE MCFlowTable ----------------------------
(* Two flows, one of them of an application with a timeout.                *)
EXTENDS FlowTable

MCAppTimeout == [k \in Keys |-> IF k = "dns" THEN 1 ELSE 0]
============================================================================
