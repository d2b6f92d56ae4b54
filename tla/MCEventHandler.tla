--------------------------- MODULE MCEventHandler ---------------------------
(* a reacts to outside changes, b to those of a; both would react to their   *)
(* own, c only listens.  The channel holds what the reactions can emit.      *)
EXTENDS EventHandler
CONSTANTS a, b, c
MCListeners == {a, b, c}
MCReactsTo == [l \in MCListeners |-> CASE l = a -> {None, a} [] l = b -> {a, b} [] l = c -> {}]
=============================================================================
