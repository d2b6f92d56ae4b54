----------------------------- MODULE Broadcast -----------------------------
(***************************************************************************)
(* What an event handler promises to its listeners, whatever its queue and *)
(* its loops are: the changes that follow from one change of the graph are *)
(* told one after the other, in the order in which they were made, to      *)
(* every listener but the one that made the change, once per registration. *)
(***************************************************************************)
EXTENDS Naturals, Sequences

CONSTANTS Listeners, None

VARIABLES registered,  \* how many times each listener is registered
          busy,        \* a change and what follows from it is being told
          emitted,     \* who made each change
          delivered    \* how many times each listener was told each change

vars == <<registered, busy, emitted, delivered>>

Nobody == [l \in Listeners |-> 0]

\* How many times the listener l has to be told the change k.
Due(k, l) == IF emitted[k] = l THEN 0 ELSE registered[l]
Told(k) == \A l \in Listeners : delivered[k][l] = Due(k, l)

Init == registered = Nobody /\ ~busy /\ emitted = <<>> /\ delivered = <<>>

\* Listeners come and go between two changes.
Register == /\ ~busy
            /\ registered' \in [Listeners -> Nat]
            /\ emitted' = <<>> /\ delivered' = <<>>
            /\ UNCHANGED busy

\* A change from outside.
Begin == /\ ~busy
         /\ busy' = TRUE
         /\ emitted' = <<None>> /\ delivered' = <<Nobody>>
         /\ UNCHANGED registered

\* A listener that was told a change makes one.
Change(l) == /\ busy
             /\ \E k \in DOMAIN delivered : delivered[k][l] > 0
             /\ emitted' = Append(emitted, l)
             /\ delivered' = Append(delivered, Nobody)
             /\ UNCHANGED <<registered, busy>>

\* The listener l is told the change k; the earlier ones are history.
Deliver(k, l) == /\ busy
                 /\ \A j \in 1 .. k - 1 : Told(j)
                 /\ delivered[k][l] < Due(k, l)
                 /\ delivered' = [delivered EXCEPT ![k][l] = @ + 1]
                 /\ UNCHANGED <<registered, busy, emitted>>

End == /\ busy
       /\ \A k \in DOMAIN emitted : Told(k)
       /\ busy' = FALSE
       /\ UNCHANGED <<registered, emitted, delivered>>

Next == \/ Register \/ Begin \/ End
        \/ \E l \in Listeners : Change(l) \/ \E k \in DOMAIN delivered : Deliver(k, l)

Spec == Init /\ [][Next]_vars
=============================================================================
