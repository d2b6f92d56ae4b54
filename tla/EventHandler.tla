---------------------------- MODULE EventHandler ----------------------------
(***************************************************************************)
(* The event handler of a graph or of an indexer (graffiti/graph/graph.go):*)
(* NotifyEvent pushes an event on a bounded channel and the outermost call *)
(* hands the queued events, one after the other, to the registered         *)
(* listeners.  It all runs on the goroutine that holds the graph lock;     *)
(* what makes it intricate is the nesting: a listener called back may      *)
(* change the graph and so call NotifyEvent again.                         *)
(*                                                                         *)
(* An event is named by its rank among those of one outermost call.        *)
(***************************************************************************)
EXTENDS Naturals, Sequences, SequencesExt, FiniteSets

CONSTANTS Listeners,
          None,          \* the nil listener: who changes the graph from outside
          ReactsTo,      \* the sources of events to which a listener reacts
          MaxBurst,      \* bound: events a reaction emits (delNode: one per edge)
          MaxListeners,  \* bound: length of eventListeners
          maxEvents      \* capacity of eventChan

Sources == Listeners \cup {None}

ASSUME NoneAssumption == None \notin Listeners
ASSUME ReactsAssumption == ReactsTo \in [Listeners -> SUBSET Sources]
ASSUME BoundsAssumption == maxEvents \in Nat \ {0} /\ MaxBurst \in Nat /\ MaxListeners \in Nat

NoEvent == [id |-> 0, listener |-> None]

VARIABLES eventListeners,        \* the registered listeners
          eventChan,             \* the queued events
          eventConsumed,         \* an outer NotifyEvent is consuming
          currentEventListener,
          pc,                    \* where the goroutine is
          ge, i,                 \* event being handed out, rank of the listener
          todo,                  \* events the running callback has still to emit
          emitted,               \* who changed the graph, for every event of this call
          delivered              \* how often each listener received each event

vars == <<eventListeners, eventChan, eventConsumed, currentEventListener, pc, ge, i,
          todo, emitted, delivered>>

Nobody == [l \in Listeners |-> 0]

Init ==
  /\ eventListeners = <<>>
  /\ eventChan = <<>>
  /\ eventConsumed = FALSE
  /\ currentEventListener = None
  /\ pc = "idle"
  /\ ge = NoEvent /\ i = 0 /\ todo = 0
  /\ emitted = <<>>
  /\ delivered = <<>>
-----------------------------------------------------------------------------
\* The handler's own RWMutex keeps these two out of notifyListeners.
AddEventListener(l) ==
  /\ pc = "idle"
  /\ Len(eventListeners) < MaxListeners
  /\ eventListeners' = Append(eventListeners, l)
  /\ emitted' = <<>> /\ delivered' = <<>>
  /\ UNCHANGED <<eventChan, eventConsumed, currentEventListener, pc, ge, i, todo>>

\* Only the first occurrence goes.
RemoveEventListener(l) ==
  /\ pc = "idle"
  /\ \E k \in DOMAIN eventListeners :
       /\ eventListeners[k] = l /\ \A j \in 1 .. k - 1 : eventListeners[j] # l
       /\ eventListeners' = RemoveAt(eventListeners, k)
  /\ emitted' = <<>> /\ delivered' = <<>>
  /\ UNCHANGED <<eventChan, eventConsumed, currentEventListener, pc, ge, i, todo>>

\* The event with its rank and the listener NotifyEvent blames for it.
Event(n) == [id |-> n, listener |-> currentEventListener]

\* NotifyEvent called from outside any callback: the outermost call.
NotifyOuter ==
  /\ pc = "idle"
  /\ Len(eventChan) < maxEvents
  /\ eventChan' = Append(eventChan, Event(1))
  /\ IF eventConsumed THEN UNCHANGED <<eventConsumed, pc>>
                      ELSE eventConsumed' = TRUE /\ pc' = "consume"
  /\ emitted' = <<None>> /\ delivered' = <<Nobody>>
  /\ UNCHANGED <<eventListeners, currentEventListener, ge, i, todo>>

\* NotifyEvent called by the listener being called back: it pushes its event,
\* blocking as long as the channel is full, and returns.
MutNotifyNested ==
  /\ pc = "callback"
  /\ todo > 0
  /\ Len(eventChan) < maxEvents
  /\ eventChan' = <<Event(Len(emitted) + 1)>> \o eventChan
  /\ emitted' = Append(emitted, currentEventListener)
  /\ delivered' = Append(delivered, Nobody)
  /\ todo' = todo - 1
  /\ UNCHANGED <<eventListeners, eventConsumed, currentEventListener, pc, ge, i>>

NotifyNested ==
  /\ pc = "callback"
  /\ todo > 0
  /\ Len(eventChan) < maxEvents
  /\ eventChan' = Append(eventChan, Event(Len(emitted) + 1))
  /\ emitted' = Append(emitted, currentEventListener)
  /\ delivered' = Append(delivered, Nobody)
  /\ todo' = todo - 1
  /\ UNCHANGED <<eventListeners, eventConsumed, currentEventListener, pc, ge, i>>

\* Mutant: the consuming loop without its exit.
MutConsumeSpin ==
  /\ pc = "consume"
  /\ IF eventChan # <<>>
       THEN ge' = Head(eventChan) /\ eventChan' = Tail(eventChan) /\ i' = 1
       ELSE ge' = NoEvent /\ i' = Len(eventListeners) + 1 /\ UNCHANGED eventChan
  /\ pc' = "notify"
  /\ UNCHANGED <<eventListeners, eventConsumed, currentEventListener, todo, emitted, delivered>>

\* The consuming loop: the next event, or the end of the outermost call.
Consume ==
  /\ pc = "consume"
  /\ IF eventChan # <<>>
       THEN /\ ge' = Head(eventChan) /\ eventChan' = Tail(eventChan)
            /\ i' = 1 /\ pc' = "notify"
            /\ UNCHANGED <<eventConsumed, currentEventListener>>
       ELSE /\ currentEventListener' = None /\ eventConsumed' = FALSE
            /\ ge' = NoEvent /\ i' = 0 /\ pc' = "idle"
            /\ UNCHANGED eventChan
  /\ UNCHANGED <<eventListeners, todo, emitted, delivered>>

\* notifyListeners: the listener that generated the event is passed over.
Generated(l) == l = ge.listener

\* A callback emits nothing, or up to MaxBurst events when it reacts.
Reactions(l) == IF emitted[ge.id] \in ReactsTo[l] THEN 0 .. MaxBurst ELSE {0}

NotifyListener ==
  /\ pc = "notify"
  /\ i <= Len(eventListeners)
  /\ LET l == eventListeners[i]
     IN /\ currentEventListener' = l
        /\ IF Generated(l)
             THEN i' = i + 1 /\ UNCHANGED <<pc, todo, delivered>>
             ELSE /\ pc' = "callback" /\ todo' \in Reactions(l)
                  /\ delivered' = [delivered EXCEPT ![ge.id][l] = @ + 1]
                  /\ UNCHANGED i
  /\ UNCHANGED <<eventListeners, eventChan, eventConsumed, ge, emitted>>

\* The callback returns.
Return ==
  /\ pc = "callback"
  /\ todo = 0
  /\ pc' = "notify" /\ i' = i + 1
  /\ UNCHANGED <<eventListeners, eventChan, eventConsumed, currentEventListener, ge, todo, emitted, delivered>>

Notified ==
  /\ pc = "notify"
  /\ i > Len(eventListeners)
  /\ pc' = "consume"
  /\ UNCHANGED <<eventListeners, eventChan, eventConsumed, currentEventListener, ge, i, todo, emitted, delivered>>

\* The steps of a call of NotifyEvent, all on one goroutine.
Step == NotifyNested \/ Consume \/ NotifyListener \/ Return \/ Notified

Next ==
  \/ \E l \in Listeners : AddEventListener(l) \/ RemoveEventListener(l)
  \/ NotifyOuter
  \/ Step

Spec == Init /\ [][Next]_vars /\ WF_vars(Step)
-----------------------------------------------------------------------------
\* Every variable has its type.
TypeOK ==
  /\ eventListeners \in Seq(Listeners)
  /\ eventChan \in Seq([id : Nat \ {0}, listener : Sources]) /\ Len(eventChan) <= maxEvents
  /\ eventConsumed \in BOOLEAN
  /\ currentEventListener \in Sources
  /\ pc \in {"idle", "consume", "notify", "callback"}
  /\ ge \in {NoEvent} \cup [id : Nat \ {0}, listener : Sources]
  /\ i \in 0 .. MaxListeners + 1 /\ todo \in 0 .. MaxBurst
  /\ emitted \in Seq(Sources)
  /\ delivered \in Seq([Listeners -> Nat])

\* The changes are told in the order in which they were made, nested ones
\* included ("nested notification will be sent in the right order"), to every
\* listener but the one that made the change, once per registration, and all
\* of them before the outermost NotifyEvent returns.
Occurrences(l) == Cardinality({k \in DOMAIN eventListeners : eventListeners[k] = l})
B == INSTANCE Broadcast
       WITH registered <- [l \in Listeners |-> Occurrences(l)], busy <- pc # "idle"
ImplementsBroadcast == B!Spec

\* Every call of NotifyEvent ends, provided what the reactions emit fits the
\* channel: a callback that finds it full waits for its own goroutine.
CallEnds == []<>(pc = "idle")
=============================================================================
