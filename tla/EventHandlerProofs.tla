------------------------- MODULE EventHandlerProofs -------------------------
(***************************************************************************)
(* The event handler implements Broadcast, for every set of listeners, any *)
(* reactions, any capacity of the channel and any length of the list.      *)
(*                                                                         *)
(* The inductive invariant says where the goroutine is in the list of      *)
(* changes: those before the event it hands out were told to everybody,    *)
(* that event to the listeners up to the current one, and the later ones   *)
(* are in the channel, in order, with the listener that made them.         *)
(***************************************************************************)
EXTENDS EventHandler, FiniteSetTheorems, TLAPS

\* How often l is among the first m elements of s.
Count(s, l, m) == Cardinality({q \in 1 .. m : s[q] = l})

\* The number of listeners that are done with the event handed out.
Done == IF pc = "callback" THEN i ELSE i - 1

Types ==
  /\ eventListeners \in Seq(Listeners)
  /\ eventChan \in Seq([id : Nat, listener : Sources])
  /\ ge \in [id : Nat, listener : Sources]
  /\ currentEventListener \in Sources
  /\ pc \in {"idle", "consume", "notify", "callback"}
  /\ i \in Nat
  /\ emitted \in Seq(Sources)
  /\ delivered \in Seq([Listeners -> Nat])
  /\ Len(delivered) = Len(emitted)

Idle ==
  pc = "idle" => /\ eventChan = <<>> /\ ge = NoEvent
                 /\ ~eventConsumed /\ currentEventListener = None

\* The channel holds the changes after the one that is handed out.
Queue ==
  pc # "idle" =>
    /\ ge.id + Len(eventChan) = Len(emitted)
    /\ \A j \in 1 .. Len(eventChan) :
          eventChan[j] = [id |-> ge.id + j, listener |-> emitted[ge.id + j]]
    /\ ge.id > 0 => ge.listener = emitted[ge.id]

Place ==
  /\ pc \in {"notify", "callback"} =>
        ge.id > 0 /\ i > 0 /\ i <= Len(eventListeners) + 1
  /\ pc = "consume" /\ ge.id > 0 => i = Len(eventListeners) + 1
  /\ pc = "callback" => /\ i <= Len(eventListeners)
                        /\ currentEventListener = eventListeners[i]
                        /\ currentEventListener # ge.listener

Progress ==
  pc # "idle" =>
    \A j \in 1 .. Len(emitted), l \in Listeners :
      delivered[j][l] = IF j > ge.id \/ emitted[j] = l THEN 0
                        ELSE IF j = ge.id THEN Count(eventListeners, l, Done)
                        ELSE Count(eventListeners, l, Len(eventListeners))

Inv == Types /\ Idle /\ Queue /\ Place /\ Progress

---------------------------------------------------------------------------
\* The listener added to a prefix of the list counts once more, the others as
\* before.
LEMMA CountNext ==
  ASSUME Types, NEW m \in Nat, NEW l
  PROVE  /\ Count(eventListeners, l, m) \in Nat
         /\ Count(eventListeners, l, m + 1) = IF eventListeners[m + 1] = l THEN Count(eventListeners, l, m) + 1
                                                           ELSE Count(eventListeners, l, m)
<1> DEFINE S(k) == {q \in 1 .. k : eventListeners[q] = l}
<1>1. IsFiniteSet(S(m))
  <2>1. IsFiniteSet(1 .. m)
    BY FS_Interval
  <2> QED BY <2>1, FS_Subset, S(m) \subseteq 1 .. m
<1>2. Count(eventListeners, l, m) = Cardinality(S(m)) /\ Count(eventListeners, l, m + 1) = Cardinality(S(m + 1))
  BY DEF Count
<1>3. CASE eventListeners[m + 1] = l
  <2>1. S(m + 1) = S(m) \cup {m + 1} /\ m + 1 \notin S(m)
    BY <1>3
  <2> QED BY <2>1, <1>1, <1>2, <1>3, FS_AddElement, FS_CardinalityType, ZenonT(30)
<1>4. CASE eventListeners[m + 1] # l
  <2>1. S(m + 1) = S(m)
    BY <1>4
  <2> QED BY <2>1, <1>1, <1>2, <1>4, FS_CardinalityType, ZenonT(30)
<1> QED BY <1>3, <1>4

\* A longer prefix counts no less.
LEMMA CountBound ==
  ASSUME NEW m \in Nat, NEW k \in Nat, m <= k, NEW l
  PROVE  Count(eventListeners, l, m) \in Nat /\ Count(eventListeners, l, k) \in Nat /\ Count(eventListeners, l, m) <= Count(eventListeners, l, k)
<1> DEFINE S(j) == {q \in 1 .. j : eventListeners[q] = l}
<1>1. IsFiniteSet(S(k)) /\ IsFiniteSet(S(m))
  <2>1. IsFiniteSet(1 .. k) /\ IsFiniteSet(1 .. m)
    BY FS_Interval
  <2>2. S(k) \subseteq 1 .. k /\ S(m) \subseteq 1 .. m
    OBVIOUS
  <2> QED BY <2>1, <2>2, FS_Subset
<1>2. S(m) \subseteq S(k)
  OBVIOUS
<1> QED BY <1>1, <1>2, FS_Subset, FS_CardinalityType DEF Count

\* The whole list has the occurrences of the refinement mapping.
LEMMA CountAll ==
  ASSUME Types, NEW l
  PROVE  Count(eventListeners, l, Len(eventListeners)) = Occurrences(l)
<1>1. DOMAIN eventListeners = 1 .. Len(eventListeners)
  BY DEF Types
<1>2. {q \in 1 .. Len(eventListeners) : eventListeners[q] = l}
        = {k \in DOMAIN eventListeners : eventListeners[k] = l}
  BY <1>1
<1> QED BY <1>2, SMTT(30) DEF Count, Occurrences

\* The head and the tail of a channel that is not empty.
LEMMA HeadTailType ==
  ASSUME NEW S, NEW s \in Seq(S), s # <<>>
  PROVE  Head(s) \in S /\ Tail(s) \in Seq(S)
OBVIOUS

\* RemoveEventListener leaves a list of listeners.
LEMMA RemoveAtType ==
  ASSUME Types, NEW k \in 1 .. Len(eventListeners)
  PROVE  RemoveAt(eventListeners, k) \in Seq(Listeners)
BY DEF Types, RemoveAt

---------------------------------------------------------------------------
LEMMA InvInit == Init => Inv
<1> SUFFICES ASSUME Init PROVE Inv
  OBVIOUS
<1>1. Types
  BY DEF Init, Types, NoEvent, Sources
<1> QED BY <1>1 DEF Init, Inv, Idle, Queue, Place, Progress

\* While nothing but the list of listeners changes, the handler is idle.
LEMMA ListChanged ==
  ASSUME Inv, pc = "idle", eventListeners' \in Seq(Listeners),
         emitted' = <<>>, delivered' = <<>>,
         UNCHANGED <<eventChan, eventConsumed, currentEventListener, pc, ge, i>>
  PROVE  Inv'
<1>1. Types'
  BY DEF Inv, Types
<1> QED BY <1>1 DEF Inv, Idle, Queue, Place, Progress

LEMMA InvOuter == Inv /\ NotifyOuter => Inv'
<1> SUFFICES ASSUME Inv, NotifyOuter PROVE Inv'
  OBVIOUS
<1>1. /\ eventChan = <<>> /\ ge = NoEvent /\ currentEventListener = None
      /\ ~eventConsumed /\ eventConsumed' = TRUE /\ pc' = "consume"
  BY DEF Inv, Idle, NotifyOuter
<1>2. /\ eventChan' = <<[id |-> 1, listener |-> None]>>
      /\ emitted' = <<None>> /\ delivered' = <<Nobody>>
  BY <1>1 DEF NotifyOuter, Event, Inv, Types
<1>3. Types'
  BY <1>1, <1>2 DEF Inv, Types, NotifyOuter, Nobody, Sources
<1>4. Queue' /\ Place' /\ Idle'
  BY <1>1, <1>2 DEF Queue, Place, Idle, NotifyOuter, NoEvent
<1>5. Progress'
  BY <1>1, <1>2 DEF Progress, NotifyOuter, NoEvent, Nobody
<1> QED BY <1>3, <1>4, <1>5 DEF Inv

LEMMA InvNested == Inv /\ NotifyNested => Inv'
<1> SUFFICES ASSUME Inv, NotifyNested PROVE Inv'
  OBVIOUS
<1>1. /\ pc = "callback" /\ UNCHANGED <<eventListeners, pc, ge, i, currentEventListener>>
      /\ emitted' = Append(emitted, currentEventListener)
      /\ delivered' = Append(delivered, Nobody)
      /\ eventChan' = Append(eventChan, [id |-> Len(emitted) + 1,
                                         listener |-> currentEventListener])
  BY DEF NotifyNested, Event
<1>2. Types'
  BY <1>1 DEF Inv, Types, Nobody, Sources
<1>3. Queue'
  BY <1>1, SMTT(30) DEF Inv, Types, Queue
<1>4. Idle' /\ Place'
  BY <1>1 DEF Inv, Types, Idle, Place
<1>5. Progress'
  <2> SUFFICES ASSUME NEW j \in 1 .. Len(emitted'), NEW l \in Listeners
               PROVE  delivered'[j][l] = IF j > ge.id \/ emitted'[j] = l THEN 0
                        ELSE IF j = ge.id THEN Count(eventListeners, l, Done)
                        ELSE Count(eventListeners, l, Len(eventListeners))
    <3>1. Done' = Done /\ eventListeners' = eventListeners /\ ge' = ge
      BY <1>1 DEF Done
    <3> QED BY <3>1 DEF Progress
  <2>1. CASE j \in 1 .. Len(emitted)
    BY <1>1, <2>1 DEF Inv, Types, Progress
  <2>2. CASE j = Len(emitted) + 1
    <3>1. j > ge.id
      BY <1>1, <2>2 DEF Inv, Types, Queue
    <3> QED BY <1>1, <2>2, <3>1 DEF Inv, Types, Nobody
  <2> QED BY <1>1, <2>1, <2>2 DEF Inv, Types
<1> QED BY <1>2, <1>3, <1>4, <1>5 DEF Inv

LEMMA InvConsume == Inv /\ Consume => Inv'
<1> SUFFICES ASSUME Inv, Consume PROVE Inv'
  OBVIOUS
<1>1. pc = "consume" /\ UNCHANGED <<eventListeners, emitted, delivered>>
  BY DEF Consume
<1>2. CASE eventChan # <<>>
  <2>1. /\ ge' = Head(eventChan) /\ eventChan' = Tail(eventChan) /\ i' = 1
        /\ pc' = "notify" /\ UNCHANGED currentEventListener
    BY <1>2 DEF Consume
  <2>2. /\ eventChan \in Seq([id : Nat, listener : Sources])
        /\ Len(eventChan) \in Nat \ {0} /\ 1 \in 1 .. Len(eventChan)
    BY <1>2 DEF Inv, Types
  <2>3. ge' = [id |-> ge.id + 1, listener |-> emitted[ge.id + 1]]
    <3>1. ge' = eventChan[1]
      BY <2>1, <2>2
    <3> QED BY <1>1, <2>2, <3>1 DEF Inv, Queue
  <2>4. /\ Len(eventChan') = Len(eventChan) - 1
        /\ \A j \in 1 .. Len(eventChan') : eventChan'[j] = eventChan[j + 1]
    BY <2>1, <2>2
  <2>5. Types'
    <3>1. /\ ge' \in [id : Nat, listener : Sources]
          /\ eventChan' \in Seq([id : Nat, listener : Sources])
      BY <1>2, <2>1, <2>2, HeadTailType, ZenonT(30)
    <3> QED BY <1>1, <2>1, <3>1 DEF Inv, Types
  <2>6. Queue'
    <3>1. ge'.id = ge.id + 1 /\ ge'.listener = emitted[ge'.id] /\ ge.id \in Nat
      BY <2>3, SMTT(30) DEF Inv, Types
    <3>2. \A j \in 1 .. Len(eventChan') :
             eventChan'[j] = [id |-> ge'.id + j, listener |-> emitted[ge'.id + j]]
      <4> SUFFICES ASSUME NEW j \in 1 .. Len(eventChan')
                   PROVE  eventChan'[j] = [id |-> ge'.id + j, listener |-> emitted[ge'.id + j]]
        OBVIOUS
      <4>1. j + 1 \in 1 .. Len(eventChan)
        BY <2>2, <2>4
      <4>2. ge.id + (j + 1) = ge'.id + j
        BY <3>1
      <4> QED BY <1>1, <2>4, <4>1, <4>2 DEF Inv, Queue
    <3>3. ge.id + Len(eventChan) = Len(emitted)
      BY <1>1 DEF Inv, Queue
    <3>4. ge'.id + Len(eventChan') = Len(emitted)
      BY <2>2, <2>4, <3>1, <3>3
    <3> QED BY <1>1, <3>1, <3>2, <3>4, ZenonT(30) DEF Queue
  <2>7. Idle' /\ Place'
    BY <1>1, <2>1, <2>3, SMTT(30) DEF Inv, Types, Idle, Place
  <2>8. Progress'
    <3> SUFFICES ASSUME NEW j \in 1 .. Len(emitted), NEW l \in Listeners
                 PROVE  delivered[j][l] = IF j > ge'.id \/ emitted[j] = l THEN 0
                          ELSE IF j = ge'.id THEN Count(eventListeners, l, 0)
                          ELSE Count(eventListeners, l, Len(eventListeners))
      <4>1. Done' = 0
        BY <2>1 DEF Done
      <4> QED BY <1>1, <4>1 DEF Progress
    <3>1. delivered[j][l] = IF j > ge.id \/ emitted[j] = l THEN 0
                            ELSE IF j = ge.id THEN Count(eventListeners, l, Done)
                            ELSE Count(eventListeners, l, Len(eventListeners))
      BY <1>1 DEF Inv, Progress
    <3>2. Count(eventListeners, l, 0) = 0
      <4>1. {q \in 1 .. 0 : eventListeners[q] = l} = {}
        OBVIOUS
      <4> QED BY <4>1, FS_EmptySet DEF Count
    <3>3. j = ge.id => Done = Len(eventListeners)
      BY <1>1 DEF Inv, Types, Place, Done
    <3> QED BY <2>3, <3>1, <3>2, <3>3, SMTT(30) DEF Inv, Types
  <2> QED BY <2>5, <2>6, <2>7, <2>8 DEF Inv
<1>3. CASE eventChan = <<>>
  <2>1. Types'
    BY <1>1, <1>3 DEF Consume, Inv, Types, NoEvent, Sources
  <2> QED BY <1>1, <1>3, <2>1 DEF Consume, Inv, Idle, Queue, Place, Progress
<1> QED BY <1>2, <1>3

\* A step to the next listener that tells nobody anything.
LEMMA InvPassed ==
  ASSUME Inv, pc \in {"notify", "callback"}, i' = i + 1, pc' = "notify",
         i <= Len(eventListeners),
         pc = "notify" => eventListeners[i] = ge.listener,
         currentEventListener' \in Sources,
         UNCHANGED <<eventListeners, eventChan, ge, emitted, delivered>>
  PROVE  Inv'
<1>1. Types'
  BY DEF Inv, Types
<1>2. Queue' /\ Idle'
  BY DEF Inv, Queue, Idle
<1>3. Place'
  BY DEF Inv, Types, Place
<1>4. Progress'
  <2> SUFFICES ASSUME NEW j \in 1 .. Len(emitted), NEW l \in Listeners
               PROVE  delivered[j][l] = IF j > ge.id \/ emitted[j] = l THEN 0
                        ELSE IF j = ge.id THEN Count(eventListeners, l, i)
                        ELSE Count(eventListeners, l, Len(eventListeners))
    <3>1. Done' = i
      BY DEF Done, Inv, Types
    <3> QED BY <3>1 DEF Progress
  <2>1. delivered[j][l] = IF j > ge.id \/ emitted[j] = l THEN 0
                          ELSE IF j = ge.id THEN Count(eventListeners, l, Done)
                          ELSE Count(eventListeners, l, Len(eventListeners))
    BY DEF Inv, Progress
  <2>2. CASE j = ge.id /\ emitted[j] # l /\ pc = "notify"
    <3>1. eventListeners[i] # l
      BY <2>2, ZenonT(30) DEF Inv, Queue, Place
    <3>2. i - 1 \in Nat /\ (i - 1) + 1 = i /\ Done = i - 1
      BY <2>2 DEF Inv, Types, Place, Done
    <3>3. Count(eventListeners, l, (i - 1) + 1) = Count(eventListeners, l, i - 1)
      BY <3>1, <3>2, CountNext, SMTT(30) DEF Inv
    <3> QED BY <2>1, <2>2, <3>2, <3>3
  <2>3. CASE ~(j = ge.id /\ emitted[j] # l /\ pc = "notify")
    BY <2>1, <2>3 DEF Done
  <2> QED BY <2>2, <2>3
<1> QED BY <1>1, <1>2, <1>3, <1>4 DEF Inv

LEMMA InvNotify == Inv /\ NotifyListener => Inv'
<1> SUFFICES ASSUME Inv, NotifyListener PROVE Inv'
  OBVIOUS
<1> DEFINE me == eventListeners[i]
<1>1. /\ pc = "notify" /\ i \in 1 .. Len(eventListeners) /\ currentEventListener' = me
      /\ UNCHANGED <<eventListeners, eventChan, ge, emitted>>
  BY DEF Inv, Types, Place, NotifyListener
<1>2. me \in Listeners
  BY <1>1 DEF Inv, Types
<1>3. CASE Generated(me)
  <2>1. i' = i + 1 /\ pc' = "notify" /\ UNCHANGED delivered /\ me = ge.listener
    BY <1>1, <1>3, SMTT(30) DEF NotifyListener, Generated
  <2>2. currentEventListener' \in Sources
    BY <1>1, <1>2 DEF Sources
  <2> QED BY <1>1, <2>1, <2>2, InvPassed
<1>4. CASE ~Generated(me)
  <2>1. /\ pc' = "callback" /\ i' = i /\ me # ge.listener
        /\ delivered' = [delivered EXCEPT ![ge.id][me] = @ + 1]
    BY <1>1, <1>4 DEF NotifyListener, Generated
  <2>2. ge.id \in 1 .. Len(emitted) /\ ge.listener = emitted[ge.id] /\ ge.id \in Nat
    BY <1>1, SMTT(30) DEF Inv, Types, Queue, Place
  <2>3. /\ delivered' \in Seq([Listeners -> Nat]) /\ Len(delivered') = Len(delivered)
        /\ \A j \in 1 .. Len(emitted), l \in Listeners :
              delivered'[j][l] = IF j = ge.id /\ l = me THEN delivered[j][l] + 1
                                 ELSE delivered[j][l]
    <3>1. delivered \in Seq([Listeners -> Nat]) /\ Len(delivered) = Len(emitted)
      BY SMTT(30) DEF Inv, Types
    <3>2. [delivered[ge.id] EXCEPT ![me] = @ + 1] \in [Listeners -> Nat]
      BY <1>2, <2>2, <3>1
    <3>3. delivered' = [delivered EXCEPT ![ge.id] = [delivered[ge.id] EXCEPT ![me] = @ + 1]]
      BY <2>1
    <3>4. delivered' \in Seq([Listeners -> Nat]) /\ Len(delivered') = Len(delivered)
      BY <2>2, <3>1, <3>2, <3>3
    <3> QED BY <1>2, <2>2, <3>1, <3>3, <3>4, SMTT(30)
  <2>4. Types'
    BY <1>1, <1>2, <2>1, <2>3, SMTT(30) DEF Inv, Types, Sources
  <2>5. Queue' /\ Idle' /\ Place'
    BY <1>1, <2>1, <2>2 DEF Inv, Queue, Idle, Place
  <2>6. Progress'
    <3> SUFFICES ASSUME NEW j \in 1 .. Len(emitted), NEW l \in Listeners
                 PROVE  delivered'[j][l] = IF j > ge.id \/ emitted[j] = l THEN 0
                          ELSE IF j = ge.id THEN Count(eventListeners, l, i)
                          ELSE Count(eventListeners, l, Len(eventListeners))
      <4>1. Done' = i
        BY <2>1 DEF Done
      <4> QED BY <1>1, <4>1 DEF Progress
    <3>1. delivered[j][l] = IF j > ge.id \/ emitted[j] = l THEN 0
                            ELSE IF j = ge.id THEN Count(eventListeners, l, i - 1)
                            ELSE Count(eventListeners, l, Len(eventListeners))
      BY <1>1 DEF Inv, Progress, Done
    <3>2. CASE j = ge.id /\ emitted[j] # l
      <4>1. i - 1 \in Nat /\ (i - 1) + 1 = i
        BY <1>1
      <4>2. Count(eventListeners, l, i) = IF me = l THEN Count(eventListeners, l, i - 1) + 1
                                                    ELSE Count(eventListeners, l, i - 1)
        BY <4>1, CountNext DEF Inv
      <4>3. delivered[j][l] = Count(eventListeners, l, i - 1) /\ ~(j > ge.id)
        BY <2>2, <3>1, <3>2
      <4> QED BY <2>3, <3>2, <4>2, <4>3
    <3>3. CASE ~(j = ge.id /\ emitted[j] # l)
      <4>1. ~(j = ge.id /\ l = me)
        BY <2>1, <2>2, <3>3
      <4> QED BY <2>3, <3>1, <3>3, <4>1
    <3> QED BY <3>2, <3>3, SMTT(30)
  <2> QED BY <2>4, <2>5, <2>6 DEF Inv
<1> QED BY <1>3, <1>4

LEMMA InvReturn == Inv /\ (Return \/ Notified) => Inv'
<1> SUFFICES ASSUME Inv, Return \/ Notified PROVE Inv'
  OBVIOUS
<1>1. CASE Return
  BY <1>1, InvPassed DEF Return, Inv, Types, Place
<1>2. CASE Notified
  <2>1. /\ pc = "notify" /\ pc' = "consume" /\ i > Len(eventListeners)
        /\ UNCHANGED <<eventListeners, eventChan, eventConsumed, currentEventListener,
                       ge, i, emitted, delivered>>
    BY <1>2 DEF Notified
  <2>2. Types' /\ Queue' /\ Idle'
    BY <2>1 DEF Inv, Types, Queue, Idle
  <2>3. Place'
    BY <2>1 DEF Inv, Types, Place
  <2>4. Progress'
    BY <2>1 DEF Inv, Progress, Done
  <2> QED BY <2>2, <2>3, <2>4 DEF Inv
<1> QED BY <1>1, <1>2

LEMMA InvNext == Inv /\ [Next]_vars => Inv'
<1> SUFFICES ASSUME Inv, [Next]_vars PROVE Inv'
  OBVIOUS
<1>1. ASSUME NEW l \in Listeners, AddEventListener(l) PROVE Inv'
  <2>1. eventListeners' \in Seq(Listeners)
    BY <1>1 DEF AddEventListener, Inv, Types
  <2> QED BY <1>1, <2>1, ListChanged DEF AddEventListener
<1>2. ASSUME NEW l \in Listeners, RemoveEventListener(l) PROVE Inv'
  <2>1. eventListeners' \in Seq(Listeners)
    BY <1>2, RemoveAtType DEF RemoveEventListener, Inv, Types
  <2> QED BY <1>2, <2>1, ListChanged DEF RemoveEventListener
<1>3. CASE UNCHANGED vars
  <2>1. Types' /\ Idle' /\ Place'
    BY <1>3 DEF vars, Inv, Types, Idle, Place
  <2>2. Queue'
    BY <1>3 DEF vars, Inv, Queue
  <2>3. Progress'
    BY <1>3 DEF vars, Inv, Progress, Done
  <2> QED BY <2>1, <2>2, <2>3 DEF Inv
<1> QED BY <1>1, <1>2, <1>3, InvOuter, InvNested, InvConsume, InvNotify, InvReturn
        DEF Next, Step

---------------------------------------------------------------------------
\* The refinement: each step of the handler is a step of Broadcast or leaves
\* its variables alone.

Reg == [l \in Listeners |-> Occurrences(l)]

LEMMA OccurrencesType ==
  ASSUME NEW s \in Seq(Listeners), NEW l
  PROVE  Cardinality({k \in DOMAIN s : s[k] = l}) \in Nat
<1>1. DOMAIN s = 1 .. Len(s) /\ IsFiniteSet(1 .. Len(s))
  BY FS_Interval
<1>2. {k \in DOMAIN s : s[k] = l} \subseteq 1 .. Len(s)
  BY <1>1
<1> QED BY <1>1, <1>2, FS_Subset, FS_CardinalityType

LEMMA SameList ==
  ASSUME UNCHANGED eventListeners PROVE Reg' = Reg
BY DEF Reg, Occurrences

LEMMA StepNested == Inv /\ NotifyNested => B!Change(currentEventListener)
                                            /\ currentEventListener \in Listeners
<1> SUFFICES ASSUME Inv, NotifyNested
             PROVE  B!Change(currentEventListener) /\ currentEventListener \in Listeners
  OBVIOUS
<1> DEFINE me == currentEventListener
<1>1. pc = "callback" /\ UNCHANGED <<eventListeners, pc>>
  BY DEF NotifyNested
<1>2. /\ i \in 1 .. Len(eventListeners) /\ me = eventListeners[i] /\ me \in Listeners
      /\ ge.id \in 1 .. Len(emitted) /\ me # emitted[ge.id]
  BY <1>1 DEF Inv, Types, Place, Queue
<1>3. delivered[ge.id][me] = Count(eventListeners, me, i)
  <2>1. ~(ge.id > ge.id) /\ emitted[ge.id] # me /\ Done = i
    BY <1>1, <1>2 DEF Done
  <2> QED BY <1>1, <1>2, <2>1 DEF Inv, Progress
<1>4. Count(eventListeners, me, i) > 0
  <2>1. i - 1 \in Nat /\ (i - 1) + 1 = i
    BY <1>2
  <2>2. Count(eventListeners, me, i - 1) \in Nat
        /\ Count(eventListeners, me, (i - 1) + 1) = Count(eventListeners, me, i - 1) + 1
    BY <1>2, <2>1, CountNext DEF Inv
  <2> QED BY <2>1, <2>2
<1>5. ge.id \in DOMAIN delivered
  BY <1>2 DEF Inv, Types
<1> QED BY <1>1, <1>2, <1>3, <1>4, <1>5, SameList
        DEF NotifyNested, B!Change, B!Nobody, Nobody, Reg

LEMMA StepConsume == Inv /\ Consume => B!End \/ UNCHANGED B!vars
<1> SUFFICES ASSUME Inv, Consume PROVE B!End \/ UNCHANGED B!vars
  OBVIOUS
<1>1. pc = "consume" /\ UNCHANGED <<eventListeners, emitted, delivered>> /\ Reg' = Reg
  BY SameList DEF Consume
<1>2. CASE eventChan # <<>>
  BY <1>1, <1>2 DEF Consume, B!vars, Reg
<1>3. CASE eventChan = <<>>
  <2>1. pc' = "idle"
    BY <1>3 DEF Consume
  <2>2. \A k \in DOMAIN emitted : B!Told(k)
    <3> SUFFICES ASSUME NEW k \in 1 .. Len(emitted), NEW l \in Listeners
                 PROVE  delivered[k][l] = IF emitted[k] = l THEN 0 ELSE Occurrences(l)
      BY SMTT(30) DEF B!Told, B!Due, Inv, Types
    <3>1. k <= ge.id /\ ge.id = Len(emitted) /\ ge.id \in Nat
      BY <1>1, <1>3 DEF Inv, Types, Queue
    <3>2. Done = Len(eventListeners)
      BY <1>1, <3>1 DEF Inv, Types, Place, Done
    <3> QED BY <1>1, <3>1, <3>2, CountAll DEF Inv, Progress
  <2> QED BY <1>1, <2>1, <2>2 DEF B!End, Reg
<1> QED BY <1>2, <1>3

LEMMA StepNotify ==
  Inv /\ NotifyListener => \/ UNCHANGED B!vars
                           \/ \E l \in Listeners, k \in DOMAIN delivered : B!Deliver(k, l)
<1> SUFFICES ASSUME Inv, NotifyListener, ~ UNCHANGED B!vars
             PROVE  \E l \in Listeners, k \in DOMAIN delivered : B!Deliver(k, l)
  OBVIOUS
<1> DEFINE me == eventListeners[i]
<1>1. /\ pc = "notify" /\ pc' # "idle" /\ i \in 1 .. Len(eventListeners)
      /\ UNCHANGED <<eventListeners, emitted>> /\ Reg' = Reg
  BY SameList DEF Inv, Types, Place, NotifyListener
<1>2. ~Generated(me)
  BY <1>1 DEF NotifyListener, B!vars, Reg
<1>3. me # ge.listener /\ delivered' = [delivered EXCEPT ![ge.id][me] = @ + 1]
  BY <1>1, <1>2 DEF NotifyListener, Generated
<1>4. /\ me \in Listeners /\ ge.id \in 1 .. Len(emitted) /\ ge.listener = emitted[ge.id]
      /\ ge.id \in DOMAIN delivered
  BY <1>1, SMTT(30) DEF Inv, Types, Queue, Place
<1>5. \A j \in 1 .. ge.id - 1 : B!Told(j)
  <2> SUFFICES ASSUME NEW j \in 1 .. ge.id - 1, NEW l \in Listeners
               PROVE  delivered[j][l] = IF emitted[j] = l THEN 0 ELSE Occurrences(l)
    BY DEF B!Told, B!Due
  <2>1. j \in 1 .. Len(emitted) /\ ~(j > ge.id) /\ j # ge.id
    BY <1>4
  <2> QED BY <1>1, <2>1, CountAll DEF Inv, Progress
<1>6. delivered[ge.id][me] < B!Due(ge.id, me)
  <2>1. delivered[ge.id][me] = Count(eventListeners, me, i - 1)
    BY <1>1, <1>3, <1>4, SMTT(30) DEF Inv, Types, Progress, Done
  <2>2. i - 1 \in Nat /\ (i - 1) + 1 = i /\ i \in Nat /\ Len(eventListeners) \in Nat
    BY <1>1 DEF Inv, Types
  <2>3. Count(eventListeners, me, i - 1) \in Nat
        /\ Count(eventListeners, me, (i - 1) + 1) = Count(eventListeners, me, i - 1) + 1
    BY <2>2, CountNext DEF Inv
  <2>4. /\ Count(eventListeners, me, i) <= Count(eventListeners, me, Len(eventListeners))
        /\ Count(eventListeners, me, Len(eventListeners)) \in Nat
    BY <1>1, <2>2, CountBound
  <2>5. B!Due(ge.id, me) = Count(eventListeners, me, Len(eventListeners))
    BY <1>3, <1>4, CountAll DEF B!Due, Inv
  <2> QED BY <2>1, <2>2, <2>3, <2>4, <2>5
<1>7. B!Deliver(ge.id, me)
  BY <1>1, <1>3, <1>5, <1>6 DEF B!Deliver, Reg
<1> QED BY <1>4, <1>7

LEMMA StepRefines == Inv /\ Inv' /\ [Next]_vars => [B!Next]_(B!vars)
<1> SUFFICES ASSUME Inv, Inv', [Next]_vars PROVE [B!Next]_(B!vars)
  OBVIOUS
<1>1. ASSUME NEW l \in Listeners, AddEventListener(l) \/ RemoveEventListener(l)
      PROVE  B!Register
  <2>1. Reg' \in [Listeners -> Nat]
    <3>1. \A k \in Listeners : Occurrences(k)' \in Nat
      BY OccurrencesType, ZenonT(30) DEF Inv, Types, Occurrences
    <3> QED BY <3>1 DEF Reg
  <2> QED BY <1>1, <2>1 DEF AddEventListener, RemoveEventListener, B!Register, Reg
<1>2. CASE NotifyOuter
  BY <1>2, SameList DEF NotifyOuter, B!Next, B!Begin, B!Nobody, Nobody, Inv, Idle, Reg
<1>3. CASE UNCHANGED vars
  BY <1>3, SameList DEF vars, B!vars, Reg
<1>4. CASE Return \/ Notified
  BY <1>4, SameList DEF Return, Notified, B!vars, Reg
<1> QED BY <1>1, <1>2, <1>3, <1>4, StepNested, StepConsume, StepNotify
        DEF Next, Step, B!Next

\* NotifyEvent and notifyListeners implement Broadcast: every listener but the
\* one that made a change is told it, once per registration, in the order of
\* the changes, before the outermost NotifyEvent returns.
THEOREM Refinement == Spec => ImplementsBroadcast
<1>1. Init => B!Init
  <2> SUFFICES ASSUME Init PROVE B!Init
    OBVIOUS
  <2>1. \A l : Occurrences(l) = 0
    <3>1. DOMAIN eventListeners = {}
      BY DEF Init
    <3>2. \A l : {k \in DOMAIN eventListeners : eventListeners[k] = l} = {}
      BY <3>1
    <3> QED BY <3>2, FS_EmptySet DEF Occurrences
  <2> QED BY <2>1 DEF Init, B!Init, B!Nobody
<1> QED BY <1>1, InvInit, InvNext, StepRefines, PTL DEF Spec, ImplementsBroadcast, B!Spec
=============================================================================
