--------------------------- MODULE MasterElection ---------------------------
(***************************************************************************)
(* The election of the hub a pod publishes to (websocket/master.go) and    *)
(* the Forwarder driven by it (graffiti/common/forwarder.go).              *)
(*                                                                         *)
(* Every outgoing client of the pool runs its own goroutine: it dials,     *)
(* calls OnConnected, serves the connection, calls OnDisconnected and      *)
(* dials again.  The lock of MasterElection covers the choice of a master  *)
(* but not the notification of the Forwarder, which runs after the unlock, *)
(* so that the notifications of several clients interleave.  One writer    *)
(* goroutine changes the graph of the pod under the lock of the graph.     *)
(***************************************************************************)
EXTENDS Integers

CONSTANTS Clients,      \* the outgoing clients, one for each hub
          NoMaster,     \* the nil Speaker
          MaxDrops      \* bound on the number of lost connections

ASSUME NoMasterAssumption == NoMaster \notin Clients
ASSUME MaxDropsAssumption == MaxDrops \in Nat

VARIABLES
    pc,           \* where the goroutine of each client is
    conn,         \* IsConnected of each client
    master,       \* MasterElection.master
    arg,          \* the Speaker a goroutine is about to pass to OnNewMaster
    tgt,          \* the Speaker SendMessageToMaster picked for the re-sync
    registered,   \* how often the Forwarder listens to the graph
    ev,           \* the Speaker a graph event is being sent to, or NoMaster
    synced,       \* a Sync message was queued in the current connection
    early,        \* an event was queued ahead of the Sync of a connection
    drops         \* the number of lost connections

vars == <<pc, conn, master, arg, tgt, registered, ev, synced, early, drops>>

Speakers == Clients \cup {NoMaster}

\* The client goroutines that are between two handlers.
Settled == \A c \in Clients : pc[c] \in {"down", "up"}

\* The read lock of the graph is held by the re-syncs, its write lock by a
\* graph event.
ReadLocked == \E c \in Clients : pc[c] = "syncing"
WriteLocked == ev # NoMaster

Init == /\ pc = [c \in Clients |-> "down"]
        /\ conn = [c \in Clients |-> FALSE]
        /\ master = NoMaster
        /\ arg = [c \in Clients |-> NoMaster]
        /\ tgt = [c \in Clients |-> NoMaster]
        /\ registered = 0
        /\ ev = NoMaster
        /\ synced = [c \in Clients |-> FALSE]
        /\ early = FALSE
        /\ drops = 0

Goto(c, l) == pc' = [pc EXCEPT ![c] = l]

\* Client.Connect succeeded: the client is in the running state and its
\* OnConnected handlers come next.
Connect(c) ==
    /\ pc[c] = "down"
    /\ conn' = [conn EXCEPT ![c] = TRUE]
    /\ synced' = [synced EXCEPT ![c] = FALSE]
    /\ Goto(c, "connected")
    /\ UNCHANGED <<master, arg, tgt, registered, ev, early, drops>>

\* Mutant: only a client that finds no other client connected stands.
MutOnConnected(c) ==
    /\ pc[c] = "connected"
    /\ IF master = NoMaster /\ \A d \in Clients \ {c} : ~conn[d]
       THEN /\ master' = c
            /\ arg' = [arg EXCEPT ![c] = c]
            /\ Goto(c, "notify")
       ELSE Goto(c, "up") /\ UNCHANGED <<master, arg>>
    /\ UNCHANGED <<conn, tgt, registered, ev, synced, early, drops>>

\* The first client to connect becomes the master.
OnConnected(c) ==
    /\ pc[c] = "connected"
    /\ IF master = NoMaster
       THEN /\ master' = c
            /\ arg' = [arg EXCEPT ![c] = c]
            /\ Goto(c, "notify")
       ELSE Goto(c, "up") /\ UNCHANGED <<master, arg>>
    /\ UNCHANGED <<conn, tgt, registered, ev, synced, early, drops>>

\* The connection is lost: Conn.run stores the stopped state, then calls the
\* OnDisconnected handlers.
Drop(c) ==
    /\ pc[c] = "up"
    /\ drops < MaxDrops
    /\ drops' = drops + 1
    /\ conn' = [conn EXCEPT ![c] = FALSE]
    /\ Goto(c, "dropped")
    /\ UNCHANGED <<master, arg, tgt, registered, ev, synced, early>>

\* Mutant: a Speaker of the pool is returned whatever its state.
MutPickConnectedSpeaker == Clients

\* The Speakers PickConnectedSpeaker may return: it starts at a random index
\* and returns the first connected one.
PickConnectedSpeaker ==
    IF \E c \in Clients : conn[c] THEN {c \in Clients : conn[c]} ELSE {NoMaster}

\* Mutant: the handlers are notified only when no other hub is connected.
MutOnDisconnected(c) ==
    /\ pc[c] = "dropped"
    /\ IF master = c
       THEN /\ master' \in PickConnectedSpeaker
            /\ Goto(c, IF master' = NoMaster THEN "elected" ELSE "down")
       ELSE Goto(c, "down") /\ UNCHANGED master
    /\ UNCHANGED <<conn, arg, tgt, registered, ev, synced, early, drops>>

\* Only the loss of the master starts an election.
OnDisconnected(c) ==
    /\ pc[c] = "dropped"
    /\ IF master = c
       THEN master' \in PickConnectedSpeaker /\ Goto(c, "elected")
       ELSE Goto(c, "down") /\ UNCHANGED master
    /\ UNCHANGED <<conn, arg, tgt, registered, ev, synced, early, drops>>

\* The deferred function of OnDisconnected reads the master after the unlock.
ReadMaster(c) ==
    /\ pc[c] = "elected"
    /\ arg' = [arg EXCEPT ![c] = master]
    /\ Goto(c, "notify")
    /\ UNCHANGED <<conn, master, tgt, registered, ev, synced, early, drops>>

\* The handler returns to Connect or to the end of Conn.run.
Back(c) == Goto(c, IF conn[c] THEN "up" ELSE "down")

\* OnNewMaster(nil): the Forwarder leaves the graph (one registration).
LostMaster(c) ==
    /\ pc[c] = "notify"
    /\ arg[c] = NoMaster
    /\ registered' = IF registered > 0 THEN registered - 1 ELSE 0
    /\ Back(c)
    /\ UNCHANGED <<conn, master, arg, tgt, ev, synced, early, drops>>

\* OnNewMaster(c) takes the read lock of the graph; SendMessageToMaster picks
\* the current master, which may not be the Speaker given to OnNewMaster.
Resync(c) ==
    /\ pc[c] = "notify"
    /\ arg[c] # NoMaster
    /\ ~WriteLocked
    /\ tgt' = [tgt EXCEPT ![c] = master]
    /\ Goto(c, "syncing")
    /\ UNCHANGED <<conn, master, arg, registered, ev, synced, early, drops>>

\* Mutant: the registration waits for the readers of the graph.
MutSyncSent(c) ==
    /\ pc[c] = "syncing"
    /\ \A d \in Clients \ {c} : pc[d] # "syncing"
    /\ synced' = [s \in Clients |-> synced[s] \/ (s = tgt[c] /\ conn[s])]
    /\ registered' = registered + 1
    /\ Back(c)
    /\ UNCHANGED <<conn, master, arg, tgt, ev, early, drops>>

\* SendMessage drops the message unless the Speaker is connected; then the
\* Forwarder registers and the read lock is released.
SyncSent(c) ==
    /\ pc[c] = "syncing"
    /\ synced' = [s \in Clients |-> synced[s] \/ (s = tgt[c] /\ conn[s])]
    /\ registered' = registered + 1
    /\ Back(c)
    /\ UNCHANGED <<conn, master, arg, tgt, ev, early, drops>>

\* The graph changes: a registered Forwarder picks the master ...
GraphEvent ==
    /\ ~WriteLocked
    /\ ~ReadLocked
    /\ registered > 0
    /\ ev' = master
    /\ UNCHANGED <<pc, conn, master, arg, tgt, registered, synced, early, drops>>

\* ... and sends it the event.
EventSent ==
    /\ WriteLocked
    /\ early' = (early \/ (conn[ev] /\ ~synced[ev]))
    /\ ev' = NoMaster
    /\ UNCHANGED <<pc, conn, master, arg, tgt, registered, synced, drops>>

Handler(c) == \/ OnConnected(c)
              \/ OnDisconnected(c)
              \/ ReadMaster(c)
              \/ LostMaster(c)
              \/ Resync(c)
              \/ SyncSent(c)

Next == \/ \E c \in Clients : Connect(c) \/ Drop(c) \/ Handler(c)
        \/ GraphEvent
        \/ EventSent

\* The handlers run in goroutines that the scheduler does not starve, and a
\* writer that holds the lock of the graph gives it back; nothing forces a
\* hub to be reachable or a connection to be lost.
Fairness == /\ \A c \in Clients : SF_vars(Handler(c))
            /\ WF_vars(EventSent)

Spec == Init /\ [][Next]_vars /\ Fairness

-----------------------------------------------------------------------------

\* Every variable has its type.
TypeOK ==
    /\ pc \in [Clients -> {"down", "connected", "elected", "notify",
                           "syncing", "up", "dropped"}]
    /\ conn \in [Clients -> BOOLEAN]
    /\ master \in Speakers
    /\ arg \in [Clients -> Speakers]
    /\ tgt \in [Clients -> Speakers]
    /\ registered \in Nat
    /\ ev \in Speakers
    /\ synced \in [Clients -> BOOLEAN]
    /\ early \in BOOLEAN
    /\ drops \in 0..MaxDrops

\* A lost connection is the master only as long as its own goroutine has yet
\* to run OnDisconnected: no interleaving leaves a dead master behind
\* (master.go, OnDisconnected and selectMaster).
NoDeadMaster == \A c \in Clients : master = c /\ ~conn[c] => pc[c] = "dropped"

\* A client that went through OnConnected and is still up never sees the pod
\* without a master (master.go, OnConnected and selectMaster).
ElectionNotLost == (\E c \in Clients : pc[c] = "up") => master # NoMaster

\* Once the handlers have run, the master got the whole graph during its
\* current connection, whatever the order of the notifications
\* (forwarder.go, OnNewMaster and triggerResync).
SettledSynced ==
    Settled /\ master # NoMaster => synced[master]

\* If the pod ends up with a hub that stays connected, it ends up with a
\* master that stays connected and that received the whole graph.
EndsSynced ==
    (<>[]\E c \in Clients : conn[c]) =>
        <>[](master # NoMaster /\ conn[master] /\ synced[master])

\* The comment of OnNewMaster: "do not forward message before re-sync"
\* (forwarder.go).  No event is queued on a connection ahead of its Sync.
NoForwardBeforeResync == ~early

\* "Forwarder forwards the topology to only one master server"
\* (forwarder.go): with a master and all handlers done, the Forwarder listens
\* to the graph, otherwise no later change of the pod reaches any hub.
KeepsForwarding == Settled /\ master # NoMaster => registered > 0
=============================================================================
