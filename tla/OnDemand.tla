------------------------------ MODULE OnDemand ------------------------------
(***************************************************************************)
(* Captures on demand: the client that an analyzer runs                    *)
(* (ondemand/client/client.go) with its debouncer (common/debounce.go) and *)
(* its watch of the API (api/server/handler.go), the server of an agent    *)
(* (ondemand/server/server.go), and the gopacket probes it starts          *)
(* (flow/ondemand/server/server.go, flow/probes/gopacket/gopacket.go).     *)
(*                                                                         *)
(* One client and one agent.  Their connection carries the requests one    *)
(* way, and the replies and the changes of the agent's graph the other.    *)
(* Another analyzer is the master until the client becomes it; an elector  *)
(* never gives that up (etcd/election.go).  Every node matches the query   *)
(* of every capture.  The notifications to the subscribers are left out.   *)
(***************************************************************************)
EXTENDS Integers, Sequences, SequencesExt, FiniteSets, Bags

CONSTANTS Nodes,       \* the identifiers of the agent's nodes
          Captures,    \* the identifiers of the captures
          None,
          MaxProbes,   \* probes created in a behaviour
          MaxTasks,    \* goroutines of the client at a time
          MaxFaults,   \* captures that cannot be opened, or that fail
          MaxDrops,    \* losses of the connection
          MaxFlight    \* messages in flight in each direction

VARIABLES
    store,       \* the captures in etcd
    created,     \* the captures that were ever created
    watch,       \* the events of etcd the client has not processed
    phase,       \* how far Start of the client went
    index,       \* what Index returned to the goroutine that adds it
    master,      \* IsMaster
    switch,      \* the goroutine of the elector in OnSwitchToMaster
    resources,   \* the captures the client knows
    cache,       \* deletedNodeCache
    registered,  \* registeredNodes
    tasks,       \* the goroutines of registerTasks and unregisterTask
    called,      \* the flag of the debouncer
    debounce,    \* the goroutine of the debouncer
    hub,         \* the nodes of the analyzer's graph and their captures
    conn,        \* whether the agent is connected
    drops,
    up, down,    \* the messages in flight
    nodes,       \* the nodes of the agent's graph and their captures
    gone,        \* the nodes that were ever deleted
    active,      \* activeTasks
    probes,      \* every probe created so far
    calls,       \* the goroutines of OnStopped and OnError
    faults,
    missed       \* the first event the client missed

api == <<store, created, watch>>
client == <<phase, index, master, switch, resources, cache, registered, tasks>>
timer == <<called, debounce>>
link == <<conn, drops, up, down>>
agent == <<nodes, gone, active, probes, calls, faults>>
vars == <<api, client, timer, hub, link, agent, missed>>

Entry == [id : Captures, state : {"active", "error"}]
Listed(g) == {n \in Nodes : g[n] # None}
Has(list, c) == \E i \in DOMAIN list : list[i].id = c
IsActive(list, c) == [id |-> c, state |-> "active"] \in ToSet(list)

Init == /\ store = {} /\ created = {} /\ watch = <<>>
        /\ phase = "new" /\ index = {} /\ master = FALSE /\ switch = "idle"
        /\ resources = {} /\ cache = {}
        /\ registered = [n \in Nodes |-> [c \in Captures |-> "no"]]
        /\ tasks = EmptyBag
        /\ called = FALSE /\ debounce = "wait"
        /\ hub = [n \in Nodes |-> None]
        /\ conn = TRUE /\ drops = 0 /\ up = <<>> /\ down = <<>>
        /\ nodes = [n \in Nodes |-> None] /\ gone = {}
        /\ active = [n \in Nodes |-> [c \in Captures |-> 0]]
        /\ probes = <<>> /\ calls = EmptyBag /\ faults = 0
        /\ missed = "no"

---------------------------------------------------------------------------
\* The API.

Publish(a, c) == watch' = IF phase = "watching"
                          THEN Append(watch, [action |-> a, id |-> c])
                          ELSE watch

\* Create: an identifier is a new UUID.
Create(c) == /\ c \notin created
             /\ created' = created \cup {c} /\ store' = store \cup {c}
             /\ Publish("set", c)
             /\ UNCHANGED <<client, timer, hub, link, agent>>

Delete(c) == /\ c \in store
             /\ store' = store \ {c} /\ UNCHANGED created
             /\ Publish("delete", c)
             /\ UNCHANGED <<client, timer, hub, link, agent>>

---------------------------------------------------------------------------
\* The client.

Call == called' = TRUE

Goroutine(op, c, ns) == [op |-> op, cap |-> c, todo |-> ns, sent |-> None]
Spawn(gs) == /\ BagCardinality(tasks) + Cardinality(gs) <= MaxTasks
             /\ tasks' = tasks (+) SetToBag(gs)

\* GetNodeResources and nodeTasks: the nodes that do not list the capture,
\* and that are not known to have started it.
NodeTasks(c) == {n \in Listed(hub) : /\ ~Has(hub[n], c)
                                     /\ registered[n][c] # "started"}
Registrations(cs) == {Goroutine("Start", c, NodeTasks(c)) :
                        c \in {d \in cs : NodeTasks(d) # {}}}

\* removeRegisteredNode.
Forget(n, c) == registered' = [registered EXCEPT ![n][c] = "no"]

\* registerResource, for every capture of cs.
RegisterResources(cs) == /\ resources' = resources \cup cs
                         /\ Spawn(Registrations(cs))

\* unregisterResource, for every capture of cs.
UnregisterResources(cs) ==
    /\ cache' = cache \ cs
    /\ resources' = resources \ cs
    /\ Spawn({Goroutine("Stop", nc[2], {nc[1]}) :
                nc \in {x \in Listed(hub) \X cs : Has(hub[x[1]], x[2])}})

\* NewOnDemandClient, and Start: the first election, and AsyncWatch with the
\* "init" events of the captures that Index returned.
StartClient(m) ==
    /\ phase = "new"
    /\ phase' = "ready" /\ master' = m
    /\ resources' = store
    /\ IF m THEN Spawn(Registrations(store)) ELSE UNCHANGED tasks
    /\ UNCHANGED <<index, switch, cache, registered, api, timer, hub, link,
                   agent>>

\* AddEventListener, and the first Next of the watcher: etcd reports what
\* changes from then on.
Watching ==
    /\ phase = "ready"
    /\ phase' = "watching"
    /\ UNCHANGED <<index, master, switch, resources, cache, registered, tasks,
                   api, timer, hub, link, agent>>

\* onAPIWatcherEvent.
OnAPIWatcherEvent ==
    /\ watch # <<>>
    /\ watch' = Tail(watch)
    /\ LET c == Head(watch).id IN
       CASE master /\ Head(watch).action = "set" ->
              RegisterResources({c}) /\ UNCHANGED cache
         [] master /\ Head(watch).action = "delete" -> UnregisterResources({c})
         [] ~master /\ Head(watch).action = "delete" ->
              cache' = cache \cup {c} /\ UNCHANGED <<resources, tasks>>
         [] OTHER -> UNCHANGED <<cache, resources, tasks>>
    /\ UNCHANGED <<store, created, phase, index, master, switch, registered,
                   timer, hub, link, agent>>

\* The entries of deletedNodeCache expire after twice the TTL of the lock.
Expire(c) == /\ c \in cache
             /\ cache' = cache \ {c}
             /\ UNCHANGED <<phase, index, master, switch, resources,
                            registered, tasks, api, timer, hub, link, agent>>

\* The elector takes the lock, then calls OnSwitchToMaster: it unregisters
\* the captures of the cache, reads the index and registers what it read.
BecomeMaster ==
    /\ phase # "new" /\ ~master
    /\ master' = TRUE /\ switch' = "purge"
    /\ UNCHANGED <<phase, index, resources, cache, registered, tasks, api,
                   timer, hub, link, agent>>
SwitchPurge ==
    /\ switch = "purge"
    /\ switch' = "index"
    /\ UnregisterResources(cache)
    /\ UNCHANGED <<phase, index, master, registered, api, timer, hub, link,
                   agent>>
SwitchIndex ==
    /\ switch = "index"
    /\ switch' = "add" /\ index' = store
    /\ UNCHANGED <<phase, master, resources, cache, registered, tasks, api,
                   timer, hub, link, agent>>
SwitchAdd ==
    /\ switch = "add"
    /\ switch' = "idle" /\ index' = {}
    /\ RegisterResources(index)
    /\ UNCHANGED <<phase, master, cache, registered, api, timer, hub, link,
                   agent>>

\* Goroutine g continues as h, or ends.
Continue(g, h) ==
    tasks' = (tasks (-) SetToBag({g}))
               (+) SetToBag(IF h.todo = {} THEN {} ELSE {h})

\* A goroutine of registerTasks or unregisterTask sends its next request, ...
Send(g, n) ==
    /\ BagIn(g, tasks) /\ g.sent = None /\ n \in g.todo
    /\ IF conn
       THEN /\ Len(down) < MaxFlight
            /\ Continue(g, [g EXCEPT !.sent = n])
            /\ down' = Append(down, [op |-> g.op, node |-> n, cap |-> g.cap])
       ELSE /\ Continue(g, [g EXCEPT !.todo = @ \ {n}])
            /\ UNCHANGED down
    /\ UNCHANGED <<phase, index, master, switch, resources, cache, registered,
                   conn, drops, up, api, timer, hub, agent>>

\* ... and then updates registeredNodes.
Note(g) ==
    /\ BagIn(g, tasks) /\ g.sent # None
    /\ Continue(g, [g EXCEPT !.todo = @ \ {g.sent}, !.sent = None])
    /\ IF g.op = "Stop" THEN Forget(g.sent, g.cap)
       ELSE registered' = [registered EXCEPT ![g.sent][g.cap] = "sent"]
    /\ UNCHANGED <<phase, index, master, switch, resources, cache, api, timer,
                   hub, link, agent>>

\* debounce: the goroutine reads the flag when the ticker fires, calls
\* checkForRegistrationCallback if it was set, and then clears it.
Tick ==
    /\ debounce = "wait" /\ phase # "new"
    /\ debounce' = IF called THEN "callback" ELSE "clear"
    /\ UNCHANGED <<called, api, client, hub, link, agent>>
CheckForRegistration ==
    /\ debounce = "callback"
    /\ debounce' = "clear"
    /\ IF master THEN Spawn(Registrations(resources)) ELSE UNCHANGED tasks
    /\ UNCHANGED <<called, phase, index, master, switch, resources, cache,
                   registered, api, hub, link, agent>>
Clear ==
    /\ debounce = "clear"
    /\ debounce' = "wait" /\ called' = FALSE
    /\ UNCHANGED <<api, client, hub, link, agent>>

---------------------------------------------------------------------------
\* The analyzer's graph, and the replies of the agent.

Listening == phase = "watching"

\* Mutant: a new node is not checked for captures.
MutOnNodeAdded == UNCHANGED called

\* OnNodeAdded: no node has a field Capture, the name of the resource (the
\* field of the captures of a node is Captures).
OnNodeAdded == IF Listening /\ master THEN Call ELSE UNCHANGED called

\* OnNodeUpdated.
OnNodeUpdated(n, list) ==
    IF Listening
    THEN /\ Call
         /\ registered' = [registered EXCEPT ![n] =
                [c \in Captures |->
                    IF /\ registered[n][c] = "sent" /\ c \in resources
                       /\ IsActive(list, c)
                    THEN "started" ELSE registered[n][c]]]
    ELSE UNCHANGED <<called, registered>>

\* Mutant: a deleted node stays registered.
MutOnNodesDeleted(ns) == UNCHANGED registered

\* OnNodeDeleted.
OnNodesDeleted(ns) ==
    registered' = [n \in Nodes |-> IF Listening /\ n \in ns
                                   THEN [c \in Captures |-> "no"]
                                   ELSE registered[n]]

\* The client's OnStructMessage.
OnReply(m) ==
    IF (m.type = "StartReply") # (m.status = 200)
    THEN Forget(m.node, m.cap) ELSE UNCHANGED registered

\* The publisher endpoint applies a change of the agent's graph; a Sync
\* replaces all the nodes of the agent.
Receive ==
    /\ up # <<>>
    /\ up' = Tail(up)
    /\ LET m == Head(up) IN
       CASE m.type = "add" ->
              /\ hub' = [hub EXCEPT ![m.node] = m.list]
              /\ OnNodeAdded /\ UNCHANGED registered
         [] m.type = "update" /\ hub[m.node] # None ->
              /\ hub' = [hub EXCEPT ![m.node] = m.list]
              /\ OnNodeUpdated(m.node, m.list)
         [] m.type = "del" ->
              /\ hub' = [hub EXCEPT ![m.node] = None]
              /\ OnNodesDeleted({m.node}) /\ UNCHANGED called
         [] m.type = "sync" ->
              /\ hub' = m.graph
              /\ OnNodesDeleted(Listed(hub))
              /\ IF Listed(m.graph) = {} THEN UNCHANGED called ELSE OnNodeAdded
         [] m.type \in {"StartReply", "StopReply"} ->
              OnReply(m) /\ UNCHANGED <<hub, called>>
         [] OTHER -> UNCHANGED <<hub, called, registered>>
    /\ UNCHANGED <<phase, index, master, switch, resources, cache, tasks,
                   debounce, conn, drops, down, api, agent>>

\* The connection is lost: the analyzer deletes the nodes of the agent.
Drop ==
    /\ conn /\ drops < MaxDrops
    /\ conn' = FALSE /\ drops' = drops + 1 /\ up' = <<>> /\ down' = <<>>
    /\ hub' = [n \in Nodes |-> None]
    /\ OnNodesDeleted(Listed(hub))
    /\ UNCHANGED <<phase, index, master, switch, resources, cache, tasks, api,
                   timer, agent>>
Reconnect ==
    /\ ~conn
    /\ conn' = TRUE /\ up' = <<[type |-> "sync", graph |-> nodes]>>
    /\ UNCHANGED <<drops, down, api, client, timer, hub, agent>>

---------------------------------------------------------------------------
\* The agent.  Its forwarder reports every change of its graph.

Forward(m) == IF conn THEN Len(up) < MaxFlight /\ up' = Append(up, m)
                      ELSE UNCHANGED up

\* A change of the Captures of a node; on a deleted node it has no effect.
SetCaptures(n, list) ==
    IF nodes[n] = None THEN UNCHANGED <<nodes, up>>
    ELSE /\ nodes' = [nodes EXCEPT ![n] = list]
         /\ Forward([type |-> "update", node |-> n, list |-> list])

\* Mutant: the last capture of a node is not removed from its list.
MutOnStopped(n, c) ==
    IF nodes[n] # None /\ Has(nodes[n], c) /\ Len(nodes[n]) > 1
    THEN SetCaptures(n, RemoveAt(nodes[n],
                        SelectInSeq(nodes[n], LAMBDA e : e.id = c)))
    ELSE UNCHANGED <<nodes, up>>

\* OnStarted, OnStopped and OnError of an activeProbe.
OnStarted(n, c) ==
    SetCaptures(n, Append(nodes[n], [id |-> c, state |-> "active"]))
OnStopped(n, c) ==
    IF nodes[n] # None /\ Has(nodes[n], c)
    THEN SetCaptures(n, RemoveAt(nodes[n],
                        SelectInSeq(nodes[n], LAMBDA e : e.id = c)))
    ELSE UNCHANGED <<nodes, up>>
OnError(n, c) ==
    IF nodes[n] # None /\ Has(nodes[n], c)
    THEN SetCaptures(n, ReplaceAt(nodes[n],
                        SelectInSeq(nodes[n], LAMBDA e : e.id = c),
                        [id |-> c, state |-> "error"]))
    ELSE UNCHANGED <<nodes, up>>

AddNode(n) ==
    /\ nodes[n] = None /\ n \notin gone
    /\ nodes' = [nodes EXCEPT ![n] = <<>>]
    /\ Forward([type |-> "add", node |-> n, list |-> <<>>])
    /\ UNCHANGED <<conn, drops, down, gone, active, probes, calls, faults,
                   api, client, timer, hub>>

\* Mutant: UnregisterProbe does not stop the probe.
MutUnregister(n, cs) ==
    /\ active' = [active EXCEPT ![n] = [c \in Captures |->
                    IF c \in cs THEN 0 ELSE active[n][c]]]
    /\ calls' = calls (+) SetToBag({[call |-> "stopped", node |-> n, cap |-> c] :
                                      c \in cs})
    /\ UNCHANGED probes

\* unregisterTask and UnregisterProbe of gopacket.
Unregister(n, cs) ==
    /\ active' = [active EXCEPT ![n] = [c \in Captures |->
                    IF c \in cs THEN 0 ELSE active[n][c]]]
    /\ probes' = [i \in DOMAIN probes |->
                    IF \E c \in cs : active[n][c] = i
                    THEN [probes[i] EXCEPT !.state = "stopping"] ELSE probes[i]]
    /\ calls' = calls (+) SetToBag({[call |-> "stopped", node |-> n, cap |-> c] :
                                      c \in cs})

\* A node is deleted: the server's OnNodeDeleted, and the forwarder.
DeleteNode(n) ==
    /\ nodes[n] # None
    /\ nodes' = [nodes EXCEPT ![n] = None] /\ gone' = gone \cup {n}
    /\ Unregister(n, {c \in Captures : active[n][c] # 0})
    /\ Forward([type |-> "del", node |-> n])
    /\ UNCHANGED <<conn, drops, down, faults, api, client, timer, hub>>

\* RegisterProbe of gopacket: the goroutine of the probe is started.
RegisterProbe(n, c) ==
    /\ Len(probes) < MaxProbes
    /\ probes' = Append(probes, [node |-> n, cap |-> c, pc |-> "new",
                                 state |-> "stopped"])

\* CreateTask.  RegisterProbe may fail; OnError is then a goroutine.
CreateTask(n, c, ok) ==
    IF ok THEN RegisterProbe(n, c) /\ UNCHANGED <<calls, faults>>
          ELSE /\ faults < MaxFaults /\ faults' = faults + 1
               /\ calls' = calls (+) SetToBag({[call |-> "error", node |-> n,
                                                cap |-> c]})
               /\ UNCHANGED probes

\* The server's registerTask.
Register(n, c, ok) ==
    /\ CreateTask(n, c, ok)
    /\ active' = IF ok THEN [active EXCEPT ![n][c] = Len(probes) + 1] ELSE active

Reply(m, status) == [type |-> m.op \o "Reply", node |-> m.node, cap |-> m.cap,
                     status |-> status]

\* The server's OnStructMessage, under the lock of the graph.  The field
\* Capture.ID it looks for to recognise a started capture does not exist.
\* st is the status of the reply.
Handle(m, st) ==
    \/ /\ nodes[m.node] = None
       /\ st = 404
       /\ UNCHANGED <<active, probes, calls, faults>>
    \/ /\ nodes[m.node] # None /\ m.op = "Start"
       /\ \/ /\ active[m.node][m.cap] # 0
             /\ st = 500
             /\ UNCHANGED <<active, probes, calls, faults>>
          \/ /\ active[m.node][m.cap] = 0
             /\ \E ok \in BOOLEAN : /\ st = IF ok THEN 200 ELSE 500
                                    /\ Register(m.node, m.cap, ok)
    \/ /\ nodes[m.node] # None /\ m.op = "Stop"
       /\ IF active[m.node][m.cap] = 0
          THEN st = 404 /\ UNCHANGED <<active, probes, calls>>
          ELSE st = 200 /\ Unregister(m.node, {m.cap})
       /\ UNCHANGED faults

OnStructMessage ==
    /\ down # <<>>
    /\ down' = Tail(down)
    /\ \E st \in {200, 404, 500} : /\ Handle(Head(down), st)
                                   /\ Forward(Reply(Head(down), st))
    /\ UNCHANGED <<conn, drops, nodes, gone, api, client, timer, hub>>

\* While the client is not the master, the analyzer that is (external) starts
\* the captures there are and stops those that were deleted.
OtherMaster(n, c) ==
    /\ ~master /\ nodes[n] # None
    /\ IF c \in store THEN active[n][c] = 0
                      ELSE active[n][c] # 0 /\ Has(nodes[n], c)
    /\ Handle([op |-> IF c \in store THEN "Start" ELSE "Stop", node |-> n,
               cap |-> c], 200)
    /\ UNCHANGED <<nodes, gone, api, client, timer, hub, link>>

\* The goroutine of a probe.  Run stores the running state, ...
Run(i) ==
    /\ probes[i].pc = "new"
    /\ probes' = [probes EXCEPT ![i].pc = "open", ![i].state = "running"]
    /\ UNCHANGED <<nodes, gone, active, calls, faults, api, client, timer, hub,
                   link>>
\* ... opens the interface, lists the capture, ...
Opened(i) ==
    /\ probes[i].pc = "open"
    /\ probes' = [probes EXCEPT ![i].pc = "listen"]
    /\ OnStarted(probes[i].node, probes[i].cap)
    /\ UNCHANGED <<conn, drops, down, gone, active, calls, faults, api, client,
                   timer, hub>>
\* ... and listens until the state changes.
Ended(i) ==
    /\ probes[i].pc = "listen" /\ probes[i].state # "running"
    /\ probes' = [probes EXCEPT ![i].pc = "done", ![i].state = "stopped"]
    /\ OnStopped(probes[i].node, probes[i].cap)
    /\ UNCHANGED <<conn, drops, down, gone, active, calls, faults, api, client,
                   timer, hub>>
\* The interface cannot be opened, or polling it fails.
Failed(i) ==
    /\ probes[i].pc \in {"open", "listen"} /\ faults < MaxFaults
    /\ faults' = faults + 1
    /\ probes' = [probes EXCEPT ![i].pc = "done",
                     ![i].state = IF probes[i].pc = "listen" THEN "stopped" ELSE @]
    /\ OnError(probes[i].node, probes[i].cap)
    /\ UNCHANGED <<conn, drops, down, gone, active, calls, api, client, timer,
                   hub>>

\* A goroutine of OnStopped (UnregisterProbe) or OnError (CreateTask).
RunCall(g) ==
    /\ BagIn(g, calls)
    /\ calls' = calls (-) SetToBag({g})
    /\ IF g.call = "stopped" THEN OnStopped(g.node, g.cap)
                             ELSE OnError(g.node, g.cap)
    /\ UNCHANGED <<conn, drops, down, gone, active, probes, faults, api,
                   client, timer, hub>>

---------------------------------------------------------------------------
ClientStep ==
    \/ \E m \in BOOLEAN : StartClient(m)
    \/ Watching \/ OnAPIWatcherEvent
    \/ SwitchPurge \/ SwitchIndex \/ SwitchAdd
    \/ \E g \in BagToSet(tasks) : Note(g) \/ \E n \in Nodes : Send(g, n)
    \/ Tick \/ CheckForRegistration \/ Clear \/ Receive
AgentStep ==
    \/ OnStructMessage
    \/ \E i \in DOMAIN probes : Run(i) \/ Opened(i) \/ Ended(i)
    \/ \E g \in BagToSet(calls) : RunCall(g)
Environment ==
    \/ \E c \in Captures : Create(c) \/ Delete(c) \/ Expire(c)
    \/ \E n \in Nodes : AddNode(n) \/ DeleteNode(n)
    \/ \E n \in Nodes, c \in Captures : OtherMaster(n, c)
    \/ BecomeMaster \/ Drop \/ Reconnect
    \/ \E i \in DOMAIN probes : Failed(i)

\* What the client does not see: a change of the API before its watch begins,
\* or one of its graph before it listens ("early"); a change of its graph
\* between the check of the debouncer and the clearing of the flag ("late").
Ghost ==
    missed' = CASE missed # "no" -> missed
                [] /\ phase = "ready"
                   /\ store' # store \/ (master /\ hub' # hub) -> "early"
                [] debounce = "clear" /\ master /\ hub' # hub -> "late"
                [] OTHER -> "no"

Next == \/ ClientStep /\ Ghost
        \/ AgentStep /\ Ghost
        \/ Environment /\ Ghost

Spec == Init /\ [][Next]_vars

---------------------------------------------------------------------------
TypeOK ==
    /\ store \subseteq Captures /\ created \subseteq Captures
    /\ watch \in Seq([action : {"set", "delete"}, id : Captures])
    /\ phase \in {"new", "ready", "watching"}
    /\ index \subseteq Captures /\ master \in BOOLEAN
    /\ switch \in {"idle", "purge", "index", "add"}
    /\ resources \subseteq Captures /\ cache \subseteq Captures
    /\ registered \in [Nodes -> [Captures -> {"no", "sent", "started"}]]
    /\ called \in BOOLEAN /\ debounce \in {"wait", "callback", "clear"}
    /\ hub \in [Nodes -> Seq(Entry) \cup {None}]
    /\ nodes \in [Nodes -> Seq(Entry) \cup {None}]
    /\ conn \in BOOLEAN /\ gone \subseteq Nodes /\ missed \in {"no", "early", "late"}
    /\ active \in [Nodes -> [Captures -> 0..Len(probes)]]

\* Nothing is in flight, and nothing is left to do for any goroutine.
Quiet ==
    /\ Listening /\ master /\ watch = <<>> /\ switch = "idle"
    /\ tasks = EmptyBag /\ ~called /\ debounce = "wait"
    /\ conn /\ up = <<>> /\ down = <<>> /\ calls = EmptyBag
    /\ \A i \in DOMAIN probes :
          \/ probes[i].pc = "done"
          \/ probes[i].pc = "listen" /\ probes[i].state = "running"

\* No request started the capture on the node a second time.
Once(n, c) ==
    Cardinality({i \in DOMAIN probes : probes[i].node = n /\ probes[i].cap = c}) < 2

Running(n, c) == active[n][c] # 0 /\ probes[active[n][c]].pc = "listen"

\* Every capture of the API is registered on every node, unless the agent
\* could not start it or the client missed an event: one before it listened,
\* or a Call after the check of the debouncer and before it clears its flag.
AllStarted ==
    Quiet /\ missed = "no" /\ faults = 0 =>
        \A n \in Listed(nodes), c \in store : active[n][c] # 0

\* A task the client marked as started is registered on the agent, so that
\* nodeTasks does not skip a node where the capture does not run.
StartedIsActive ==
    Quiet => \A n \in Nodes, c \in Captures :
                registered[n][c] = "started" => active[n][c] # 0

\* What a node lists as active runs there and what runs there is listed,
\* whatever the order of OnStarted, the two OnStopped and OnError.
ListedIsRunning ==
    Quiet => \A n \in Listed(nodes), c \in Captures :
                Once(n, c) => /\ IsActive(nodes[n], c) => Running(n, c)
                              /\ Running(n, c) => Has(nodes[n], c)

\* No probe goes on after it was unregistered from a node that is still there.
UnregisteredEnds ==
    Quiet => \A i \in DOMAIN probes :
                LET n == probes[i].node  c == probes[i].cap
                IN nodes[n] # None /\ Once(n, c) /\ probes[i].pc = "listen"
                      => active[n][c] = i

---------------------------------------------------------------------------
\* What comments of the code say and its races break.

\* OnNodeAdded: "a node comes up with already a resource [...] not present
\* unregister it".
UnregisterRemaining ==
    [][\A n \in Nodes, c \in Captures :
          /\ Listening /\ master /\ hub[n] = None /\ hub'[n] # None
          /\ Has(hub'[n], c) /\ c \notin resources
          => BagIn(Goroutine("Stop", c, {n}), tasks')]_vars

\* onResourceDeleted: the cache lets a slave that becomes the master delete
\* the captures that were deleted when nobody was the master.
DeletedForgotten == Quiet /\ missed # "early" => resources \subseteq store

\* Debouncer.Call: "calls the callback of the Debouncer object".
CallServed == Quiet /\ faults = 0 /\ missed # "early" =>
                  \A n \in Listed(nodes), c \in store : active[n][c] # 0

\* Probe.Stop: "Stop capturing packets".
StopStops == Quiet => \A i \in DOMAIN probes : probes[i].pc = "listen" =>
                        active[probes[i].node][probes[i].cap] = i
=============================================================================
