---------------------------- MODULE Replication ----------------------------
(***************************************************************************)
(* How the graph of a pod reaches the hubs.  The Forwarder of the pod      *)
(* (graffiti/common/forwarder.go) sends its changes to the hub it elected; *)
(* the PublisherEndpoint of that hub (graffiti/common/publisher_endpoint.  *)
(* go) applies them; its ReplicationEndpoint (graffiti/hub/                *)
(* replication_endpoint.go) sends them on to the other hubs.               *)
(*                                                                         *)
(* The handlers hold the lock of their graph and are atomic.  Connections  *)
(* are FIFO.  When one breaks the messages on the wire are lost, and the   *)
(* ones still in the send channel of the client, which outlives the        *)
(* connection (websocket/client.go), are sent first on the next one.  The  *)
(* pod switches master in one step; MasterElection has the interleavings.  *)
(***************************************************************************)
EXTENDS Integers, SequencesExt

CONSTANTS Hubs,          \* the hubs
          NoHub,         \* no master
          Pod,           \* the pod, as an origin
          Nodes, Edges,  \* the ids of nodes and edges
          Ends,          \* the parent and the child of each edge
          Origin,        \* the pod or the hub that creates each element
          Vals,          \* the metadata
          Absent,        \* an element that is not in a graph
          MaxOps,        \* bound on the number of changes
          Deployments    \* the hubs that run, the elements that are created,
                         \* how many connections of the pod and of hubs break

Elements == Nodes \cup Edges

ASSUME ElementsAssumption ==
    /\ Nodes \cap Edges = {}
    /\ Ends \in [Edges -> Nodes \X Nodes]
    /\ Origin \in [Elements -> Hubs \cup {Pod}]
    /\ NoHub \notin Hubs /\ Pod \notin Hubs
ASSUME BoundsAssumption ==
    /\ MaxOps \in Nat
    /\ Deployments \subseteq [hubs : SUBSET Hubs, elements : SUBSET Elements,
                               podBreaks : Nat, peerBreaks : Nat]

VARIABLES
    pod,      \* the graph of the pod
    hub,      \* the graph of each hub
    master,   \* the hub the Forwarder sends to
    conn,     \* the connection of the pod with each hub: down, up, or lost and
              \* yet to be noticed by the hub
    pub,      \* the messages in flight from the pod to each hub
    unsent,   \* the messages left in the send channel of a lost connection
    author,   \* PublisherEndpoint.authors has the pod, for each hub
    peer,     \* the replication connection of each hub with each other one
    rep,      \* rep[h][g]: the messages in flight from the hub h to the hub g
    ops, podBreaks, peerBreaks,
    dep       \* the deployment

vars == <<dep, pod, hub, master, conn, pub, unsent, author, peer, rep, ops,
          podBreaks, peerBreaks>>

Values == [rev : 1..(MaxOps + 1), val : Vals]
Graphs == [Elements -> Values \cup {Absent}]
Empty == [x \in Elements |-> Absent]
Content(g) == [x \in Elements |-> IF g[x] = Absent THEN Absent ELSE g[x].val]

Init == /\ pod = Empty
        /\ hub = [h \in Hubs |-> Empty]
        /\ master = NoHub
        /\ conn = [h \in Hubs |-> "down"]
        /\ pub = [h \in Hubs |-> <<>>]
        /\ unsent = [h \in Hubs |-> <<>>]
        /\ author = [h \in Hubs |-> FALSE]
        /\ peer = [h \in Hubs |-> [g \in Hubs |-> "down"]]
        /\ rep = [h \in Hubs |-> [g \in Hubs |-> <<>>]]
        /\ ops = 0 /\ podBreaks = 0 /\ peerBreaks = 0
        /\ dep \in Deployments

-----------------------------------------------------------------------------
(* The operations of a graph: from a graph and the events it has raised to *)
(* the graph and the events after the operation.                           *)

Raise(r, x, v, op) ==
    [g |-> [r.g EXCEPT ![x] = v],
     evs |-> Append(r.evs, [op |-> op, x |-> x, v |-> v])]

EndsOf(x) == IF x \in Edges THEN {Ends[x][1], Ends[x][2]} ELSE {}
Incident(g, x) == {e \in Edges : g[e] # Absent /\ x \in EndsOf(e)}

\* NodeAdded, EdgeAdded
Added(r, x, v) ==
    IF r.g[x] = Absent /\ \A y \in EndsOf(x) : r.g[y] # Absent
    THEN Raise(r, x, v, "added") ELSE r

\* NodeUpdated, EdgeUpdated: the latter leaves the revision of the edge alone.
Updated(r, x, v) ==
    IF r.g[x] # Absent /\ r.g[x].rev < v.rev
    THEN Raise(r, x, IF x \in Nodes THEN v ELSE [v EXCEPT !.rev = r.g[x].rev],
               "updated")
    ELSE r

DeleteOne(x, r) == IF r.g[x] = Absent THEN r ELSE Raise(r, x, Absent, "deleted")

\* NodeDeleted, EdgeDeleted: the edges of a node go before the node.
Deleted(x, r) == DeleteOne(x, FoldSet(DeleteOne, r, Incident(r.g, x)))

\* DelSubGraphOfOrigin deletes the nodes of an origin.
DelSubGraphOfOrigin(r, o) ==
    FoldSet(Deleted, r, {x \in Nodes : r.g[x] # Absent /\ Origin[x] = o})

\* The nodes, then the edges, of a Sync message that are not in the graph.
AddMissing(r, g) ==
    LET add(x, q) == IF g[x] = Absent THEN q ELSE Added(q, x, g[x])
    IN FoldSet(add, FoldSet(add, r, Nodes), Edges)

\* The switch of both OnStructMessage handlers.
Apply(r, m) ==
    CASE m.op = "added" -> Added(r, m.x, m.v)
      [] m.op = "updated" -> Updated(r, m.x, m.v)
      [] m.op = "deleted" -> Deleted(m.x, r)
      [] m.op = "sync" -> AddMissing(r, m.g)

\* Mutant: the elements of the publisher are not deleted first.
MutPublished(r, m) == Apply(r, m)

\* PublisherEndpoint: a Sync replaces all the elements of the publisher.
Published(r, m) ==
    Apply(IF m.op = "sync" THEN DelSubGraphOfOrigin(r, Pod) ELSE r, m)

\* The events of a local change, sent to the connected peers of h.
Broadcast(h, evs) ==
    rep' = [rep EXCEPT ![h] =
              [g \in Hubs |-> IF peer[h][g] = "up" THEN @[g] \o evs ELSE @[g]]]

\* The handler of h changed its graph; the ReplicationEndpoint is a listener.
HubChanged(h, r) ==
    /\ hub' = [hub EXCEPT ![h] = r.g]
    /\ Broadcast(h, r.evs)

At(g) == [g |-> g, evs |-> <<>>]
Sync(g) == [op |-> "sync", g |-> g]

-----------------------------------------------------------------------------
(* The pod.                                                                *)

\* A change of the graph r of the elements of an origin: NewNode, NewEdge,
\* SetMetadata, DelNode, DelEdge.
Changes(g, o) ==
    LET own == {x \in dep.elements : Origin[x] = o}
        set(x, v) == Raise(At(g), x, [rev |-> g[x].rev + 1, val |-> v], "updated")
    IN {Added(At(g), x, [rev |-> 1, val |-> v]) : x \in own, v \in Vals}
       \cup {set(x, v) : x \in {y \in own : g[y] # Absent}, v \in Vals}
       \cup {Deleted(x, At(g)) : x \in own}

\* Whether the operation changes the content of the graph (SetMetadata returns
\* early otherwise).
Effective(g, r) == Content(r.g) # Content(g)

\* The pod changes its graph and the Forwarder sends the events to the master.
PodChange ==
    /\ ops < MaxOps
    /\ \E r \in Changes(pod, Pod) :
          /\ Effective(pod, r)
          /\ pod' = r.g
          /\ pub' = IF master = NoHub THEN pub
                    ELSE [pub EXCEPT ![master] = @ \o r.evs]
    /\ ops' = ops + 1
    /\ UNCHANGED <<dep, hub, master, conn, unsent, author, peer, rep, podBreaks,
                   peerBreaks>>

\* Mutant: the first master is not sent the graph.
MutPodConnected(h) ==
    /\ h \in dep.hubs /\ conn[h] = "down"
    /\ conn' = [conn EXCEPT ![h] = "up"]
    /\ master' = IF master = NoHub THEN h ELSE master
    /\ UNCHANGED <<dep, pod, hub, pub, unsent, author, peer, rep, ops, podBreaks,
                   peerBreaks>>

\* The pod connects to a hub, which becomes its master if it has none.
PodConnected(h) ==
    /\ h \in dep.hubs /\ conn[h] = "down"
    /\ conn' = [conn EXCEPT ![h] = "up"]
    /\ IF master = NoHub
       THEN /\ master' = h
            /\ pub' = [pub EXCEPT ![h] = Append(unsent[h], Sync(pod))]
       ELSE pub' = [pub EXCEPT ![h] = unsent[h]] /\ UNCHANGED master
    /\ unsent' = [unsent EXCEPT ![h] = <<>>]
    /\ UNCHANGED <<dep, pod, hub, author, peer, rep, ops, podBreaks, peerBreaks>>

\* The connection breaks, with what the hub did not read yet; the pod elects
\* another connected hub and sends it its graph.
PodDisconnected(h) ==
    LET others == {g \in Hubs \ {h} : conn[g] = "up"} IN
    /\ conn[h] = "up"
    /\ podBreaks < dep.podBreaks
    /\ podBreaks' = podBreaks + 1
    /\ conn' = [conn EXCEPT ![h] = "lost"]
    /\ \E s \in Prefixes(pub[h]), t \in Suffixes(pub[h]) :
          /\ Len(s) + Len(t) <= Len(pub[h])
          /\ unsent' = [unsent EXCEPT ![h] = t]
          /\ IF master # h
             THEN pub' = [pub EXCEPT ![h] = s] /\ UNCHANGED master
             ELSE IF others = {}
             THEN pub' = [pub EXCEPT ![h] = s] /\ master' = NoHub
             ELSE \E g \in others :
                     /\ master' = g
                     /\ pub' = [pub EXCEPT ![h] = s,
                                           ![g] = Append(@, Sync(pod))]
    /\ UNCHANGED <<dep, pod, hub, author, peer, rep, ops, peerBreaks>>

-----------------------------------------------------------------------------
(* The PublisherEndpoint of a hub.                                         *)

\* PublisherEndpoint.OnStructMessage: the first message makes the pod an author.
PublisherMessage(h) ==
    /\ pub[h] # <<>>
    /\ author' = [author EXCEPT ![h] = TRUE]
    /\ HubChanged(h, Published(At(hub[h]), Head(pub[h])))
    /\ pub' = [pub EXCEPT ![h] = Tail(@)]
    /\ UNCHANGED <<dep, pod, master, conn, unsent, peer, ops, podBreaks, peerBreaks>>

\* PublisherEndpoint.OnDisconnected, after the messages that were read.  The
\* pod is refused by the hub until this handler returned.
PublisherDisconnected(h) ==
    /\ conn[h] = "lost"
    /\ pub[h] = <<>>
    /\ conn' = [conn EXCEPT ![h] = "down"]
    /\ IF author[h]
       THEN HubChanged(h, DelSubGraphOfOrigin(At(hub[h]), Pod))
       ELSE UNCHANGED <<hub, rep>>
    /\ author' = [author EXCEPT ![h] = FALSE]
    /\ UNCHANGED <<dep, pod, master, pub, unsent, peer, ops, podBreaks, peerBreaks>>

-----------------------------------------------------------------------------
(* The ReplicationEndpoint of a hub.                                       *)

\* A hub changes one of its own elements.
HubChange(h) ==
    /\ ops < MaxOps
    /\ \E r \in Changes(hub[h], h) : Effective(hub[h], r) /\ HubChanged(h, r)
    /\ ops' = ops + 1
    /\ UNCHANGED <<dep, pod, master, conn, pub, unsent, author, peer, podBreaks,
                   peerBreaks>>

\* Mutant: the peer is not initialised.
MutPeerConnected(h, g) ==
    /\ {h, g} \subseteq dep.hubs /\ peer[h][g] = "down"
    /\ peer[g][h] # "lost"
    /\ peer' = [peer EXCEPT ![h][g] = "up"]
    /\ UNCHANGED <<dep, pod, hub, master, conn, pub, unsent, author, rep, ops,
                   podBreaks, peerBreaks>>

\* OnConnected of both sides: the whole graph is sent to the peer.
PeerConnected(h, g) ==
    /\ {h, g} \subseteq dep.hubs /\ peer[h][g] = "down"
    /\ peer[g][h] # "lost"
    /\ peer' = [peer EXCEPT ![h][g] = "up"]
    /\ rep' = [rep EXCEPT ![h][g] = Append(@, Sync(hub[h]))]
    /\ UNCHANGED <<dep, pod, hub, master, conn, pub, unsent, author, ops, podBreaks,
                   peerBreaks>>

\* The connection of two hubs breaks, with what was not read yet.
PeerBreak(h, g) ==
    /\ peer[h][g] = "up" /\ peer[g][h] = "up"
    /\ peerBreaks < dep.peerBreaks
    /\ peerBreaks' = peerBreaks + 1
    /\ peer' = [peer EXCEPT ![h][g] = "lost", ![g][h] = "lost"]
    /\ \E s \in Prefixes(rep[h][g]), t \in Prefixes(rep[g][h]) :
          rep' = [rep EXCEPT ![h][g] = s, ![g][h] = t]
    /\ UNCHANGED <<dep, pod, hub, master, conn, pub, unsent, author, ops, podBreaks>>

\* Mutant: the elements of the lost peer are kept.
MutPeerDisconnected(h, g) ==
    /\ peer[h][g] = "lost"
    /\ rep[g][h] = <<>>
    /\ peer' = [peer EXCEPT ![h][g] = "down"]
    /\ UNCHANGED <<dep, pod, hub, rep, master, conn, pub, unsent, author, ops,
                   podBreaks, peerBreaks>>

\* OnDisconnected of both sides: the elements created by the peer are deleted,
\* the ones it only replicated are not.
PeerDisconnected(h, g) ==
    /\ peer[h][g] = "lost"
    /\ rep[g][h] = <<>>
    /\ peer' = [peer EXCEPT ![h][g] = "down"]
    /\ HubChanged(h, DelSubGraphOfOrigin(At(hub[h]), g))
    /\ UNCHANGED <<dep, pod, master, conn, pub, unsent, author, ops, podBreaks,
                   peerBreaks>>

\* ReplicationEndpoint.OnStructMessage: replicateMsg is unset, so that the
\* events of a replicated change stay in the hub.
PeerMessage(h, g) ==
    /\ rep[g][h] # <<>>
    /\ peer[h][g] # "down"
    /\ LET r == Apply(At(hub[h]), Head(rep[g][h])) IN
          /\ hub' = [hub EXCEPT ![h] = r.g]
          /\ rep' = [rep EXCEPT ![g][h] = Tail(@)]
    /\ UNCHANGED <<dep, pod, master, conn, pub, unsent, author, peer, ops, podBreaks,
                   peerBreaks>>

PubStep(h) == PublisherMessage(h) \/ PublisherDisconnected(h)
PeerStep(h, g) == \/ PeerConnected(h, g)
                  \/ PeerDisconnected(h, g)
                  \/ PeerMessage(h, g)

Next == \/ PodChange
        \/ \E h \in Hubs :
              \/ PodConnected(h) \/ PodDisconnected(h)
              \/ PubStep(h) \/ HubChange(h)
              \/ \E g \in Hubs \ {h} : PeerStep(h, g) \/ PeerBreak(h, g)

\* Connected or not, a hub handles what it received; clients dial again.
Fairness == \A h \in Hubs :
               /\ WF_vars(PubStep(h)) /\ WF_vars(PodConnected(h))
               /\ \A g \in Hubs \ {h} : WF_vars(PeerStep(h, g))

Spec == Init /\ [][Next]_vars /\ Fairness

-----------------------------------------------------------------------------

Messages == [op : {"added", "updated", "deleted"}, x : Elements,
             v : Values \cup {Absent}]
            \cup [op : {"sync"}, g : Graphs]

\* Every variable has its type.
TypeOK ==
    /\ pod \in Graphs
    /\ hub \in [Hubs -> Graphs]
    /\ master \in Hubs \cup {NoHub}
    /\ conn \in [Hubs -> {"down", "up", "lost"}]
    /\ pub \in [Hubs -> Seq(Messages)]
    /\ unsent \in [Hubs -> Seq(Messages)]
    /\ author \in [Hubs -> BOOLEAN]
    /\ peer \in [Hubs -> [Hubs -> {"down", "up", "lost"}]]
    /\ rep \in [Hubs -> [Hubs -> Seq(Messages)]]
    /\ ops \in 0..MaxOps /\ dep \in Deployments

\* Nothing is in flight and every loss was noticed.
Quiet ==
    /\ \A h \in Hubs : pub[h] = <<>> /\ conn[h] # "lost"
    /\ \A h, g \in Hubs : rep[h][g] = <<>>
    /\ \A h, g \in dep.hubs : h # g => peer[h][g] = "up"

OfPod(g) == [x \in {y \in Elements : Origin[y] = Pod} |-> Content(g)[x]]

\* "In such case a "Re-sync" is triggered in order to be in sync with the new
\* master" (forwarder.go, OnNewMaster): when nothing is in flight the master
\* has the graph of the pod, whatever was lost before on the pod's connection.
\* (A hub that lost the master brings deleted nodes back: see HubsAgree.)
InSync == master # NoHub /\ OfPod(hub[master]) = OfPod(pod)
MasterInSync ==
    Quiet /\ peerBreaks = 0 /\ master # NoHub => InSync

\* Once the pod stops changing and the network stops failing, some hub is in
\* sync with the pod for good, if hubs did not lose one another.
EventuallyInSync == <>[](peerBreaks = 0 => InSync)

\* "ReplicationEndpoint serves the local Graph and send local modification to
\* its peers" (replication_endpoint.go): when nothing is in flight, connected
\* hubs have the same graph.
HubsAgree ==
    Quiet => \A h, g \in dep.hubs : Content(hub[h]) = Content(hub[g])

\* As long as no connection broke, hubs that are connected have the same nodes
\* when nothing is in flight: the Sync of a new peer and the changes made while
\* it is on its way leave no difference (replication_endpoint.go, OnConnected
\* and OnStructMessage).
NodesAgree ==
    Quiet /\ podBreaks = 0 /\ peerBreaks = 0 =>
        \A h, g \in dep.hubs : \A x \in Nodes :
            Content(hub[h])[x] = Content(hub[g])[x]

\* The nodes that a hub creates itself are the same on all connected hubs when
\* nothing is in flight, whatever connection broke before: a lost peer takes
\* its own nodes with it and the Sync brings them back
\* (replication_endpoint.go, OnDisconnected and OnConnected).
OwnNodesAgree ==
    Quiet => \A h, g \in dep.hubs : \A x \in Nodes :
        Origin[x] = h => Content(hub[g])[x] = Content(hub[h])[x]
=============================================================================
