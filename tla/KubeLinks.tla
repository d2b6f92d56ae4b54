----------------------------- MODULE KubeLinks -----------------------------
(***************************************************************************)
(* How the resources of Kubernetes get into the graph of an analyzer and   *)
(* are linked there (topology/probes/k8s/cache.go, container.go and        *)
(* linker.go, graffiti/graph/linker.go and indexer.go).  Services and pods *)
(* are ResourceCaches; the containers of the pods come from a second       *)
(* handler of the cache of the pods; docker containers are nodes that      *)
(* agents send.  There are three linkers:                                  *)
(*   "SP"  service to pod, an ABLinker, which compares the resources of    *)
(*         the two caches;                                                 *)
(*   "PC"  pod to container, a MetadataIndexerLinker on the pod's name;    *)
(*   "CD"  container to docker container, a MetadataIndexerLinker on the   *)
(*         names of the pod and of the container.                          *)
(*                                                                         *)
(* The informer of each kind of resource is a goroutine that stores an     *)
(* event of the API server in its cache and then calls the handlers one by *)
(* one.  A handler holds the graph lock and is one action, with all the    *)
(* listeners it calls; it reads both caches as they are at that time.      *)
(***************************************************************************)
EXTENDS Integers, Sequences, FiniteSetsExt

CONSTANTS Services, Pods,  \* the names of the resources
          Conts,           \* the names of the containers of a pod
          Dockers,         \* the docker containers
          Values,          \* the labels that a service selects pods by
          None,
          MaxUid,          \* how often a resource of a name is created
          MaxOps,          \* changes in the cluster and of docker containers
          MaxResyncs,      \* periodic resyncs of an informer
          MaxFaults        \* writes that the persistent backend refuses

Kinds == {"service", "pod"}
Names(k) == IF k = "service" THEN Services ELSE Pods
Uids == 1 .. MaxUid
ContIDs == Pods \X Uids \X Conts
NodeIDs == ((Services \cup Pods) \X Uids) \cup ContIDs \cup Dockers
Linkers == {"SP", "PC", "CD"}
\* The indexers: the pods and the containers by the name of the pod, the
\* containers and the docker containers by the names of pod and container.  The
\* container probe has an indexer of its own with the key of "C" and the same
\* listener handler; "C" stands for both.
Indexers == {"P", "C", "K", "D"}

VARIABLES api,      \* the resources of the API server
          born,     \* the number of times each was created
          stream,   \* the events on their way to the informer of each kind
          cache,    \* the caches of the informers
          order,    \* the handlers of each kind, in the order of registration
          todo,     \* the event that an informer handles, the handlers to call
          G,        \* the graph and what its listeners keep
          ops, resyncs, faults

vars == <<api, born, stream, cache, order, todo, G, ops, resyncs, faults>>

\* nodes: the metadata of each node, None if there is no node; edges: the
\* edges of each linker; links: the field links of its two listeners; index and
\* hashes: hashToValues and nodeToHashes of each indexer; crashed: a node that
\* is not in the graph was taken from an index, and used.
Init == /\ api = [n \in Services \cup Pods |-> None]
        /\ born = [n \in Services \cup Pods |-> 0]
        /\ stream = [k \in Kinds |-> <<>>]
        /\ cache = [n \in Services \cup Pods |-> None]
        /\ order \in {[service |-> <<"service">>, pod |-> o] :
                          o \in {<<"pod", "container">>, <<"container", "pod">>}}
        /\ todo = [k \in Kinds |-> None]
        /\ G = [nodes |-> [i \in NodeIDs |-> None],
                edges |-> [l \in Linkers |-> {}],
                links |-> [l \in Linkers |-> {}],
                index |-> [x \in Indexers |-> {}],
                hashes |-> [x \in Indexers |-> [i \in NodeIDs |-> {}]],
                crashed |-> FALSE]
        /\ ops = 0 /\ resyncs = 0 /\ faults = 0

---------------------------------------------------------------------------
\* The cluster and the informers.

Send(k, op, n, obj) ==
    stream' = [stream EXCEPT ![k] = Append(@, [op |-> op, name |-> n, obj |-> obj])]

Objects(k, u) == [uid : {u}, val : Values,
                  conts : IF k = "pod" THEN SUBSET Conts \ {{}} ELSE {{}}]

Cluster(k, n, obj, op) ==
    /\ ~G.crashed /\ ops < MaxOps /\ ops' = ops + 1
    /\ api' = [api EXCEPT ![n] = obj]
    /\ Send(k, op, n, IF op = "delete" THEN api[n] ELSE obj)
    /\ UNCHANGED <<cache, order, todo, G, resyncs, faults>>

Create(k, n) ==
    /\ api[n] = None /\ born[n] < MaxUid
    /\ born' = [born EXCEPT ![n] = @ + 1]
    /\ \E obj \in Objects(k, born[n] + 1) : Cluster(k, n, obj, "add")
Update(k, n) ==
    /\ api[n] # None /\ UNCHANGED born
    /\ \E obj \in Objects(k, api[n].uid) \ {api[n]} : Cluster(k, n, obj, "update")
Remove(k, n) ==
    /\ api[n] # None /\ UNCHANGED born
    /\ Cluster(k, n, None, "delete")

\* The informer takes an event and changes its cache before it calls the
\* handlers.
Inform(k) ==
    /\ ~G.crashed /\ todo[k] = None /\ stream[k] # <<>>
    /\ LET e == Head(stream[k]) IN
       /\ cache' = [cache EXCEPT ![e.name] = IF e.op = "delete" THEN None ELSE e.obj]
       /\ todo' = [todo EXCEPT ![k] = [ev |-> e, left |-> order[k]]]
    /\ stream' = [stream EXCEPT ![k] = Tail(@)]
    /\ UNCHANGED <<api, born, order, G, ops, resyncs, faults>>

\* The resync, every 30 minutes: an update with what the cache has.
Resync(k, n) ==
    /\ ~G.crashed /\ todo[k] = None /\ cache[n] # None
    /\ resyncs < MaxResyncs /\ resyncs' = resyncs + 1
    /\ todo' = [todo EXCEPT ![k] =
                   [ev |-> [op |-> "update", name |-> n, obj |-> cache[n]],
                    left |-> order[k]]]
    /\ UNCHANGED <<api, born, stream, cache, order, G, ops, faults>>

---------------------------------------------------------------------------
\* The graph.  The memory is written first, so that a write that the persistent
\* backend refuses is an error with the memory changed.  f is what it refuses
\* in a step: el, a node or an edge <<linker, parent, child>> (None: nothing),
\* and kept, the edges that a DelNode it stops has not come to.

Edges(g, i) == {e \in UNION {{l} \X g.edges[l] : l \in Linkers} : i \in {e[2][1], e[2][2]}}
SetNode(g, i, m) == [g EXCEPT !.nodes[i] = m]

\* DelNode deletes the edges of the node, then the node; it returns the first
\* error.
Stopped(g, i, f) == f.el \in Edges(g, i)
DelNode(g, i, f) ==
    IF Stopped(g, i, f)
    THEN [g EXCEPT !.edges = [l \in Linkers |->
                                 {e \in @[l] : i \in {e[1], e[2]} => <<l, e>> \in f.kept}]]
    ELSE [g EXCEPT !.edges = [l \in Linkers |-> {e \in @[l] : i \notin {e[1], e[2]}}],
                   !.nodes[i] = None]

---------------------------------------------------------------------------
\* The linkers.

\* Mutant: a link that no longer holds stays.
MutNodeEvent(g, l, end, i, new, f) ==
    LET old == {e \in g.edges[l] : e[end] = i}
    IN [g EXCEPT !.edges[l] = @ \cup new,
                 !.links[l] = @ \cup {e \in new \ old : f.el # <<l, e>>}]

\* listener.nodeEvent: the links of which the node i is the given end (1, the
\* parent, or 2, the child) become the new ones.  An edge whose write is refused
\* is in the graph and not among the links that the linker may delete.
NodeEvent(g, l, end, i, new, f) ==
    LET old == {e \in g.edges[l] : e[end] = i}
        del == (old \ new) \cap g.links[l]
    IN [g EXCEPT !.edges[l] = (@ \cup new) \ del,
                 !.links[l] = (@ \cup {e \in new \ old : f.el # <<l, e>>}) \ del]

\* ABLinker: the node's resource is looked up in its cache by name, and compared
\* with the resources in the other cache that have a node.
ID(n) == <<n, cache[n].uid>>
WithNode(g, k) == {n \in Names(k) : cache[n] # None /\ g.nodes[ID(n)] # None}
AreLinked(s, p) == cache[s].val = cache[p].val
GetABLinks(g, i) ==
    {<<i, ID(p)>> : p \in {p \in WithNode(g, "pod") :
                              cache[i[1]] # None /\ AreLinked(i[1], p)}}
\* Mutant: pods that come after their service are not linked.
MutGetBALinks(g, i) == {}
GetBALinks(g, i) ==
    {<<ID(s), i>> : s \in {s \in WithNode(g, "service") :
                              cache[i[1]] # None /\ AreLinked(s, i[1])}}

\* What an indexer indexes a node by.
Key(g, x, i) == CASE x \in {"P", "C"} -> i[1]
                  [] x = "K" -> <<i[1], i[3]>>
                  [] x = "D" -> g.nodes[i].key

\* Indexer.FromHash takes the nodes from the graph: one that is not there is nil,
\* and its use ends the process.
Get(g, x, key) == {e[1] : e \in {e \in g.index[x] : e[2] = key}}
Use(g, found) == [g EXCEPT !.crashed = @ \/ \E i \in found : g.nodes[i] = None]

\* MetadataIndexerLinker: the nodes of the other indexer that have the key.
Other(x) == [P |-> "C", C |-> "P", K |-> "D", D |-> "K"][x]
LinkIndexed(g, x, i, deleted, f) ==
    LET found == IF deleted THEN {} ELSE Get(g, Other(x), Key(g, x, i))
        parent == x \in {"P", "K"}
        new == {IF parent THEN <<i, j>> ELSE <<j, i>> : j \in found}
    IN NodeEvent(Use(g, found), IF x \in {"P", "C"} THEN "PC" ELSE "CD",
                 IF parent THEN 1 ELSE 2, i, new, f)

---------------------------------------------------------------------------
\* The indexers.

Index(g, x, i, key) ==
    [g EXCEPT !.index[x] = (@ \ {<<i, h>> : h \in g.hashes[x][i]}) \cup {<<i, key>>},
              !.hashes[x][i] = @ \cup {key}]
\* Mutant: only the record of the node's keys goes.
MutUnindex(g, x, i) == [g EXCEPT !.hashes[x][i] = {}]
Unindex(g, x, i) ==
    [g EXCEPT !.index[x] = @ \ {<<i, h>> : h \in g.hashes[x][i]},
              !.hashes[x][i] = {}]

\* OnNodeAdded, OnNodeUpdated and OnNodeDeleted, with the linker that listens.
\* Only a docker container may have no key: its labels may come later.
OnNode(g, x, op, i, f) ==
    CASE op # "delete" /\ Key(g, x, i) # None ->
            LinkIndexed(Index(g, x, i, Key(g, x, i)), x, i, FALSE, f)
      [] (op = "delete" \/ (op = "update" /\ Key(g, x, i) = None))
            /\ g.hashes[x][i] # {} ->
            LinkIndexed(Unindex(g, x, i), x, i, TRUE, f)
      [] OTHER -> g

---------------------------------------------------------------------------
\* The handlers of the informers.

\* NotifyEvent of the service, pod and container subprobes, and, for the docker
\* containers, of the graph.
Notify(g, h, op, i, f) ==
    CASE h = "service" ->
            NodeEvent(g, "SP", 1, i, IF op = "delete" THEN {} ELSE GetABLinks(g, i), f)
      [] h = "pod" ->
            NodeEvent(OnNode(g, "P", op, i, f), "SP", 2, i,
                      IF op = "delete" THEN {} ELSE GetBALinks(g, i), f)
      [] h = "container" ->
            OnNode(OnNode(g, "C", op, i, f), "K", op, i, f)
      [] h = "docker" -> OnNode(g, "D", op, i, f)

\* SetMetadata writes nothing, and so is not refused, if nothing changes.
Refused(g, i, m, f) == f.el = i /\ g.nodes[i] # m

\* After an error the listeners are not called.  Mutant: nor is the memory
\* written.
MutWrite(g, h, op, i, m, f) ==
    IF Refused(g, i, m, f) THEN g ELSE Notify(SetNode(g, i, m), h, op, i, f)
Write(g, h, op, i, m, f) ==
    LET new == SetNode(g, i, m)
    IN IF Refused(g, i, m, f) THEN new ELSE Notify(new, h, op, i, f)
Delete(g, h, i, f) ==
    LET new == DelNode(g, i, f)
    IN IF f.el = i \/ Stopped(g, i, f) THEN new ELSE Notify(new, h, "delete", i, f)

\* ResourceCache.OnAdd, OnUpdate and OnDelete.
OnAdd(g, h, i, m, f) == IF g.nodes[i] # None THEN g ELSE Write(g, h, "add", i, m, f)
OnUpdate(g, h, i, m, f) == IF g.nodes[i] = None THEN g ELSE Write(g, h, "update", i, m, f)
OnDelete(g, h, i, f) == IF g.nodes[i] = None THEN g ELSE Delete(g, h, i, f)

\* containerProbe.OnAdd, and OnUpdate, which is the same: the containers of the
\* pod get their nodes; those that the pod's name is indexed with, and that were
\* not written, are deleted.
SetContainer(g, i, m, f) ==
    Write(g, "container", IF g.nodes[i] = None THEN "add" ELSE "update", i, m, f)
DeleteContainers(g, ids, f) ==
    FoldSet(LAMBDA i, acc : Delete(acc, "container", i, f), Use(g, ids), ids)
\* Mutant: the containers that the pod no longer has stay.
MutOnAddPod(g, n, obj, f) ==
    FoldSet(LAMBDA i, acc : SetContainer(acc, i, [val |-> obj.val], f), g,
            {<<n, obj.uid, c>> : c \in obj.conts})
OnAddPod(g, n, obj, f) ==
    LET m == [val |-> obj.val]
        ids == {<<n, obj.uid, c>> : c \in obj.conts}
        set == FoldSet(LAMBDA i, acc : SetContainer(acc, i, m, f), g, ids)
        written == {i[3] : i \in {i \in ids : ~Refused(g, i, m, f)}}
        found == Get(set, "C", n)
    IN IF \E i \in found : set.nodes[i] = None THEN Use(set, found)
       ELSE DeleteContainers(set, {i \in found : i[3] \notin written}, f)
\* containerProbe.OnDelete.
OnDeletePod(g, n, f) ==
    LET found == Get(g, "C", n)
    IN IF \E i \in found : g.nodes[i] = None THEN Use(g, found)
       ELSE DeleteContainers(g, found, f)

\* What a handler does with an event.
Handler(g, h, e, f) ==
    LET i == <<e.name, e.obj.uid>>
        m == [val |-> e.obj.val]
    IN CASE h = "container" /\ e.op # "delete" -> OnAddPod(g, e.name, e.obj, f)
         [] h = "container" /\ e.op = "delete" -> OnDeletePod(g, e.name, f)
         [] h # "container" /\ e.op = "add" -> OnAdd(g, h, i, m, f)
         [] h # "container" /\ e.op = "update" -> OnUpdate(g, h, i, m, f)
         [] h # "container" /\ e.op = "delete" -> OnDelete(g, h, i, f)

---------------------------------------------------------------------------
\* The steps that change the graph.

NoFault == [el |-> None, kept |-> {}]
All(g) == UNION {{l} \X g.edges[l] : l \in Linkers}
\* What the persistent backend may refuse of a step that handles the nodes ids
\* and has the result g when nothing is refused.
MayRefuse(ids, g) ==
    LET old == UNION {Edges(G, i) : i \in ids}
    IN {[el |-> e, kept |-> {}] : e \in ids \cup (All(g) \ All(G))}
       \cup {f \in [el : old, kept : SUBSET old] : f.el \notin f.kept}

\* What is refused of such a step: nothing, or one of these.
Refusals(ids, g) ==
    {NoFault} \cup (IF faults < MaxFaults THEN MayRefuse(ids, g) ELSE {})
\* The graph becomes g, f being refused.
Change(g, f) == G' = g /\ faults' = IF f = NoFault THEN faults ELSE faults + 1

\* An informer calls its next handler.
Handle(k) ==
    /\ ~G.crashed /\ todo[k] # None
    /\ LET e == todo[k].ev
           h == Head(todo[k].left)
           left == Tail(todo[k].left)
           ids == IF h = "container" THEN {e.name} \X Uids \X Conts
                  ELSE {<<e.name, e.obj.uid>>}
       IN /\ \E f \in Refusals(ids, Handler(G, h, e, NoFault)) : Change(Handler(G, h, e, f), f)
          /\ todo' = [todo EXCEPT ![k] = IF left = <<>> THEN None
                                         ELSE [@ EXCEPT !.left = left]]
    /\ UNCHANGED <<api, born, stream, cache, order, ops, resyncs>>

\* An agent tells of a docker container: it is there, its metadata changed, it
\* is gone.
Docker(d, op, m, f) ==
    IF op = "delete" THEN Delete(G, "docker", d, f) ELSE Write(G, "docker", op, d, m, f)
OnStructMessage(d, op, m) ==
    /\ ~G.crashed /\ ops < MaxOps /\ ops' = ops + 1
    /\ \E f \in Refusals({d}, Docker(d, op, m, NoFault)) : Change(Docker(d, op, m, f), f)
    /\ UNCHANGED <<api, born, stream, cache, order, todo, resyncs>>
SetDocker(d) ==
    \E key \in {None} \cup (Pods \X Conts) :
        /\ G.nodes[d] # [key |-> key]
        /\ OnStructMessage(d, IF G.nodes[d] = None THEN "add" ELSE "update", [key |-> key])
DelDocker(d) ==
    /\ G.nodes[d] # None
    /\ OnStructMessage(d, "delete", None)

Next == \/ \E k \in Kinds : \/ Inform(k) \/ Handle(k)
                            \/ \E n \in Names(k) : \/ Create(k, n) \/ Update(k, n)
                                                   \/ Remove(k, n) \/ Resync(k, n)
        \/ \E d \in Dockers : SetDocker(d) \/ DelDocker(d)

Spec == Init /\ [][Next]_vars

---------------------------------------------------------------------------
\* Properties.

\* Every variable has its type.
TypeOK ==
    /\ \A n \in Services \cup Pods :
          {api[n], cache[n]} \subseteq
              {None} \cup [uid : Uids, val : Values, conts : SUBSET Conts]
    /\ G.nodes \in [NodeIDs -> {None} \cup [val : Values]
                                    \cup [key : {None} \cup (Pods \X Conts)]]
    /\ \A l \in Linkers : G.edges[l] \subseteq NodeIDs \X NodeIDs
    /\ ops \in 0 .. MaxOps /\ resyncs \in 0 .. MaxResyncs /\ faults \in 0 .. MaxFaults

Nodes == {i \in NodeIDs : G.nodes[i] # None}
\* Every event of the cluster has been handled.
Quiet == ~G.crashed /\ \A k \in Kinds : stream[k] = <<>> /\ todo[k] = None
Resources == {<<n, api[n].uid>> : n \in {n \in Services \cup Pods : api[n] # None}}
Containers == UNION {{<<n, api[n].uid, c>> : c \in api[n].conts} :
                       n \in {n \in Pods : api[n] # None}}

\* Once all events are handled, the graph has the nodes of the services, the
\* pods and the containers that the cluster has, and of no others, whatever the
\* order of the two handlers of the pods (ResourceCache and containerProbe).
MirrorsCluster ==
    Quiet /\ faults = 0 => Nodes \ Dockers = Resources \cup Containers

\* Once all events are handled, a service and a pod are linked exactly if the
\* service selects the pod.  The handler of one reads the cache of the other,
\* which may be ahead of the graph: a resource without a node yet is left out
\* (ABLinker.GetABLinks, GetBALinks) and its own handler has to make the link.
ServicesLinked ==
    Quiet /\ faults = 0 =>
    G.edges["SP"] = {e \in (Resources \cap (Services \X Uids)) \X
                            (Resources \cap (Pods \X Uids)) :
                       api[e[1][1]].val = api[e[2][1]].val}

\* The indexes follow the graph at every step: a container is linked with its
\* own pod, of the same creation, and with the docker container that has its
\* names, while both are in the graph (MetadataIndexerLinker, Indexer).
IndexedLinked ==
    faults = 0 =>
    /\ G.edges["PC"] = {e \in (Nodes \cap (Pods \X Uids)) \X (Nodes \cap ContIDs) :
                          <<e[2][1], e[2][2]>> = e[1]}
    /\ G.edges["CD"] = {e \in (Nodes \cap ContIDs) \X (Nodes \cap Dockers) :
                          <<e[1][1], e[1][3]>> = G.nodes[e[2]].key}

\* A write that the persistent backend refuses never costs a resource its node:
\* once all events are handled every service and pod of the cluster has one.
NothingMissing == Quiet => Resources \subseteq Nodes

\* The nodes of an index are nodes of the graph, so that Indexer.FromHash never
\* returns nil, as long as no write was refused.
IndexedInGraph ==
    faults = 0 => \A x \in Indexers : \A e \in G.index[x] : e[1] \in Nodes

\* The process never ends because of a node that is in an index and not in the
\* graph (MetadataIndexerLinker.createEdge, containerProbe.OnAdd).
NeverCrashes == ~G.crashed
=============================================================================
