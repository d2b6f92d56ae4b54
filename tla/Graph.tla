-------------------------------- MODULE Graph --------------------------------
(***************************************************************************)
(* The topology graph of one process: graffiti/graph/graph.go over the     *)
(* CachedBackend (cachedbackend.go), whose cache is a MemoryBackend        *)
(* (memory.go).  Every operation runs with the graph lock held, so each    *)
(* one is a single action here.  A write goes to the memory first and then *)
(* to the persistent backend; when the second one fails the operation      *)
(* returns the error, leaves the memory as it is and tells no listener.    *)
(*                                                                         *)
(* An element is Absent or a revision with its metadata.  The identifier   *)
(* of an edge determines its two ends: it is either a fresh UUID or a hash *)
(* of the ends (CreateEdge, Linker.genID).                                 *)
(***************************************************************************)
EXTENDS Naturals, FiniteSets

CONSTANTS NodeIDs, EdgeIDs,
          Ends,       \* the parent and the child of each edge
          Meta,       \* metadata values
          Absent,     \* no such element
          MaxRev      \* bound: highest revision of an element

ASSUME IDsAssumption == NodeIDs \cap EdgeIDs = {}
ASSUME EndsAssumption == Ends \in [EdgeIDs -> NodeIDs \X NodeIDs]
ASSUME AbsentAssumption == Absent \notin Meta \cup [rev : Nat, meta : Meta]
ASSUME MaxRevAssumption == MaxRev \in Nat \ {0}

VARIABLES el,      \* the elements of MemoryBackend.nodes and .edges
          adj,     \* MemoryBackendNode.edges of each node
          mode,    \* CachedBackend.cacheMode
          seen,    \* the metadata a listener last received for an element
          silent   \* elements whose last change was not notified

vars == <<el, adj, mode, seen, silent>>

Elements == NodeIDs \cup EdgeIDs
Revs == 1 .. MaxRev
Live(S) == {x \in S : el[x] # Absent}
nodes == Live(NodeIDs)
edges == Live(EdgeIDs)
Parent(e) == Ends[e][1]
Child(e) == Ends[e][2]
EndsOf(e) == {Parent(e), Child(e)}
Content(v) == IF v = Absent THEN Absent ELSE v.meta

Init ==
  /\ el = [x \in Elements |-> Absent]
  /\ adj = [n \in NodeIDs |-> {}]
  /\ mode = "DefaultMode"
  /\ seen = [x \in Elements |-> Absent]
  /\ silent = {}

\* The possible outcomes of the write to the persistent backend: TRUE when the
\* write succeeds or is skipped, FALSE when the persistent backend fails.
Persist == IF mode = "CacheOnlyMode" THEN {TRUE} ELSE BOOLEAN

\* The memory changes to newEl; the listeners are told of the elements of
\* told, in the same call, and not of those of untold.
Notify(newEl, told, untold) ==
  /\ el' = newEl
  /\ seen' = [x \in Elements |-> IF x \in told THEN Content(newEl[x]) ELSE seen[x]]
  /\ silent' = (silent \ told) \cup untold

SetOne(x, v, ok) ==
  Notify([el EXCEPT ![x] = v], IF ok THEN {x} ELSE {}, IF ok THEN {} ELSE {x})

\* MemoryBackend.EdgeDeleted: the edges that leave the list of n with E.
MutUnlisted(n, E) == {e \in E : n = Parent(e)}
Unlisted(n, E) == {e \in E : n \in EndsOf(e)}

\* The edges E leave the lists of their ends, the nodes N leave the graph; the
\* listeners are told of each of them but those of U, whose write failed.
MutRemove(E, N, U) ==
  /\ adj' = [n \in NodeIDs |-> IF n \in N THEN {} ELSE adj[n] \ Unlisted(n, E)]
  /\ Notify([x \in Elements |-> IF x \in E \cup N THEN Absent ELSE el[x]],
            (IF N = {} THEN E ELSE N) \ U, U)
  /\ UNCHANGED mode

Remove(E, N, U) ==
  /\ adj' = [n \in NodeIDs |-> IF n \in N THEN {} ELSE adj[n] \ Unlisted(n, E)]
  /\ Notify([x \in Elements |-> IF x \in E \cup N THEN Absent ELSE el[x]], (E \cup N) \ U, U)
  /\ UNCHANGED mode

\* The edges listed under the nodes N, which delNode deletes with them.
MutIncident(N) == {}
Incident(N) == UNION {adj[n] : n \in N}
-----------------------------------------------------------------------------
SetMode(m) == mode' = m /\ UNCHANGED <<el, adj, seen, silent>>

\* CreateNode and CreateEdge.
Created(m) == [rev |-> 1, meta |-> m]

AddNode(n, v, ok) ==
  /\ n \notin nodes                                \* else ErrNodeConflict
  /\ adj' = [adj EXCEPT ![n] = {}]
  /\ SetOne(n, v, ok)
  /\ UNCHANGED mode

AddEdge(e, v, ok) ==
  /\ e \notin edges                                \* else ErrEdgeConflict
  /\ Parent(e) \in nodes                           \* else ErrParentNotFound
  /\ Child(e) \in nodes                            \* else ErrChildNotFound
  /\ adj' = [n \in NodeIDs |-> IF n \in EndsOf(e) THEN adj[n] \cup {e} ELSE adj[n]]
  /\ SetOne(e, v, ok)
  /\ UNCHANGED mode

\* An element created here, and one that arrives from another process.
NewNode(n, m, ok) == AddNode(n, Created(m), ok)
NodeAdded(n, v, ok) == AddNode(n, v, ok)
NewEdge(e, m, ok) == AddEdge(e, Created(m), ok)
EdgeAdded(e, v, ok) == AddEdge(e, v, ok)

\* delEdge and EdgeDeleted
DelEdge(e, ok) ==
  /\ e \in edges                                   \* else ErrEdgeNotFound
  /\ Remove({e}, {}, IF ok THEN {} ELSE {e})

\* Unlink goes on to the next edge when the deletion of one fails.
Unlink(n1, n2, failed) ==
  LET E == {e \in adj[n1] : n2 \in EndsOf(e)}
  IN /\ n1 \in nodes
     /\ E # {}
     /\ failed \subseteq E
     /\ failed # {} => FALSE \in Persist
     /\ Remove(E, {}, failed)

\* delNode deletes the edges of the node, then the node.  It stops at the first
\* edge whose deletion fails, and DelNodes at the first node: the nodes of Done
\* are gone by then, of the edges of n those of D, and f from the memory alone.
DelNodesFailEdge(Done, n, D, f) ==
  /\ f \notin Incident(Done) \cup D
  /\ Remove(Incident(Done) \cup D \cup {f}, Done, {f})

\* The deletion of the edges of n succeeds and that of n itself fails.
DelNodesFailNode(Done, n) == Remove(Incident(Done \cup {n}), Done \cup {n}, {n})

\* DelNodes of the nodes S that match; DelNode and NodeDeleted have one node.
DelNodes(S) ==
  /\ S \subseteq nodes /\ S # {}
  /\ \/ Remove(Incident(S), S, {})
     \/ /\ FALSE \in Persist
        /\ \E Done \in SUBSET S : \E n \in S \ Done :
             \/ \E f \in adj[n], D \in SUBSET adj[n] : DelNodesFailEdge(Done, n, D, f)
             \/ DelNodesFailNode(Done, n)

\* NodeUpdated, of a change made elsewhere: stale revisions are ignored.
MutNodeUpdated(n, v, ok) ==
  /\ n \in nodes
  /\ SetOne(n, v, ok)
  /\ UNCHANGED <<adj, mode>>

NodeUpdated(n, v, ok) ==
  /\ n \in nodes
  /\ el[n].rev < v.rev
  /\ SetOne(n, v, ok)
  /\ UNCHANGED <<adj, mode>>

\* EdgeUpdated takes the metadata of the change and keeps the revision.
EdgeUpdated(e, v, ok) ==
  /\ e \in edges
  /\ el[e].rev < v.rev
  /\ SetOne(e, [el[e] EXCEPT !.meta = v.meta], ok)
  /\ UNCHANGED <<adj, mode>>

\* SetMetadata, AddMetadata, DelMetadata and MetadataTransaction.Commit: a
\* change made here, which is one revision.
SetMetadata(x, m, ok) ==
  /\ x \in nodes \cup edges
  /\ el[x].meta # m
  /\ el[x].rev < MaxRev
  /\ SetOne(x, [rev |-> el[x].rev + 1, meta |-> m], ok)
  /\ UNCHANGED <<adj, mode>>

\* UpdateMetadata of a node: the revision grows even when the mutator reports
\* that it changed nothing (m is then the metadata the node has).
UpdateMetadata(n, m, ok) ==
  /\ n \in nodes
  /\ el[n].rev < MaxRev
  /\ LET v == [rev |-> el[n].rev + 1, meta |-> m]
     IN IF m = el[n].meta
          THEN el' = [el EXCEPT ![n] = v] /\ UNCHANGED <<seen, silent>>
          ELSE SetOne(n, v, ok)
  /\ UNCHANGED <<adj, mode>>
-----------------------------------------------------------------------------
Values == [rev : Revs, meta : Meta]

Next ==
  \/ \E m \in {"DefaultMode", "CacheOnlyMode"} : SetMode(m)
  \/ \E n \in NodeIDs, m \in Meta, ok \in Persist : NewNode(n, m, ok)
  \/ \E n \in NodeIDs, v \in Values, ok \in Persist : NodeAdded(n, v, ok)
  \/ \E e \in EdgeIDs, m \in Meta, ok \in Persist : NewEdge(e, m, ok)
  \/ \E e \in EdgeIDs, v \in Values, ok \in Persist : EdgeAdded(e, v, ok)
  \/ \E e \in EdgeIDs, ok \in Persist : DelEdge(e, ok)
  \/ \E n1, n2 \in NodeIDs, failed \in SUBSET EdgeIDs : Unlink(n1, n2, failed)
  \/ \E S \in SUBSET NodeIDs : DelNodes(S)
  \/ \E n \in NodeIDs, v \in Values, ok \in Persist : NodeUpdated(n, v, ok)
  \/ \E e \in EdgeIDs, v \in Values, ok \in Persist : EdgeUpdated(e, v, ok)
  \/ \E x \in Elements, m \in Meta, ok \in Persist : SetMetadata(x, m, ok)
  \/ \E n \in NodeIDs, m \in Meta, ok \in Persist : UpdateMetadata(n, m, ok)

Spec == Init /\ [][Next]_vars
-----------------------------------------------------------------------------
\* Every variable has its type.
TypeOK ==
  /\ el \in [Elements -> {Absent} \cup Values]
  /\ adj \in [NodeIDs -> SUBSET EdgeIDs]
  /\ mode \in {"DefaultMode", "CacheOnlyMode"}
  /\ seen \in [Elements -> {Absent} \cup Meta]
  /\ silent \subseteq Elements

\* Both ends of every edge are nodes of the graph, whatever writes failed: the
\* panics of GetEdgeNodes are unreachable.
NoDanglingEdge == \A e \in edges : EndsOf(e) \subseteq nodes

\* The edges listed under a node are the edges of the graph that end there:
\* delNode, which walks that list, neither misses an edge nor meets
\* ErrEdgeNotFound, and GetNodeEdges agrees with GetEdges.
AdjacencyConsistent ==
  \A n \in NodeIDs : adj[n] = {e \in edges : n \in EndsOf(e) /\ n \in nodes}

\* What a listener knows of an element is what the graph holds, unless the
\* persistent write of the last change of that very element failed: a failure
\* in the middle of DelNodes never makes a listener miss another element.
ListenersUpToDate == \A x \in Elements \ silent : seen[x] = Content(el[x])

\* A node never changes its metadata without a newer revision, the order by
\* which the receivers of an update tell it from a stale one.
NewerRevision ==
  \A n \in NodeIDs :
    (el[n] # Absent /\ el'[n] # Absent) => el'[n] = el[n] \/ el'[n].rev > el[n].rev

\* NodeUpdated, SetMetadata and UpdateMetadata all respect that order.
NodeRevisionsGrow == [][NewerRevision]_vars
=============================================================================
