---------------------------- MODULE GraphProofs ----------------------------
(***************************************************************************)
(* Proofs about the graph and its backends, for every set of identifiers,  *)
(* every shape of the edges and every pattern of persistent failures.  The *)
(* conjuncts of IInv are not inductive one by one: that no edge dangles    *)
(* needs the lists delNode walks to be complete, and those need the edges  *)
(* to have their ends in the graph.                                        *)
(***************************************************************************)
EXTENDS Graph, TLAPS

IInv == TypeOK /\ NoDanglingEdge /\ AdjacencyConsistent /\ ListenersUpToDate

\* A change of one element, notified or not, keeps the types and the view of
\* the listeners (SetOne: the tail of every operation on one element).
LEMMA SetOneStep ==
  ASSUME TypeOK, ListenersUpToDate,
         NEW x \in Elements, NEW v \in {Absent} \cup Values, NEW ok \in BOOLEAN,
         SetOne(x, v, ok)
  PROVE  /\ el' = [el EXCEPT ![x] = v]
         /\ el' \in [Elements -> {Absent} \cup Values]
         /\ seen' \in [Elements -> {Absent} \cup Meta]
         /\ silent' \subseteq Elements
         /\ ListenersUpToDate'
<1>1. Content(v) \in {Absent} \cup Meta
  BY DEF Content, Values
<1>2. el' = [el EXCEPT ![x] = v] /\ el'[x] = v /\ \A y \in Elements \ {x} : el'[y] = el[y]
  BY DEF SetOne, Notify, TypeOK
<1>3. CASE ok
  <2>1. /\ seen' = [y \in Elements |-> IF y \in {x} THEN Content(el'[y]) ELSE seen[y]]
        /\ silent' = (silent \ {x}) \cup {}
    BY <1>2, <1>3 DEF SetOne, Notify
  <2> QED
    BY <1>1, <1>2, <2>1 DEF TypeOK, ListenersUpToDate, Content
<1>4. CASE ~ok
  <2>1. /\ seen' = [y \in Elements |-> seen[y]]
        /\ silent' = silent \cup {x}
    BY <1>2, <1>4 DEF SetOne, Notify
  <2> QED
    BY <1>1, <1>2, <2>1 DEF TypeOK, ListenersUpToDate, Content
<1> QED
  BY <1>3, <1>4

\* Taking edges E and nodes N out of the graph keeps the invariant as soon as
\* E has every edge listed under a node of N: what delNode establishes before
\* it deletes the node, and never needs when it stops at an edge.
LEMMA RemoveStep ==
  ASSUME IInv, NEW E \in SUBSET EdgeIDs, NEW N \in SUBSET NodeIDs, NEW U \in SUBSET (E \cup N),
         Incident(N) \subseteq E, Remove(E, N, U)
  PROVE  IInv'
<1> USE EndsAssumption, IDsAssumption DEF Elements
<1>1. /\ el' = [x \in Elements |-> IF x \in E \cup N THEN Absent ELSE el[x]]
      /\ seen' = [x \in Elements |-> IF x \in (E \cup N) \ U THEN Content(el'[x]) ELSE seen[x]]
      /\ silent' = (silent \ ((E \cup N) \ U)) \cup U
      /\ adj' = [n \in NodeIDs |-> IF n \in N THEN {} ELSE adj[n] \ {e \in E : n \in EndsOf(e)}]
      /\ mode' = mode
  BY DEF Remove, Notify, Unlisted
<1>2. nodes' = nodes \ N /\ edges' = edges \ E
  BY <1>1 DEF nodes, edges, Live
<1>3. \A e \in EdgeIDs : EndsOf(e) \subseteq NodeIDs
  BY DEF EndsOf, Parent, Child
<1>4. TypeOK'
  BY <1>1 DEF IInv, TypeOK, Content
<1>5. \A e \in edges, n \in N : n \in EndsOf(e) => e \in E
  BY DEF IInv, NoDanglingEdge, AdjacencyConsistent, Incident, edges, Live
<1>6. NoDanglingEdge'
  BY <1>2, <1>5 DEF IInv, NoDanglingEdge, edges, Live, EndsOf, Parent, Child
<1>7. AdjacencyConsistent'
  <2> SUFFICES ASSUME NEW n \in NodeIDs
               PROVE  adj'[n] = {e \in edges' : n \in EndsOf(e) /\ n \in nodes'}
    BY DEF AdjacencyConsistent, EndsOf, Parent, Child
  <2>1. adj[n] = {e \in edges : n \in EndsOf(e) /\ n \in nodes}
    BY DEF IInv, AdjacencyConsistent
  <2> QED
    BY <1>1, <1>2, <2>1
<1>8. ListenersUpToDate'
  BY <1>1 DEF IInv, TypeOK, ListenersUpToDate, Content
<1> QED
  BY <1>4, <1>6, <1>7, <1>8 DEF IInv

\* An update of the metadata of a live element leaves the shape of the graph.
LEMMA UpdateStep ==
  ASSUME IInv, NEW x \in Elements, NEW v \in Values, NEW ok \in BOOLEAN,
         el[x] # Absent, SetOne(x, v, ok), UNCHANGED <<adj, mode>>
  PROVE  IInv'
<1>1. v # Absent
  BY AbsentAssumption, MaxRevAssumption DEF Values, Revs
<1>2. /\ el' = [el EXCEPT ![x] = v]
      /\ TypeOK'
      /\ ListenersUpToDate'
  BY SetOneStep DEF IInv, TypeOK
<1>3. nodes' = nodes /\ edges' = edges
  BY <1>1, <1>2 DEF nodes, edges, Live, IInv, TypeOK, Elements
<1>4. NoDanglingEdge' /\ AdjacencyConsistent'
  BY <1>3 DEF IInv, NoDanglingEdge, AdjacencyConsistent, EndsOf, Parent, Child
<1> QED
  BY <1>2, <1>4 DEF IInv

\* Every operation of the graph, whatever persistent writes fail, keeps the
\* graph well formed and the listeners up to date.
THEOREM Invariance == Spec => []IInv
<1> USE IDsAssumption, EndsAssumption DEF Elements
<1>1. Init => IInv
  BY DEF Init, IInv, TypeOK, NoDanglingEdge, AdjacencyConsistent, ListenersUpToDate,
         nodes, edges, Live, Content
<1>2. IInv /\ [Next]_vars => IInv'
  <2> SUFFICES ASSUME IInv, [Next]_vars PROVE IInv'
    OBVIOUS
  <2>1. Persist \subseteq BOOLEAN
    BY ZenonT(30) DEF Persist
  <2>2. ASSUME NEW m \in {"DefaultMode", "CacheOnlyMode"}, SetMode(m) PROVE IInv'
    BY <2>2 DEF SetMode, IInv, TypeOK, NoDanglingEdge, AdjacencyConsistent,
                ListenersUpToDate, nodes, edges, Live, EndsOf, Parent, Child, Content
  <2>3. ASSUME NEW n \in NodeIDs, NEW v \in Values, NEW ok \in Persist, AddNode(n, v, ok) PROVE IInv'
    <3>1. v # Absent
      BY AbsentAssumption, MaxRevAssumption DEF Values, Revs
    <3>2. el' = [el EXCEPT ![n] = v] /\ TypeOK' /\ ListenersUpToDate'
      BY <2>1, <2>3, SetOneStep DEF AddNode, IInv, TypeOK
    <3>3. nodes' = nodes \cup {n} /\ edges' = edges
      BY <3>1, <3>2 DEF nodes, edges, Live, IInv, TypeOK
    <3>4. NoDanglingEdge'
      BY <3>3 DEF IInv, NoDanglingEdge, EndsOf, Parent, Child
    <3>5. AdjacencyConsistent'
      BY <2>3, <3>3 DEF IInv, TypeOK, NoDanglingEdge, AdjacencyConsistent, AddNode, EndsOf, Parent, Child
    <3> QED
      BY <3>2, <3>4, <3>5 DEF IInv
  <2>4. ASSUME NEW e \in EdgeIDs, NEW v \in Values, NEW ok \in Persist, AddEdge(e, v, ok) PROVE IInv'
    <3>1. v # Absent
      BY AbsentAssumption, MaxRevAssumption DEF Values, Revs
    <3>2. el' = [el EXCEPT ![e] = v] /\ TypeOK' /\ ListenersUpToDate'
      BY <2>1, <2>4, SetOneStep DEF AddEdge, IInv, TypeOK
    <3>3. nodes' = nodes /\ edges' = edges \cup {e}
      BY <3>1, <3>2 DEF nodes, edges, Live, IInv, TypeOK
    <3>4. NoDanglingEdge'
      BY <2>4, <3>3 DEF AddEdge, IInv, NoDanglingEdge, EndsOf, Parent, Child
    <3>5. AdjacencyConsistent'
      BY <2>4, <3>3 DEF IInv, TypeOK, AdjacencyConsistent, AddEdge, EndsOf, Parent, Child
    <3> QED
      BY <3>2, <3>4, <3>5 DEF IInv
  <2>5. ASSUME NEW e \in EdgeIDs, NEW ok \in Persist, DelEdge(e, ok) PROVE IInv'
    <3>1. Incident({}) \subseteq {e} /\ (IF ok THEN {} ELSE {e}) \subseteq {e} \cup {}
      BY DEF Incident
    <3> QED
      BY <2>5, <3>1, RemoveStep DEF DelEdge
  <2>6. ASSUME NEW n1 \in NodeIDs, NEW n2 \in NodeIDs, NEW failed \in SUBSET EdgeIDs,
               Unlink(n1, n2, failed)
        PROVE  IInv'
    <3> DEFINE E == {e \in adj[n1] : n2 \in EndsOf(e)}
    <3>1. E \subseteq EdgeIDs /\ failed \subseteq E \cup {} /\ Incident({}) \subseteq E
      BY <2>6 DEF Unlink, Incident, IInv, TypeOK
    <3> QED
      BY <2>6, <3>1, RemoveStep DEF Unlink
  <2>7. ASSUME NEW S \in SUBSET NodeIDs, DelNodes(S) PROVE IInv'
    <3>1. \A N \in SUBSET NodeIDs : Incident(N) \subseteq EdgeIDs
      BY DEF Incident, IInv, TypeOK
    <3>2. CASE Remove(Incident(S), S, {})
      BY <3>1, <3>2, RemoveStep
    <3>3. ASSUME NEW Done \in SUBSET S, NEW n \in S, NEW f \in adj[n], NEW D \in SUBSET adj[n],
                 DelNodesFailEdge(Done, n, D, f)
          PROVE  IInv'
      <4> DEFINE E == Incident(Done) \cup D \cup {f}
      <4>1. E \subseteq EdgeIDs /\ {f} \subseteq E \cup Done /\ Incident(Done) \subseteq E
        BY <3>1 DEF IInv, TypeOK
      <4> QED
        BY <3>3, <4>1, RemoveStep DEF DelNodesFailEdge
    <3>4. ASSUME NEW Done \in SUBSET S, NEW n \in S, DelNodesFailNode(Done, n) PROVE IInv'
      BY <3>1, <3>4, RemoveStep DEF DelNodesFailNode
    <3> QED
      BY <2>7, <3>2, <3>3, <3>4, ZenonT(30) DEF DelNodes
  <2>8. ASSUME NEW n \in NodeIDs, NEW v \in Values, NEW ok \in Persist, NodeUpdated(n, v, ok) PROVE IInv'
    BY <2>1, <2>8, UpdateStep DEF NodeUpdated, nodes, Live
  <2>9. ASSUME NEW e \in EdgeIDs, NEW v \in Values, NEW ok \in Persist, EdgeUpdated(e, v, ok) PROVE IInv'
    <3>1. el[e] # Absent /\ [el[e] EXCEPT !.meta = v.meta] \in Values
      BY <2>9 DEF EdgeUpdated, edges, Live, IInv, TypeOK, Values
    <3> QED
      BY <2>1, <2>9, <3>1, UpdateStep DEF EdgeUpdated
  <2>10. ASSUME NEW x \in Elements, NEW m \in Meta, NEW ok \in Persist, SetMetadata(x, m, ok) PROVE IInv'
    <3>1. el[x] # Absent /\ [rev |-> el[x].rev + 1, meta |-> m] \in Values
      BY <2>10, MaxRevAssumption DEF SetMetadata, nodes, edges, Live, IInv, TypeOK, Values, Revs
    <3> QED
      BY <2>1, <2>10, <3>1, UpdateStep DEF SetMetadata
  <2>11. ASSUME NEW n \in NodeIDs, NEW m \in Meta, NEW ok \in Persist, UpdateMetadata(n, m, ok) PROVE IInv'
    <3> DEFINE v == [rev |-> el[n].rev + 1, meta |-> m]
    <3>1. el[n] # Absent /\ v \in Values /\ v.meta = m
      BY <2>11, MaxRevAssumption DEF UpdateMetadata, nodes, Live, IInv, TypeOK, Values, Revs
    <3>2. CASE m # el[n].meta
      BY <2>1, <2>11, <3>1, <3>2, UpdateStep DEF UpdateMetadata
    <3>3. CASE m = el[n].meta
      <4>1. /\ el' = [el EXCEPT ![n] = v]
            /\ UNCHANGED <<adj, mode, seen, silent>>
        BY <2>11, <3>3 DEF UpdateMetadata
      <4>2. v # Absent
        BY <3>1, AbsentAssumption, MaxRevAssumption DEF Values, Revs
      <4>3. nodes' = nodes /\ edges' = edges
        BY <3>1, <4>1, <4>2 DEF nodes, edges, Live, IInv, TypeOK
      <4>4. TypeOK'
        BY <3>1, <4>1 DEF IInv, TypeOK
      <4>5. \A x \in Elements : Content(el'[x]) = Content(el[x])
        BY <3>1, <3>3, <4>1, <4>2 DEF Content, IInv, TypeOK
      <4>6. ListenersUpToDate'
        BY <4>1, <4>5 DEF IInv, ListenersUpToDate, Content
      <4> QED
        BY <4>1, <4>3, <4>4, <4>6 DEF IInv, NoDanglingEdge, AdjacencyConsistent, EndsOf, Parent, Child
    <3> QED
      BY <3>2, <3>3
  <2>12. CASE UNCHANGED vars
    BY <2>12 DEF vars, IInv, TypeOK, NoDanglingEdge, AdjacencyConsistent, ListenersUpToDate,
                 nodes, edges, Live, EndsOf, Parent, Child, Content
  <2> QED
    <3>1. \A m \in Meta : Created(m) \in Values
      BY MaxRevAssumption DEF Created, Values, Revs
    <3> QED
      BY <3>1, <2>2, <2>3, <2>4, <2>5, <2>6, <2>7, <2>8, <2>9, <2>10, <2>11, <2>12
         DEF Next, NewNode, NodeAdded, NewEdge, EdgeAdded
<1> QED
  BY <1>1, <1>2, PTL DEF Spec

\* Every update of a node that reaches the listeners carries a newer revision.
THEOREM Revisions == Spec => NodeRevisionsGrow
<1>1. IInv /\ [Next]_vars => [NewerRevision]_vars
  <2> SUFFICES ASSUME IInv, [Next]_vars PROVE [NewerRevision]_vars
    OBVIOUS
  <2> USE DEF IInv, TypeOK, NewerRevision, Elements, Values, Revs
  <2>1. ASSUME NEW n \in NodeIDs, NEW v \in Values, NEW ok \in Persist, NodeUpdated(n, v, ok)
        PROVE  NewerRevision
    BY <2>1 DEF NodeUpdated, SetOne, Notify
  <2>2. ASSUME NEW x \in Elements, NEW m \in Meta, NEW ok \in Persist, SetMetadata(x, m, ok)
        PROVE  NewerRevision
    <3>1. el[x] \in Values /\ el' = [el EXCEPT ![x] = [rev |-> el[x].rev + 1, meta |-> m]]
      BY <2>2 DEF SetMetadata, SetOne, Notify, nodes, edges, Live
    <3> QED
      BY <3>1, MaxRevAssumption
  <2>3. ASSUME NEW n \in NodeIDs, NEW m \in Meta, NEW ok \in Persist, UpdateMetadata(n, m, ok)
        PROVE  NewerRevision
    <3>1. el[n] \in Values /\ el' = [el EXCEPT ![n] = [rev |-> el[n].rev + 1, meta |-> m]]
      BY <2>3 DEF UpdateMetadata, SetOne, Notify, nodes, Live
    <3> QED
      BY <3>1, MaxRevAssumption
  <2>4. ASSUME NEW n \in NodeIDs, NEW v, NEW ok, AddNode(n, v, ok) PROVE NewerRevision
    BY <2>4 DEF AddNode, SetOne, Notify, nodes, Live
  <2>5. ASSUME NEW e \in EdgeIDs, NEW v, NEW ok, AddEdge(e, v, ok) \/ EdgeUpdated(e, v, ok)
        PROVE  NewerRevision
    BY <2>5, IDsAssumption DEF AddEdge, EdgeUpdated, SetOne, Notify
  <2>6. ASSUME NEW E, NEW N, NEW U, Remove(E, N, U) PROVE NewerRevision
    BY <2>6 DEF Remove, Notify
  <2>7. ASSUME NEW S \in SUBSET NodeIDs, DelNodes(S) PROVE NewerRevision
    BY <2>6, <2>7, ZenonT(30) DEF DelNodes, DelNodesFailEdge, DelNodesFailNode
  <2>8. CASE UNCHANGED el
    BY <2>8
  <2> QED
    BY <2>1, <2>2, <2>3, <2>4, <2>5, <2>6, <2>7, <2>8, ZenonT(30)
       DEF Next, vars, SetMode, NewNode, NodeAdded, NewEdge, EdgeAdded, DelEdge, Unlink
<1> QED
  BY <1>1, Invariance, PTL DEF Spec, NodeRevisionsGrow

\* The panics of GetEdgeNodes are unreachable.
THEOREM NoDangling == Spec => []NoDanglingEdge
BY Invariance, PTL DEF IInv

\* The per-node lists and the edge map of the MemoryBackend agree.
THEOREM Adjacency == Spec => []AdjacencyConsistent
BY Invariance, PTL DEF IInv

\* A failed persistent write hides its own element from the listeners and no
\* other one.
THEOREM Listeners == Spec => []ListenersUpToDate
BY Invariance, PTL DEF IInv
\* Every operation keeps the types of the state (graph.go, memory.go and cachedbackend.go).
THEOREM TypeCorrect == Spec => []TypeOK
BY Invariance, PTL DEF IInv
=============================================================================
