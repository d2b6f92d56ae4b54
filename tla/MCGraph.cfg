CONSTANTS
  n1 = n1
  n2 = n2
  e1 = e1
  e2 = e2
  NodeIDs <- MCNodeIDs
  EdgeIDs <- MCEdgeIDs
  Ends <- MCEnds
  Meta = {m1, m2}
  Absent = Absent
  MaxRev = 2
SPECIFICATION Spec
INVARIANTS NoDanglingEdge AdjacencyConsistent ListenersUpToDate
PROPERTIES NodeRevisionsGrow
