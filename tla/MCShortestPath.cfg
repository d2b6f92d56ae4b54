CONSTANTS
  Nodes = {n1, n2, n3, n4}
  Width = 3
SPECIFICATION Spec
INVARIANTS ShortestPathFound
PROPERTIES Terminates
CHECK_DEADLOCK FALSE
