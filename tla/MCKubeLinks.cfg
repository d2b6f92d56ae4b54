CONSTANTS
    None = None
    Services = {s}
    Pods = {p}
    Conts = {c1, c2}
    Dockers = {d}
    Values = {v1, v2}
    MaxUid = 2
    MaxOps = 4
    MaxResyncs = 1
    MaxFaults = 1
SPECIFICATION Spec
INVARIANTS MirrorsCluster ServicesLinked IndexedLinked NothingMissing IndexedInGraph
CHECK_DEADLOCK FALSE
SYMMETRY Symmetry
