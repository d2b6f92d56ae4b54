SPECIFICATION Spec
CONSTANTS
    Hubs = {"A", "B"}
    NoHub = NoHub
    Pod = "pod"
    Nodes = {"p", "q", "a"}
    Edges = {"pq"}
    Ends <- MCEnds
    Origin <- MCOrigin
    Vals = {1, 2}
    Absent = Absent
    MaxOps = 4
    Deployments <- MCDeployments
INVARIANTS
    MasterInSync
    NodesAgree
    

    
CHECK_DEADLOCK FALSE
