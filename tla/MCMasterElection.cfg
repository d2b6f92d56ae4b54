SPECIFICATION Spec
CONSTANTS
    Clients = {c1, c2, c3}
    NoMaster = NoMaster
    MaxDrops = 2
INVARIANTS
    NoDeadMaster
    ElectionNotLost
    SettledSynced

    
CHECK_DEADLOCK FALSE
