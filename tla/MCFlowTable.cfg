SPECIFICATION Spec
CONSTANTS
    Keys = {"tcp", "dns"}
    Kinds = {"packet", "ebpf", "operation"}
    AppTimeout <- MCAppTimeout
    MaxEntries = 1
    ChanSize = 1
    UpdateEvery = 1
    ExpireAfter = 1
    HoldTimeout = 2
    MaxTime = 2
    MaxPackets = 3
CHECK_DEADLOCK FALSE
INVARIANTS  NothingLost StopFlushes
PROPERTIES QueryAnswered StopReturns
