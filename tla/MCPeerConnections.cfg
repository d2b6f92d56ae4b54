SPECIFICATION Spec
CONSTANTS
    Hubs = {"A", "B", "C"}
    Links = {"ab", "ba", "ac"}
    From <- MCFrom
    To <- MCTo
    MaxBreaks = 1
    MaxDials = 2
INVARIANTS
    CountExact
    OneServing
    

    
CHECK_DEADLOCK FALSE
