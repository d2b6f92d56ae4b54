SPECIFICATION Spec
CONSTANTS
    Hosts = {h1, h2, h3}
    NoHost = NoHost
    MaxEvents = 6
    MaxErrors = 1
    MaxWatch = 1

    
PROPERTY
    TakenOver
CHECK_DEADLOCK FALSE
