SPECIFICATION Spec
CONSTANTS
  Nodes = {n1}
  Captures = {c1}
  None = None
  MaxProbes = 2
  MaxTasks = 1
  MaxFaults = 1
  MaxDrops = 1
  MaxFlight = 1
INVARIANTS AllStarted  ListedIsRunning UnregisteredEnds
CHECK_DEADLOCK FALSE
