SPECIFICATION Spec
CONSTANTS
  QueueSize = 1
  MaxOut = 2
  MaxIn = 1
  MaxBreaks = 2
  MaxErrors = 1
INVARIANTS ReplyReachesRequest
PROPERTIES StopReturns Reconnects 
CHECK_DEADLOCK FALSE
