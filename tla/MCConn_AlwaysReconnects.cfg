SPECIFICATION Spec
CONSTANTS
  QueueSize = 1
  MaxOut = 2
  MaxIn = 1
  MaxBreaks = 1
  MaxErrors = 1
PROPERTY AlwaysReconnects
CHECK_DEADLOCK FALSE
