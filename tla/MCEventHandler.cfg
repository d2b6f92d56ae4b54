CONSTANTS
  a = a
  b = b
  c = c
  None = None
  Listeners <- MCListeners
  ReactsTo <- MCReactsTo
  MaxBurst = 2
  MaxListeners = 3
  maxEvents = 12
SPECIFICATION Spec
PROPERTIES  CallEnds
