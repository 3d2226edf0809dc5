SPECIFICATION Spec
CONSTANTS
  Connections = {k1, k2}
  Methods <- MCMethods
  MaxCommandCalls = 2
  MaxIncoming = 1
CHECK_DEADLOCK FALSE
INVARIANTS
  ServerStopInv
  AllOrNothing
PROPERTIES
  CallsReturn
  StopEnds
