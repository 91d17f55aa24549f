SPECIFICATION Spec
CONSTANTS
  InitialBackoff = 1
  MaxBackoff = 60
INVARIANTS
  DisconnectReachesServer
CHECK_DEADLOCK FALSE
