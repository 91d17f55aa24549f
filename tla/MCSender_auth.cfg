SPECIFICATION Spec
CONSTANTS
  InitialBackoff = 1
  MaxBackoff = 60
INVARIANTS
  AuthFailureStops
CHECK_DEADLOCK FALSE
