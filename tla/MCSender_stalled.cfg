SPECIFICATION LiveSpec
CONSTANTS
  InitialBackoff = 1
  MaxBackoff = 60
PROPERTIES
  ShutdownNeedsNoPeer
CHECK_DEADLOCK FALSE
