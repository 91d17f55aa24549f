SPECIFICATION LivePipeSpec
CONSTANTS
  MaxTracks = 1
  HistMax = 1
  InitialBackoff = 1
  MaxBackoff = 1
  InCap = 1
  OutCap = 1
INVARIANTS
  OutageCostsNoTrack
PROPERTIES
  StatusCountsOnce
  SkipOutlastsOutage
  ShutdownUnwinds
CHECK_DEADLOCK FALSE
