SPECIFICATION LiveSpec
CONSTANTS
  MaxTracks = 2
  HistMax = 1
  Clients = {c1}
  MaxBulk = 1
  ClientsMayDisconnect = TRUE
  c1 = c1
PROPERTIES
  ShutdownStopsPlayer
  SkipTakesEffect
  QueueAdvances
