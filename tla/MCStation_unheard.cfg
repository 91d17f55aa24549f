SPECIFICATION Spec
CONSTANTS
  MaxTracks = 1
  HistMax = 1
  Clients = {c1}
  MaxBulk = 1
  ClientsMayDisconnect = FALSE
  c1 = c1
INVARIANTS
  HistoryListsOnlyHeard
