SPECIFICATION Spec
CONSTANTS
  MaxTracks = 2
  HistMax = 1
  Clients = {c1, c2}
  MaxBulk = 2
  ClientsMayDisconnect = FALSE
  c1 = c1
  c2 = c2
SYMMETRY ClientSymmetry
INVARIANTS
  TypeOK
  NoTrackTwice
  GaugeSettled
  AnnouncedCovers
  EventsPaired
  RecordsAgree
  SkippedOnRequest
PROPERTIES
  NoTrackLost
  ImplementsPlaylist
