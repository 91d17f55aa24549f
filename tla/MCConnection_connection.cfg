SPECIFICATION LiveConnSpec
CONSTANTS
  InitialBackoff = 1
  MaxBackoff = 3
  Limit = 4
  ReadMax = 2
  Never <- MCNever
  Answers <- MCAnswers
INVARIANTS
  TypeOK
  OneSocket
  ConnectedMeansStream
  WriteHoldsStream
  NothingTakenInOutage
  BackoffDoubles
  AttemptBounded
  SegmentationHarmless
  VerdictEarned
PROPERTIES
  ShutdownEnds
  BroadcastResumes
  ImplementsSender
CHECK_DEADLOCK FALSE
