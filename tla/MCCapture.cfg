\* Two connections of one symbol over two days.
SPECIFICATION FairSpec
CONSTANTS
  Prices = {1, 2, 3}
  LastId = 4
  Truth <- FourUpdates
  Feed <- ThreeEvents
  SnapshotIds = {1, 3}
  Symbols = {"BTCUSDT"}
  Deadline = 2
  Planned = 2
  RotateBefore = 1
  DayLength = 1
  MaxReconnects = 1
  MaxMessages = 3
  SegmentLimit = 2
  MaxConnections = 2
  MaxFaults = 1
  NoWriter = NoWriter
  NoTask = NoTask
  PendingTask = PendingTask
  NoManifest = NoManifest
INVARIANTS
  TypeOK
  BooksSound
  SnapshotsAccounted
  VerificationExact
PROPERTY
  RunEnds
CHECK_DEADLOCK FALSE
