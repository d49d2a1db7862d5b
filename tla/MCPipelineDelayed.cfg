\* Captures of two connections over two days, without a processing delay.
SPECIFICATION Spec
CONSTANTS
  Prices = {1, 2, 3}
  LastId = 5
  Truth <- FiveUpdates
  Feed <- ThreeEvents
  DayLength = 2
  BoundaryTolerance = 1
  MinimumDepth = 1
  MinimumTrades = 1
  MaximumDelta = 1
  Increment = 2
  Delay = 1
  RecentTrades = 1
  RequireExact = FALSE
  TradeIds = {1}
  SnapshotIds = {2, 3}
  Outcomes <- LiveAndFixture
  MaxConnections = 2
  MaxRecords = 3
  MaxClock = 2
  MaxAnomalies = 1
  NoResult = NoResult
INVARIANT ObservationsFaithful
CHECK_DEADLOCK FALSE
