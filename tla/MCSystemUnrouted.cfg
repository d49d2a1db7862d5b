\* A loop that applies delivered events only, as the demo's does.
SPECIFICATION FairSpec
CONSTANTS
  OutboundDelays = {1}
  ProcessingDelays = {0}
  ReplyDelays = {1}
  TimeLimit = 14
  Limit = 60
  ClientIds = {1, 2, 3}
  ParentQuantity = 2
  EndTime = 3
  NoChild = NoChild
  Moves = {"Submit", "Cancel"}
  Fractions <- HalfOrAll
  Rounding = "Floor"
  StrategyIds = {1, 2}
  maximum_live_children = 1
  maximum_commands_per_decision = 1
  maximum_aggressive_attempts = 1
  MaxTakes = 1
  RoutesFailures = FALSE
  NoOrder = NoOrder
PROPERTY
  PendingResolves
CHECK_DEADLOCK FALSE
