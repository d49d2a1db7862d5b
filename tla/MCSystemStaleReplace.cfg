\* A replacement that a fill overtakes asks for more than the residual.
SPECIFICATION Spec
CONSTANTS
  OutboundDelays = {1}
  ProcessingDelays = {0}
  ReplyDelays = {1}
  TimeLimit = 14
  Limit = 60
  ClientIds = {1, 2, 3}
  ParentQuantity = 2
  EndTime = 3
  NoChild = NoChild
  Moves = {"Submit", "Replace"}
  Fractions <- HalfOrAll
  Rounding = "Floor"
  StrategyIds = {1, 2}
  maximum_live_children = 1
  maximum_commands_per_decision = 1
  maximum_aggressive_attempts = 1
  MaxTakes = 1
  RoutesFailures = TRUE
  NoOrder = NoOrder
INVARIANT
  LedgerExact
CHECK_DEADLOCK FALSE
