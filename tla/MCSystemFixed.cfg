\* Fixed latencies, submits and cancels: a parent of three lots, halves rounded
\* to the nearest lot, one command of another participant.
SPECIFICATION Spec
CONSTANTS
  OutboundDelays = {1}
  ProcessingDelays = {0}
  ReplyDelays = {1}
  TimeLimit = 20
  Limit = 60
  ClientIds = {1, 2, 3}
  ParentQuantity = 3
  EndTime = 4
  NoChild = NoChild
  Moves = {"Submit", "Cancel"}
  Fractions <- HalfOrAll
  Rounding = "Nearest"
  StrategyIds = {1, 2}
  maximum_live_children = 1
  maximum_commands_per_decision = 1
  maximum_aggressive_attempts = 1
  MaxTakes = 1
  RoutesFailures = TRUE
  NoOrder = NoOrder
INVARIANTS
  LedgerExact
  ChildrenTracked
  ParentRespected
CHECK_DEADLOCK FALSE
