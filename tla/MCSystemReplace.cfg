\* Fixed latencies, submits and replacements, under the fair loop: a replacement
\* may be stale by the time it reaches the exchange, and its failure has no event.
SPECIFICATION FairSpec
CONSTANTS
  OutboundDelays = {1}
  ProcessingDelays = {0}
  ReplyDelays = {1}
  TimeLimit = 14
  Limit = 60
  ClientIds = {1, 2, 3}
  ParentQuantity = 3
  EndTime = 3
  NoChild = NoChild
  Moves = {"Submit", "Replace"}
  Fractions <- HalfOrAll
  Rounding = "Floor"
  StrategyIds = {1, 2}
  maximum_live_children = 1
  maximum_commands_per_decision = 1
  maximum_aggressive_attempts = 1
  MaxTakes = 1
  RoutesFailures = TRUE
  NoOrder = NoOrder
INVARIANTS
  NoForgottenOrder
  ExactUnlessOverfill
PROPERTIES
  PendingResolves
  TerminalCompletes
CHECK_DEADLOCK FALSE
