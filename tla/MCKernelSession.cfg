\* Three calls in any order and at any time, with ranged latencies.  Market events
\* bring identifiers and sequences that use up the kernel's own.
SPECIFICATION Spec
CONSTANTS
  OutboundDelays = {0, 1}
  ProcessingDelays = {0, 1}
  ReplyDelays = {0, 1}
  TimeLimit = 3
  Limit = 8
  MarketIds = {1, 8}
  MarketSequences = {1, 8}
  MaxCalls = 3
  MaxReplies = 2
INVARIANTS
  QueueSound
  DeliveryOrdered
CHECK_DEADLOCK FALSE
