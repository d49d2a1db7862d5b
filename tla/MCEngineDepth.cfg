\* More plain limit orders than identifiers: queues of several makers, sweeps over both
\* prices, cancels and replaces in the middle of a queue, until every counter
\* runs out.
SPECIFICATION Spec
CONSTANTS
  ClientIds = {c1, c2, c3, c4, c5}
  Prices = {1, 2}
  CommandQuantities = {1, 2}
  MinQuantity = 1
  MaxQuantity = 2
  QuantityLimit = 3
  IdLimit = 4
  LevelOrderLimit = 3
  Features = {"Market", "IOC", "FOK", "PostOnly"}
  Submits <- LimitSubmits
  NoOrder = NoOrder
SYMMETRY ClientSymmetry
INVARIANTS
  BookConsistent
  AllocationNeverThrows
PROPERTIES
  HistoryFinal
  ImplementsMarket
CHECK_DEADLOCK FALSE
