\* Three orders of every kind on a two-price book.  A level holds at most
\* three lots and two orders, so both of its capacities are reached.
SPECIFICATION Spec
CONSTANTS
  ClientIds = {c1, c2, c3}
  Prices = {1, 2}
  CommandQuantities = {0, 1, 2, 3}
  MinQuantity = 1
  MaxQuantity = 2
  QuantityLimit = 3
  IdLimit = 6
  LevelOrderLimit = 2
  Features = {"Market", "IOC", "FOK", "PostOnly"}
  Submits <- TermSubmits
  NoOrder = NoOrder
SYMMETRY ClientSymmetry
INVARIANTS
  TypeOK
  AggregateQuantity
  QuantityConserved
  TermsKept
PROPERTY
  MatchingProgresses
CHECK_DEADLOCK FALSE
