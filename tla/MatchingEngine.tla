--------------------------- MODULE MatchingEngine ---------------------------
(***************************************************************************)
(* The price-time-priority matching engine of cpp/src/exchange.            *)
(*                                                                         *)
(* A command (submit, cancel, replace) runs alone: the engine is a plain   *)
(* single-threaded object.  Submit and replace contain the matching loop,  *)
(* so such a command is a run of steps here: it is accepted (incoming      *)
(* holds the function's local order), MatchOne is one iteration of the     *)
(* loop of match_level, and one of the Finish actions ends it.  No command *)
(* is accepted while incoming is set, so no caller sees the states between.*)
(*                                                                         *)
(* A command that fails changes nothing, so it is a stuttering step; the   *)
(* Outcome operators give the code it returns.                             *)
(*                                                                         *)
(* A definition whose name ends in _bug is a plausible slip in the one     *)
(* that follows it; no specification uses it.                              *)
(*                                                                         *)
(* Abstracted: parent and decision identifiers, timestamps (a command that *)
(* carries invalid ones has wellFormed = FALSE) and message texts.         *)
(***************************************************************************)
EXTENDS Integers, Sequences, FiniteSets, SequencesExt

CONSTANTS
  ClientIds,          \* client order identifiers that callers may use
  Prices,             \* the positive limit prices, in ticks
  CommandQuantities,  \* quantities, in lots, that a command may carry
  MinQuantity,        \* instrument.minimum_order_quantity
  MaxQuantity,        \* instrument.maximum_order_quantity
  QuantityLimit,      \* the largest QuantityLots (2^64 - 1 in the code)
  IdLimit,            \* the largest identifier of a counter (2^64 - 1)
  LevelOrderLimit,    \* the most orders a price level may hold (2^32 - 1)
  Features,           \* what the venue configuration allows
  Submits,            \* the submit commands that callers may send
  NoOrder             \* the absent order

NoPrice == 0
NoId    == 0
Ids     == 1..IdLimit
Sides   == {"Buy", "Sell"}
Types   == {"Limit", "Market"}
TimesInForce == {"GTC", "IOC", "FOK"}
RestingStates  == {"Live", "PartiallyFilled"}
TerminalStates == {"Filled", "Cancelled", "Replaced"}

OrderView ==
  [id : Ids, client : ClientIds, side : Sides, type : Types,
   tif : TimesInForce, quantity : 1..QuantityLimit,
   cum : 0..QuantityLimit, leaves : 0..QuantityLimit,
   price : Prices \cup {NoPrice}, postOnly : BOOLEAN,
   state : RestingStates \cup TerminalStates, priority : Ids]

SubmitCommand ==
  [client : ClientIds, side : Sides, type : Types, tif : TimesInForce,
   quantity : CommandQuantities, price : Prices \cup {NoPrice},
   postOnly : BOOLEAN, wellFormed : BOOLEAN]

\* What the market of PriceTimeMarket sees of the order that is trading.
AggressorView ==
  [id : Ids, side : Sides, price : Prices \cup {NoPrice},
   leaves : 0..QuantityLimit, mayRest : BOOLEAN]

ReplaceCommand ==
  [client : ClientIds, id : Ids, newClient : ClientIds,
   quantity : CommandQuantities, price : Prices \cup {NoPrice},
   wellFormed : BOOLEAN]

ASSUME EngineAssumption ==
  /\ Prices \subseteq Nat \ {0}
  /\ QuantityLimit \in Nat \ {0}
  /\ CommandQuantities \subseteq 0..QuantityLimit
  /\ MinQuantity \in 1..QuantityLimit
  /\ MaxQuantity \in MinQuantity..QuantityLimit
  /\ IdLimit \in Nat \ {0}
  /\ LevelOrderLimit \in Nat \ {0}
  /\ Features \subseteq {"Market", "IOC", "FOK", "PostOnly"}
  /\ Submits \subseteq SubmitCommand
  /\ NoOrder \notin OrderView \cup AggressorView

VARIABLES
  levels,              \* prices at which bids_ / asks_ hold a level
  queue,               \* FIFO list of exchange order ids of each level
  total,               \* total_quantity of each level
  active_by_exchange,  \* the resting node each locator points to
  active_by_client,    \* exchange id of each active client id, or NoId
  exchange_by_client,  \* exchange id of each accepted client id, or NoId
  orders_by_exchange,  \* history record of each exchange id, or NoOrder
  all_client_ids,      \* client ids ever accepted
  next_exchange_order_id, next_priority_sequence,
  next_match_sequence, next_execution_id,
  incoming             \* the order being matched, or NoOrder

book     == <<levels, queue, total>>
indices  == <<active_by_exchange, active_by_client, exchange_by_client,
              orders_by_exchange, all_client_ids>>
orderIds == <<next_exchange_order_id, next_priority_sequence>>
matchIds == <<next_match_sequence, next_execution_id>>
vars     == <<levels, queue, total, active_by_exchange, active_by_client,
              exchange_by_client, orders_by_exchange, all_client_ids,
              next_exchange_order_id, next_priority_sequence,
              next_match_sequence, next_execution_id, incoming>>

-----------------------------------------------------------------------------
(***************************************************************************)
(* Helpers of the book.                                                    *)
(***************************************************************************)

Opposite(side) == IF side = "Buy" THEN "Sell" ELSE "Buy"

IsBest_bug(side, p) ==
  /\ p \in levels[side]
  /\ \A q \in levels[side] : q <= p

\* The first level of a side in matching order: begin() of its ordered map.
IsBest(side, p) ==
  /\ p \in levels[side]
  /\ \A q \in levels[side] : IF side = "Buy" THEN q <= p ELSE p <= q

\* A taker with this limit may trade at price p.
Eligible(side, limit, p) ==
  \/ limit = NoPrice
  \/ side = "Buy" /\ p <= limit
  \/ side = "Sell" /\ p >= limit

EligibleLevels(side, limit) ==
  {p \in levels[Opposite(side)] : Eligible(side, limit, p)}

would_cross(side, limit) == EligibleLevels(side, limit) # {}

can_fully_execute_bug(side, quantity, limit) ==
  SumFunctionOnSet(total[Opposite(side)], levels[Opposite(side)]) >= quantity

\* The displayed quantity at the prices the taker accepts is enough.
can_fully_execute(side, quantity, limit) ==
  SumFunctionOnSet(total[Opposite(side)], EligibleLevels(side, limit)) >= quantity

can_add_to_level_bug(side, p, quantity) ==
  p \in levels[side] => Len(queue[side][p]) < LevelOrderLimit

\* The order fits the count and the quantity of the level it would join.
can_add_to_level(side, p, quantity) ==
  p \in levels[side] =>
    /\ Len(queue[side][p]) < LevelOrderLimit
    /\ total[side][p] + quantity <= QuantityLimit

Allocate_bug(next) == IF next = IdLimit THEN 1 ELSE next + 1

\* allocate: returns its argument and moves the counter; NoId is exhausted.
Allocate(next) == IF next = IdLimit THEN NoId ELSE next + 1

has_capacity_bug(next, count) == count = 0 \/ next # NoId

\* A counter can still give out count identifiers.
has_capacity(next, count) ==
  count = 0 \/ (next # NoId /\ count - 1 <= IdLimit - next)

Active == {x \in Ids : active_by_exchange[x] # NoOrder}

HasIdentifierCapacity ==
  LET matches == Cardinality(Active)
  IN  /\ has_capacity(next_exchange_order_id, 1)
      /\ has_capacity(next_priority_sequence, 1)
      /\ has_capacity(next_match_sequence, matches)
      /\ has_capacity(next_execution_id, 2 * matches)

-----------------------------------------------------------------------------
(***************************************************************************)
(* Validation.  Each operator returns the first failure in the order the   *)
(* code tests them, or "Accepted".                                         *)
(***************************************************************************)

validate_quantity_bug(quantity) ==
  IF quantity > MaxQuantity THEN "QuantityAboveMaximum" ELSE "Accepted"

validate_quantity(quantity) ==
  IF quantity < MinQuantity THEN "QuantityBelowMinimum"
  ELSE IF quantity > MaxQuantity THEN "QuantityAboveMaximum"
  ELSE "Accepted"

\* Order type, time in force and flags, for a command whose quantity is valid.
validate_terms(cmd) ==
  IF cmd.type = "Limit" /\ cmd.price = NoPrice THEN "MissingLimitPrice"
  ELSE IF cmd.type = "Market" /\ "Market" \notin Features
    THEN "UnsupportedCombination"
  ELSE IF cmd.type = "Market" /\ cmd.price # NoPrice
    THEN "UnexpectedLimitPrice"
  ELSE IF \/ cmd.type = "Market" /\ cmd.tif = "GTC"
          \/ cmd.tif \in {"IOC", "FOK"} \ Features
          \/ cmd.postOnly /\ \/ "PostOnly" \notin Features
                             \/ cmd.type # "Limit"
                             \/ cmd.tif # "GTC"
    THEN "UnsupportedCombination"
  ELSE "Accepted"

validate_submit(cmd) ==
  IF ~cmd.wellFormed THEN "InvalidCommand"
  ELSE IF cmd.client \in all_client_ids THEN "DuplicateClientOrderId"
  ELSE IF validate_quantity(cmd.quantity) # "Accepted"
    THEN validate_quantity(cmd.quantity)
  ELSE validate_terms(cmd)

SubmitOutcome(cmd) ==
  IF validate_submit(cmd) # "Accepted" THEN validate_submit(cmd)
  ELSE IF ~HasIdentifierCapacity THEN "InternalSequenceExhausted"
  ELSE IF /\ cmd.tif = "FOK"
          /\ ~can_fully_execute(cmd.side, cmd.quantity, cmd.price)
    THEN "InsufficientLiquidity"
  ELSE IF cmd.postOnly /\ would_cross(cmd.side, cmd.price)
    THEN "PostOnlyWouldCross"
  ELSE IF /\ cmd.type = "Limit" /\ cmd.tif = "GTC"
          /\ ~can_add_to_level(cmd.side, cmd.price, cmd.quantity)
    THEN "InternalSequenceExhausted"
  ELSE "Accepted"

locate_active(client, x) ==
  IF exchange_by_client[client] = NoId THEN "UnknownOrder"
  ELSE IF exchange_by_client[client] # x THEN "OrderIdentifierMismatch"
  ELSE IF active_by_exchange[x] = NoOrder THEN "AlreadyTerminal"
  ELSE "Accepted"

ReplaceOutcome(cmd) ==
  IF ~cmd.wellFormed \/ cmd.newClient = cmd.client THEN "InvalidCommand"
  ELSE IF locate_active(cmd.client, cmd.id) # "Accepted"
    THEN locate_active(cmd.client, cmd.id)
  ELSE IF cmd.newClient \in all_client_ids THEN "DuplicateClientOrderId"
  ELSE IF validate_quantity(cmd.quantity) # "Accepted"
    THEN validate_quantity(cmd.quantity)
  ELSE IF cmd.price = NoPrice THEN "MissingLimitPrice"
  ELSE IF ~HasIdentifierCapacity THEN "InternalSequenceExhausted"
  ELSE IF ~can_add_to_level(active_by_exchange[cmd.id].side,
                            cmd.price, cmd.quantity)
    THEN "InternalSequenceExhausted"
  ELSE "Accepted"

-----------------------------------------------------------------------------
Init ==
  /\ levels = [s \in Sides |-> {}]
  /\ queue = [s \in Sides |-> [p \in Prices |-> <<>>]]
  /\ total = [s \in Sides |-> [p \in Prices |-> 0]]
  /\ active_by_exchange = [x \in Ids |-> NoOrder]
  /\ active_by_client = [c \in ClientIds |-> NoId]
  /\ exchange_by_client = [c \in ClientIds |-> NoId]
  /\ orders_by_exchange = [x \in Ids |-> NoOrder]
  /\ all_client_ids = {}
  /\ next_exchange_order_id = 1
  /\ next_priority_sequence = 1
  /\ next_match_sequence = 1
  /\ next_execution_id = 1
  /\ incoming = NoOrder

\* The order record a command creates once it is accepted.
NewOrder(client, side, type, tif, quantity, p, postOnly) ==
  [id |-> next_exchange_order_id, client |-> client, side |-> side,
   type |-> type, tif |-> tif, quantity |-> quantity, cum |-> 0,
   leaves |-> quantity, price |-> p, postOnly |-> postOnly,
   state |-> "Live", priority |-> next_priority_sequence]

\* Identifiers, client indices and matching state of an accepted order.
Accept(order) ==
  /\ next_exchange_order_id' = Allocate(next_exchange_order_id)
  /\ next_priority_sequence' = Allocate(next_priority_sequence)
  /\ all_client_ids' = all_client_ids \cup {order.client}
  /\ exchange_by_client' = [exchange_by_client EXCEPT ![order.client] = order.id]
  /\ incoming' = order
  /\ UNCHANGED matchIds

Submit(cmd) ==
  /\ incoming = NoOrder
  /\ SubmitOutcome(cmd) = "Accepted"
  /\ LET order == NewOrder(cmd.client, cmd.side, cmd.type, cmd.tif,
                           cmd.quantity, cmd.price, cmd.postOnly)
     IN  /\ Accept(order)
         /\ orders_by_exchange' = [orders_by_exchange EXCEPT ![order.id] = order]
  /\ UNCHANGED <<book, active_by_exchange, active_by_client>>

\* The levels once the queue at price p has lost an order: the map drops a
\* level together with its last order.
ErasedLevels(side, p) ==
  IF Len(queue[side][p]) = 1 THEN [levels EXCEPT ![side] = @ \ {p}] ELSE levels

Deactivate_bug(x) ==
  /\ active_by_exchange' = [active_by_exchange EXCEPT ![x] = NoOrder]
  /\ UNCHANGED active_by_client

\* The order leaves both indices of active orders.
Deactivate(x) ==
  /\ active_by_exchange' = [active_by_exchange EXCEPT ![x] = NoOrder]
  /\ active_by_client' =
       [active_by_client EXCEPT ![active_by_exchange[x].client] = NoId]

\* remove_from_book: the node leaves its level, and an empty level its map.
RemoveFromBook(x) ==
  LET side == active_by_exchange[x].side
      p    == active_by_exchange[x].price
  IN  \E i \in 1..Len(queue[side][p]) :
        /\ queue[side][p][i] = x
        /\ queue' = [queue EXCEPT ![side][p] = RemoveAt(@, i)]
        /\ total' = [total EXCEPT ![side][p] = @ - active_by_exchange[x].leaves]
        /\ levels' = ErasedLevels(side, p)

Terminated_bug(x, state) == [active_by_exchange[x] EXCEPT !.state = state]

\* The history record that remove_active leaves behind.
Terminated(x, state) ==
  [active_by_exchange[x] EXCEPT !.leaves = 0, !.state = state]

\* remove_active, without the history update.
RemoveActive(x) ==
  /\ RemoveFromBook(x)
  /\ Deactivate(x)

Cancel(client, x) ==
  /\ incoming = NoOrder
  /\ locate_active(client, x) = "Accepted"
  /\ RemoveActive(x)
  /\ orders_by_exchange' =
       [orders_by_exchange EXCEPT ![x] = Terminated(x, "Cancelled")]
  /\ UNCHANGED <<exchange_by_client, all_client_ids, orderIds, matchIds, incoming>>

\* The old order leaves the book as Replaced, and the new one, always a
\* plain good-til-cancelled limit order, takes a new id and a new priority.
Replace(cmd) ==
  /\ incoming = NoOrder
  /\ ReplaceOutcome(cmd) = "Accepted"
  /\ LET order == NewOrder(cmd.newClient, active_by_exchange[cmd.id].side,
                           "Limit", "GTC", cmd.quantity, cmd.price, FALSE)
     IN  /\ Accept(order)
         /\ orders_by_exchange' =
              [orders_by_exchange EXCEPT ![cmd.id] = Terminated(cmd.id, "Replaced"),
                                         ![order.id] = order]
  /\ RemoveActive(cmd.id)

-----------------------------------------------------------------------------
(***************************************************************************)
(* Matching and the end of a submit or a replace.                          *)
(***************************************************************************)

\* An order after q of its lots have traded.
AfterFill(order, q) ==
  [order EXCEPT !.leaves = @ - q, !.cum = @ + q,
                !.state = IF order.leaves = q THEN "Filled" ELSE "PartiallyFilled"]

MatchQuantity(maker) ==
  IF incoming.leaves <= maker.leaves THEN incoming.leaves ELSE maker.leaves

CanMatch_bug ==
  /\ incoming # NoOrder
  /\ would_cross(incoming.side, incoming.price)

\* The condition of the matching loop.
CanMatch ==
  /\ incoming # NoOrder
  /\ incoming.leaves > 0
  /\ would_cross(incoming.side, incoming.price)

\* One iteration of match_level against the maker x at the front of level p.
MatchMaker(side, p, x) ==
  LET maker  == active_by_exchange[x]
      q      == MatchQuantity(maker)
      filled == AfterFill(maker, q)
  IN  /\ incoming' = AfterFill(incoming, q)
      /\ total' = [total EXCEPT ![side][p] = @ - q]
      /\ orders_by_exchange' = [orders_by_exchange EXCEPT ![x] = filled]
      /\ \/ /\ filled.leaves = 0
            /\ queue' = [queue EXCEPT ![side][p] = Tail(@)]
            /\ levels' = ErasedLevels(side, p)
            /\ Deactivate(x)
         \/ /\ filled.leaves > 0
            /\ active_by_exchange' = [active_by_exchange EXCEPT ![x] = filled]
            /\ UNCHANGED <<queue, levels, active_by_client>>

MatchOne ==
  /\ CanMatch
  /\ \E p \in EligibleLevels(incoming.side, incoming.price) :
       LET side == Opposite(incoming.side)
       IN  /\ IsBest(side, p)
           /\ MatchMaker(side, p, Head(queue[side][p]))
  /\ next_match_sequence' = Allocate(next_match_sequence)
  /\ next_execution_id' = Allocate(Allocate(next_execution_id))
  /\ UNCHANGED <<exchange_by_client, all_client_ids, orderIds>>

\* The call returns: the history takes the final record of the order.
Return(order) ==
  /\ orders_by_exchange' = [orders_by_exchange EXCEPT ![order.id] = order]
  /\ incoming' = NoOrder
  /\ UNCHANGED <<exchange_by_client, all_client_ids, orderIds, matchIds>>

FinishFilled ==
  /\ incoming # NoOrder /\ incoming.leaves = 0
  /\ Return([incoming EXCEPT !.state = "Filled"])
  /\ UNCHANGED <<book, active_by_exchange, active_by_client>>

\* What is left of a good-til-cancelled limit order rests in the book.
MayRest(order) == order.type = "Limit" /\ order.tif = "GTC"

FinishRest ==
  /\ incoming # NoOrder /\ incoming.leaves > 0 /\ ~CanMatch
  /\ MayRest(incoming)
  /\ LET order == [incoming EXCEPT
                     !.state = IF incoming.cum = 0 THEN "Live" ELSE "PartiallyFilled"]
     IN  /\ Return(order)
         /\ levels' = [levels EXCEPT ![order.side] = @ \cup {order.price}]
         /\ total' = [total EXCEPT ![order.side][order.price] = @ + order.leaves]
         /\ queue' = [queue EXCEPT ![order.side][order.price] = Append(@, order.id)]
         /\ active_by_exchange' = [active_by_exchange EXCEPT ![order.id] = order]
         /\ active_by_client' = [active_by_client EXCEPT ![order.client] = order.id]

FinishCancelled ==
  /\ incoming # NoOrder /\ incoming.leaves > 0 /\ ~CanMatch
  /\ ~MayRest(incoming)
  /\ Return([incoming EXCEPT !.leaves = 0, !.state = "Cancelled"])
  /\ UNCHANGED <<book, active_by_exchange, active_by_client>>

Next ==
  \/ \E cmd \in Submits : Submit(cmd)
  \/ \E c \in ClientIds, x \in Ids : Cancel(c, x)
  \/ \E cmd \in ReplaceCommand : Replace(cmd)
  \/ MatchOne
  \/ FinishFilled
  \/ FinishRest
  \/ FinishCancelled

Spec == Init /\ [][Next]_vars

-----------------------------------------------------------------------------
(***************************************************************************)
(* Properties.                                                             *)
(***************************************************************************)

Counters == {next_exchange_order_id, next_priority_sequence,
             next_match_sequence, next_execution_id}

\* Every variable keeps the shape of its C++ member.
TypeOK ==
  /\ levels \in [Sides -> SUBSET Prices]
  /\ queue \in [Sides -> [Prices -> Seq(Ids)]]
  /\ total \in [Sides -> [Prices -> Int]]
  /\ active_by_exchange \in [Ids -> OrderView \cup {NoOrder}]
  /\ active_by_client \in [ClientIds -> Ids \cup {NoId}]
  /\ exchange_by_client \in [ClientIds -> Ids \cup {NoId}]
  /\ orders_by_exchange \in [Ids -> OrderView \cup {NoOrder}]
  /\ all_client_ids \subseteq ClientIds
  /\ Counters \subseteq Ids \cup {NoId}
  /\ incoming \in OrderView \cup {NoOrder}

\* The best bid is always strictly below the best ask, also while a taker
\* that has not come to rest is being matched (book.crossed).
BookUncrossed ==
  \A b \in levels["Buy"], a \in levels["Sell"] : b < a

\* A level is in the map exactly when it holds orders, every order of a
\* level is an active order of that side and price with lots left, and the
\* priorities of a level increase strictly from its front (book.invalid_level,
\* book.invalid_order, book.fifo_priority).
LevelsFifo ==
  \A s \in Sides : \A p \in Prices :
    /\ p \in levels[s] <=> queue[s][p] # <<>>
    /\ \A i \in 1..Len(queue[s][p]) :
         LET order == active_by_exchange[queue[s][p][i]]
         IN  /\ order # NoOrder
             /\ order.side = s /\ order.price = p
             /\ order.leaves > 0 /\ order.state \in RestingStates
    /\ \A i, j \in 1..Len(queue[s][p]) :
         i < j => active_by_exchange[queue[s][p][i]].priority
                    < active_by_exchange[queue[s][p][j]].priority

\* The displayed quantity of a level is the sum of the leaves of its orders
\* and fits its integer type: the checked_add and checked_subtract results
\* that the code dereferences untested are never empty (book.aggregate_quantity).
AggregateQuantity ==
  \A s \in Sides : \A p \in Prices :
    /\ total[s][p] = SumFunction([i \in 1..Len(queue[s][p]) |->
                                   active_by_exchange[queue[s][p][i]].leaves])
    /\ total[s][p] <= QuantityLimit

\* The five indices tell one story: an active order is its history record,
\* waits in the queue its own side and price name, and is what its client id
\* leads to; every accepted client id leads to its own order (index.*).
IndicesAgree ==
  /\ \A x \in Active :
       LET order == active_by_exchange[x]
       IN  /\ orders_by_exchange[x] = order
           /\ active_by_client[order.client] = x
           /\ \E i \in 1..Len(queue[order.side][order.price]) :
                queue[order.side][order.price][i] = x
  /\ \A c \in ClientIds :
       /\ active_by_client[c] # NoId =>
            /\ active_by_client[c] \in Active
            /\ active_by_exchange[active_by_client[c]].client = c
       /\ c \in all_client_ids <=> exchange_by_client[c] # NoId
       /\ exchange_by_client[c] # NoId =>
            /\ orders_by_exchange[exchange_by_client[c]] # NoOrder
            /\ orders_by_exchange[exchange_by_client[c]].client = c

\* The book is what its audit asks for, between any two steps: uncrossed, in
\* price-time order, and the same in all of its indices.
BookConsistent == BookUncrossed /\ LevelsFifo /\ IndicesAgree

\* The lots of an order are accounted for: traded and leaves make up the
\* requested quantity until the order ends, and only a cancel or a replace
\* may make the rest disappear; Filled means every lot has traded.
QuantityConserved ==
  \A x \in Ids :
    LET order == orders_by_exchange[x]
    IN  order # NoOrder =>
          \/ /\ order.state \in RestingStates
             /\ order.cum + order.leaves = order.quantity
             /\ order.state = "PartiallyFilled" <=> order.cum > 0
          \/ /\ order.state = "Filled"
             /\ order.leaves = 0 /\ order.cum = order.quantity
          \/ /\ order.state \in {"Cancelled", "Replaced"}
             /\ order.leaves = 0 /\ order.cum < order.quantity

\* The capacity check made before a command mutates anything is enough: the
\* matching loop never asks an exhausted counter for an identifier, which
\* would throw with the book half changed.
AllocationNeverThrows ==
  CanMatch => /\ next_match_sequence # NoId
              /\ next_execution_id # NoId
              /\ Allocate(next_execution_id) # NoId

\* A fill-or-kill order that is accepted trades completely: the liquidity
\* test reads the level totals, the loop consumes the orders themselves.
FillOrKillAtomic ==
  \A x \in Ids :
    (orders_by_exchange[x] # NoOrder /\ orders_by_exchange[x].tif = "FOK")
      => \/ orders_by_exchange[x].state = "Filled"
         \/ incoming # NoOrder /\ incoming.id = x

\* A post-only order never takes liquidity, and a market order never rests.
PassiveAndAggressive ==
  /\ incoming # NoOrder /\ incoming.postOnly => ~CanMatch
  /\ \A x \in Active : active_by_exchange[x].tif = "GTC"

\* The terms of an order are kept: all or nothing, passive only, never resting.
TermsKept == FillOrKillAtomic /\ PassiveAndAggressive

\* An order that has reached a terminal state never changes again, and no
\* record of an accepted order is ever lost.
TerminalForever ==
  [][\A x \in Ids :
       orders_by_exchange[x] # NoOrder =>
         /\ orders_by_exchange'[x] # NoOrder
         /\ orders_by_exchange[x].state \in TerminalStates
              => orders_by_exchange'[x] = orders_by_exchange[x]]_vars

\* Identifiers are never reissued: an accepted client id keeps its exchange
\* id, and no later order gets the id or the priority of an earlier one,
\* also once the counters have run out.
IdentifiersUnique ==
  [][/\ \A c \in ClientIds : exchange_by_client[c] # NoId =>
          exchange_by_client'[c] = exchange_by_client[c]
     /\ (incoming = NoOrder /\ incoming' # NoOrder) =>
          \A x \in Ids : orders_by_exchange[x] # NoOrder =>
            /\ incoming'.id # x
            /\ incoming'.priority > orders_by_exchange[x].priority]_vars

\* The history is final: no record of an ended order is changed, lost or
\* overwritten by an order that gets its identifier again.
HistoryFinal == TerminalForever /\ IdentifiersUnique

\* A call ends: every pass of the matching loop takes lots from the order it
\* works on or is the last, so that a call makes at most as many as it has lots.
MatchingProgresses ==
  [][incoming # NoOrder =>
       \/ incoming' = NoOrder
       \/ incoming'.leaves < incoming.leaves]_vars

-----------------------------------------------------------------------------
(***************************************************************************)
(* What the engine promises: one market, in which the best price trades    *)
(* first and, at one price, the order that came first.                     *)
(***************************************************************************)

RestingOrders ==
  {[id |-> x, side |-> active_by_exchange[x].side,
    price |-> active_by_exchange[x].price,
    leaves |-> active_by_exchange[x].leaves] : x \in Active}

Aggressor ==
  IF incoming = NoOrder THEN NoOrder
  ELSE [id |-> incoming.id, side |-> incoming.side, price |-> incoming.price,
        leaves |-> incoming.leaves, mayRest |-> MayRest(incoming)]

Market == INSTANCE PriceTimeMarket
            WITH resting <- RestingOrders, aggressor <- Aggressor,
                 Nobody <- NoOrder

\* The engine's maps, lists and indices implement the market.
ImplementsMarket == Market!Spec
=============================================================================
