---------------------------- MODULE ExecutionSystem ----------------------------
(***************************************************************************)
(* One parent order being executed: the simulation kernel, the exchange as *)
(* the parent's own child orders meet it, the execution state that learns  *)
(* from delivered events, the action validator, the terminal planner, and  *)
(* the loop that drives them.                                              *)
(*                                                                         *)
(* The exchange is MatchingEngine with everything but the parent's orders  *)
(* forgotten: which price levels and whose orders a command meets becomes  *)
(* a choice of how many lots it trades.  FOK and post-only submits have    *)
(* outcomes that IOC and GTC submits have too.  Replies that concern other *)
(* participants, which the execution state ignores, are left out.          *)
(*                                                                         *)
(* The loop is the one of apps/re_policy_demo.cpp: run the kernel until    *)
(* the clock, apply what was delivered, decide, and advance.  Engine       *)
(* failures are applied, if at all, when a reply would have arrived.       *)
(***************************************************************************)
EXTENDS SimulationKernel, ExecutionState, Functions

CONSTANTS
  Moves,                 \* the actions strategies take
  Fractions,             \* allowed_quantity_fractions, as <<numerator, denominator>>
  Rounding,              \* lot_rounding
  StrategyIds,           \* client ids that strategies may use
  maximum_live_children,
  maximum_commands_per_decision,
  maximum_aggressive_attempts,
  MaxTakes,              \* commands of other participants in one run
  RoutesFailures,        \* whether the loop calls apply_engine_failure
  NoOrder                \* a client id the exchange has not accepted

\* What the exchange keeps of a child order.
Order ==
  [id : Nat, quantity : Nat, cum : Nat, leaves : Nat,
   state : {"Live", "PartiallyFilled"} \cup Terminals]

ASSUME SystemAssumption ==
  /\ NoOrder \notin Order
  /\ Moves \subseteq {"Submit", "Cancel", "Replace"}
  /\ Fractions \subseteq Nat \X Nat
  /\ \A f \in Fractions : f[1] \in 1..f[2]
  /\ Rounding \in {"Floor", "Ceiling", "Nearest"}
  /\ StrategyIds \subseteq ClientIds
  /\ maximum_live_children \in Nat \ {0}
  /\ maximum_commands_per_decision \in Nat \ {0}
  /\ maximum_aggressive_attempts \in Nat \ {0}
  /\ MaxTakes \in Nat
  /\ RoutesFailures \in BOOLEAN

VARIABLES
  exchange,  \* the child orders at the exchange, and its counters
  clock,     \* the time the loop has run the kernel to
  cursor,    \* delivered events that have been applied
  routed,    \* engine failures that have been applied
  attempts,  \* aggressive_attempts_ of the terminal planner
  takes      \* commands that other participants have sent

vars == <<kernel, state, exchange, clock, cursor, routed, attempts, takes>>

-----------------------------------------------------------------------------
(***************************************************************************)
(* The exchange.  An outcome of a command is the exchange after it, the    *)
(* replies in the order of emission, and the failures recorded.            *)
(***************************************************************************)

Live == {c \in ClientIds : /\ exchange.orders[c] # NoOrder
                           /\ exchange.orders[c].state \in {"Live", "PartiallyFilled"}}

\* The lots of the matches of a taker: at most two, together at most quantity.
MatchSizes(quantity) ==
  {<<>>} \cup {<<a>> : a \in 1..quantity}
    \cup {<<ab[1], ab[2]>> : ab \in {x \in (1..quantity) \X (1..quantity) :
                                       x[1] + x[2] <= quantity}}

Lots(sizes) == SumFunction(sizes)

\* The fills of order o, one per match.
Fills(c, o, sizes) ==
  [i \in DOMAIN sizes |->
     [kind |-> "Fill", client |-> c, exchange_order_id |-> o.id,
      execution |-> exchange.next_execution_id + i - 1, quantity |-> sizes[i],
      cum |-> o.cum + Lots(SubSeq(sizes, 1, i)),
      leaves |-> o.leaves - Lots(SubSeq(sizes, 1, i))]]

\* Order o after its matches; it keeps what is left if it may rest.
Matched(o, sizes, rests) ==
  LET left == o.leaves - Lots(sizes)
  IN  [o EXCEPT !.cum = @ + Lots(sizes),
                !.leaves = IF rests THEN left ELSE 0,
                !.state = IF left = 0 THEN "Filled"
                          ELSE IF ~rests THEN "Cancelled"
                          ELSE IF o.cum + Lots(sizes) = 0 THEN "Live"
                          ELSE "PartiallyFilled"]

NewExchangeOrder(quantity) ==
  [id |-> exchange.next_exchange_order_id, quantity |-> quantity, cum |-> 0,
   leaves |-> quantity, state |-> "Live"]

\* The exchange once a new order of client c has been matched.
WithOrder(c, o, sizes) ==
  [exchange EXCEPT !.orders[c] = o, !.next_exchange_order_id = @ + 1,
                   !.next_execution_id = @ + Len(sizes)]

Refused(replies, current_state) ==
  [exchange |-> exchange, replies |-> replies, failures |-> <<current_state>>]

\* Acknowledgement, fills, and the cancellation of what may not rest.
SubmitReplies(c, o, sizes, rests) ==
  <<[kind |-> "OrderAcknowledged", client |-> c, exchange_order_id |-> o.id,
     quantity |-> o.quantity]>>
  \o Fills(c, o, sizes)
  \o (IF rests \/ Lots(sizes) = o.quantity THEN <<>>
      ELSE <<[kind |-> "CancelAcknowledged", client |-> c, exchange_order_id |-> o.id,
              cum |-> Lots(sizes)]>>)

SubmitOutcomes(command) ==
  LET o     == NewExchangeOrder(command.quantity)
      rests == command.tif = "GTC"
  IN  {Refused(<<[kind |-> "OrderRejected", client |-> command.client]>>, NoState)}
      \cup {[exchange |-> WithOrder(command.client, Matched(o, sizes, rests), sizes),
             replies |-> SubmitReplies(command.client, o, sizes, rests),
             failures |-> <<>>] : sizes \in MatchSizes(command.quantity)}

Ended(c, ending) ==
  [exchange EXCEPT !.orders[c] = [@ EXCEPT !.leaves = 0, !.state = ending]]

CancelOutcomes(command) ==
  IF command.client \notin Live
  THEN {Refused(<<>>, exchange.orders[command.client].state)}
  ELSE {[exchange |-> Ended(command.client, "Cancelled"),
         replies |-> <<[kind |-> "CancelAcknowledged", client |-> command.client,
                        exchange_order_id |-> command.exchange_order_id,
                        cum |-> exchange.orders[command.client].cum]>>,
         failures |-> <<>>]}

\* A replacement always rests, and may trade first.
ReplaceOutcomes(command) ==
  IF command.client \notin Live
  THEN {Refused(<<>>, exchange.orders[command.client].state)}
  ELSE LET o == NewExchangeOrder(command.quantity)
       IN  {Refused(<<>>, NoState)} \cup
           {[exchange |-> [WithOrder(command.new_client, Matched(o, sizes, TRUE), sizes)
                           EXCEPT !.orders[command.client] =
                             Ended(command.client, "Replaced").orders[command.client]],
             replies |-> <<[kind |-> "ReplaceAcknowledged", client |-> command.client,
                            new_client |-> command.new_client,
                            exchange_order_id |-> o.id, quantity |-> command.quantity]>>
                         \o Fills(command.new_client, o, sizes),
             failures |-> <<>>] : sizes \in MatchSizes(command.quantity)}

\* Another participant's command trades with a resting child order, or not.
TakeOutcomes ==
  {[exchange |-> exchange, replies |-> <<>>, failures |-> <<>>]} \cup
  UNION {{[exchange |-> [exchange EXCEPT
                           !.orders[c] = Matched(exchange.orders[c], <<q>>, TRUE),
                           !.next_execution_id = @ + 1],
           replies |-> Fills(c, exchange.orders[c], <<q>>),
           failures |-> <<>>] : q \in 1..exchange.orders[c].leaves} : c \in Live}

Outcomes(command) ==
  CASE command.kind = "Submit"  -> SubmitOutcomes(command)
    [] command.kind = "Cancel"  -> CancelOutcomes(command)
    [] command.kind = "Replace" -> ReplaceOutcomes(command)
    [] command.kind = "Take"    -> TakeOutcomes

-----------------------------------------------------------------------------
(***************************************************************************)
(* The action validator, on the observation of a state with nothing left   *)
(* to apply.                                                               *)
(***************************************************************************)

\* fraction_quantity: n / d of the residual, in whole lots.
fraction_quantity(remaining, fraction) ==
  LET product   == remaining * fraction[1]
      quotient  == product \div fraction[2]
      remainder == product % fraction[2]
  IN  IF \/ Rounding = "Ceiling" /\ remainder # 0
         \/ Rounding = "Nearest" /\ remainder * 2 >= fraction[2]
      THEN quotient + 1 ELSE quotient

ChildQuantities == {fraction_quantity(Remaining(state), f) : f \in Fractions}
                     \ {0}

validate_common ==
  /\ parent_status(state, clock) # "Completed"
  /\ pending_command_count(state) = 0

validate_submit(command) ==
  /\ validate_common
  /\ ~knows_client_order_id(state, command.client)
  /\ Cardinality(acknowledged_active_orders(state)) < maximum_live_children
  /\ command.quantity \in ChildQuantities

validate_cancel(clients) ==
  /\ validate_common
  /\ clients # {}
  /\ Cardinality(clients) <= maximum_commands_per_decision
  /\ clients \subseteq acknowledged_active_orders(state)

validate_replace(command) ==
  /\ validate_common
  /\ command.client \in acknowledged_active_orders(state)
  /\ ~knows_client_order_id(state, command.new_client)
  /\ command.quantity \in ChildQuantities

-----------------------------------------------------------------------------
Init ==
  /\ KernelInit
  /\ StateInit
  /\ exchange = [orders |-> [c \in ClientIds |-> NoOrder],
                 next_exchange_order_id |-> 1, next_execution_id |-> 1]
  /\ clock = 0 /\ cursor = 0 /\ routed = 0 /\ attempts = 0 /\ takes = 0

(***************************************************************************)
(* The kernel: one task of run_until(clock).                               *)
(***************************************************************************)

DispatchTask ==
  \E task \in kernel.queue :
    /\ IsTop(kernel, task)
    /\ task.time <= clock
    /\ \/ /\ task.stage # ExchangeProcess
          /\ kernel' = dispatch(kernel, task)
          /\ UNCHANGED exchange
       \/ /\ task.stage = ExchangeProcess
          /\ \E outcome \in Outcomes(task.event.payload) :
               /\ kernel' = process_exchange(kernel, task, outcome.replies,
                                             outcome.failures)
               /\ exchange' = outcome.exchange
    /\ UNCHANGED <<state, clock, cursor, routed, attempts, takes>>

-----------------------------------------------------------------------------
(***************************************************************************)
(* The loop.                                                               *)
(***************************************************************************)

RunDone == \A task \in kernel.queue : task.time > clock

\* ingest_new: one delivered event.
ApplyDelivered ==
  /\ RunDone
  /\ cursor < Len(kernel.delivered_events)
  /\ LET event == kernel.delivered_events[cursor + 1]
     IN  state' = apply_delivered_event(state, event, event.available)
  /\ cursor' = cursor + 1
  /\ UNCHANGED <<kernel, exchange, clock, routed, attempts, takes>>

Ingested == RunDone /\ cursor = Len(kernel.delivered_events)

FailureDue ==
  /\ RoutesFailures
  /\ routed < Len(kernel.failures)
  /\ kernel.failures[routed + 1].available <= clock

RouteFailure ==
  /\ Ingested
  /\ FailureDue
  /\ LET failure == kernel.failures[routed + 1]
     IN  state' = apply_engine_failure(state, failure.command, failure.current_state)
  /\ routed' = routed + 1
  /\ UNCHANGED <<kernel, exchange, clock, cursor, attempts, takes>>

\* Everything that has become known is in the state: time to decide.
Ready == Ingested /\ ~FailureDue

\* The kernel once the commands of a decision have been scheduled, in order.
ScheduledCommands(commands, timings) ==
  LET scheduled[i \in 0..Len(commands)] ==
        IF i = 0 THEN Call(kernel)
        ELSE schedule_command(scheduled[i - 1], commands[i], timings[i])
  IN  scheduled[Len(commands)]

\* dispatch_validated_action: every command is scheduled, then registered.
dispatch_validated_action(commands) ==
  \E timings \in [DOMAIN commands -> action_timing(clock)] :
    /\ kernel' = ScheduledCommands(commands, timings)
    /\ state' = IF kernel'.thrown THEN state ELSE register_action(state, commands)

CancelCommands(clients) ==
  LET ids == SetToSeq(clients)
  IN  [i \in DOMAIN ids |->
         [kind |-> "Cancel", client |-> ids[i],
          exchange_order_id |-> state.children[ids[i]].exchange_order_id]]

StrategySubmit ==
  \E c \in StrategyIds, q \in ChildQuantities, tif \in {"GTC", "IOC"} :
    LET command == [kind |-> "Submit", client |-> c, tif |-> tif, quantity |-> q]
    IN  validate_submit(command) /\ dispatch_validated_action(<<command>>)

StrategyCancel ==
  \E clients \in SUBSET StrategyIds :
    validate_cancel(clients) /\ dispatch_validated_action(CancelCommands(clients))

StrategyReplace ==
  \E c, new \in StrategyIds, q \in ChildQuantities :
    LET command == [kind |-> "Replace", client |-> c, new_client |-> new,
                    quantity |-> q,
                    exchange_order_id |-> state.children[c].exchange_order_id]
    IN  /\ validate_common
        /\ c \in acknowledged_active_orders(state)
        /\ validate_replace(command) /\ dispatch_validated_action(<<command>>)

\* A strategy acts while the parent order is active.
Decide ==
  /\ Ready
  /\ parent_status(state, clock) = "Active"
  /\ \/ "Submit" \in Moves /\ StrategySubmit
     \/ "Cancel" \in Moves /\ StrategyCancel
     \/ "Replace" \in Moves /\ StrategyReplace
  /\ UNCHANGED <<exchange, clock, cursor, routed, attempts, takes>>

\* plan, by the kind of plan it returns, and what the loop does with it.
CancelActiveChildren ==
  /\ validate_cancel(acknowledged_active_orders(state))
  /\ dispatch_validated_action(CancelCommands(acknowledged_active_orders(state)))
  /\ UNCHANGED attempts

SubmitAggressiveResidual_bug ==
  /\ acknowledged_active_orders(state) = {}
  /\ attempts < maximum_aggressive_attempts
  /\ \E c \in ClientIds \ StrategyIds :
       LET command == [kind |-> "Submit", client |-> c, tif |-> "IOC",
                       quantity |-> Remaining(state)]
       IN  validate_submit(command) /\ dispatch_validated_action(<<command>>)
  /\ UNCHANGED attempts

SubmitAggressiveResidual ==
  /\ acknowledged_active_orders(state) = {}
  /\ attempts < maximum_aggressive_attempts
  /\ \E c \in ClientIds \ StrategyIds :
       LET command == [kind |-> "Submit", client |-> c, tif |-> "IOC",
                       quantity |-> Remaining(state)]
       IN  validate_submit(command) /\ dispatch_validated_action(<<command>>)
  /\ attempts' = attempts + 1

ExplicitFallback ==
  /\ acknowledged_active_orders(state) = {}
  /\ attempts >= maximum_aggressive_attempts
  /\ kernel' = schedule_system_event(Call(kernel),
                 [kind |-> "TerminalCompletion", quantity |-> Remaining(state)], clock)
  /\ state' = mark_terminal_completion_pending(state)
  /\ UNCHANGED attempts

\* The terminal controller; it waits while a command is pending.
PlanTerminal ==
  /\ Ready
  /\ parent_status(state, clock) = "TerminalCompletionPending"
  /\ pending_command_count(state) = 0
  /\ CancelActiveChildren \/ SubmitAggressiveResidual \/ ExplicitFallback
  /\ UNCHANGED <<exchange, clock, cursor, routed, takes>>

\* Another participant sends a command that may meet a resting child order.
OtherParticipant ==
  /\ Ready
  /\ takes < MaxTakes
  /\ \E timing \in action_timing(clock) :
       kernel' = schedule_command(Call(kernel), [kind |-> "Take"], timing)
  /\ takes' = takes + 1
  /\ UNCHANGED <<state, exchange, clock, cursor, routed, attempts>>

\* Time passes towards the horizon, a task or a failure; after the horizon the
\* loop does not wait for nothing.
AdvanceClock ==
  /\ Ready
  /\ clock < TimeLimit
  /\ \/ clock < EndTime
     \/ kernel.queue # {}
     \/ RoutesFailures /\ routed < Len(kernel.failures)
  /\ clock' = clock + 1
  /\ UNCHANGED <<kernel, state, exchange, cursor, routed, attempts, takes>>

Next ==
  \/ DispatchTask
  \/ ApplyDelivered
  \/ RouteFailure
  \/ Decide
  \/ PlanTerminal
  \/ OtherParticipant
  \/ AdvanceClock

Spec == Init /\ [][Next]_vars

\* The loop goes on: it runs the kernel, applies what it delivers, follows the
\* terminal planner, and time passes.  No strategy has to act.
FairSpec ==
  /\ Spec
  /\ WF_vars(DispatchTask)
  /\ WF_vars(ApplyDelivered)
  /\ WF_vars(RouteFailure)
  /\ WF_vars(PlanTerminal)
  /\ WF_vars(AdvanceClock)

-----------------------------------------------------------------------------
(***************************************************************************)
(* What must hold.                                                         *)
(***************************************************************************)

Accepted == {c \in ClientIds : exchange.orders[c] # NoOrder}

\* The lots the child orders have traded at the exchange.
Traded == SumFunction([c \in Accepted |-> exchange.orders[c].cum])

Completions ==
  {i \in DOMAIN kernel.delivered_events :
     kernel.delivered_events[i].payload.kind = "TerminalCompletion"}

\* The lots completed at the fallback price.
FallbackLots ==
  SumFunction([i \in Completions |-> kernel.delivered_events[i].payload.quantity])

OwnCommands ==
  {task \in kernel.queue : task.stage \in {ExchangeReceive, ExchangeProcess}
                           /\ task.event.payload.kind # "Take"}

\* Nothing is on its way to the exchange or back.
Settled ==
  /\ kernel.queue = {}
  /\ cursor = Len(kernel.delivered_events)
  /\ routed = Len(kernel.failures)

\* The shape of the state: what the loop, the planner and the execution state
\* keep stays within the ranges their C++ types and configuration give them.
TypeOK ==
  /\ clock \in Time
  /\ cursor \in 0..Len(kernel.delivered_events)
  /\ routed \in 0..Len(kernel.failures)
  /\ attempts \in 0..maximum_aggressive_attempts
  /\ takes \in 0..MaxTakes
  /\ state.filled \in 0..ParentQuantity
  /\ \A c \in Known(state) :
       LET child == state.children[c]
       IN  /\ child.requested \in 1..ParentQuantity
           /\ child.cum \in 0..child.requested
           /\ child.leaves \in 0..child.requested
           /\ child.state \in {"PendingNew"} \cup ActiveStates \cup Terminals
  /\ \A task \in kernel.queue :
       /\ task.time \in Time
       /\ task.stage \in {ExchangeReceive, ExchangeProcess, ObserverAvailable, System}

\* Once nothing is in flight, the parent's ledger holds exactly the lots its
\* children traded and the fallback completed: ExecutionState neither drops,
\* doubles nor invents a fill, although it only ever sees delivered events.
LedgerExact == Settled => state.filled = Traded + FallbackLots

\* Once nothing is in flight, what the state knows of a child is what the
\* exchange did with it: its id, its quantities, and whether it is still live.
ChildrenAgree ==
  Settled =>
    /\ Accepted \subseteq Known(state)
    /\ \A c \in Known(state) :
         LET child == state.children[c]
             order == exchange.orders[c]
         IN  IF order = NoOrder THEN child.state = "Rejected"
             ELSE /\ child.exchange_order_id = order.id
                  /\ child.cum = order.cum
                  /\ child.leaves = order.leaves
                  /\ child.state = order.state

\* The children never trade more than the parent order asks for, not even with
\* a fill in flight that the strategy or the terminal planner cannot see yet.
NeverOverfilled == Traded + FallbackLots <= ParentQuantity

\* The kernel delivers what happens to a child in an order that ExecutionState
\* can book: no event is refused with an issue.
FillsNeverRefused == state.issues = {}

\* The state follows its children: it can book every event they cause, and once
\* nothing is in flight it knows of each what the exchange has done with it.
ChildrenTracked == TypeOK /\ FillsNeverRefused /\ ChildrenAgree

\* The first event ExecutionState refuses is a fill that no longer fits what
\* remains of the parent; what it has missed then, later events may run into.
OverfillRefusedFirst == state.issues # {} => "parent_overfill" \in state.issues

\* A completed parent order is over: no child of it can still trade, at the
\* exchange or on its way there.
CompletedMeansFlat ==
  parent_status(state, clock) = "Completed"
    => Live = {} /\ \A task \in OwnCommands : task.event.payload.kind = "Cancel"

\* The validator lets one decision be in flight: the commands on their way are
\* those of a single decision.
OneDecisionInFlight ==
  /\ Cardinality(OwnCommands) <= maximum_commands_per_decision
  /\ \A t, u \in OwnCommands : t.event.payload.kind = u.event.payload.kind

\* The parent order bounds what is traded for it: never more than it asks for,
\* nothing once it is completed, and by one decision at a time.
ParentRespected == NeverOverfilled /\ CompletedMeansFlat /\ OneDecisionInFlight

\* An order that may trade at the exchange is one that the state holds for
\* pending or active, so that the terminal planner waits for it or cancels it
\* and never submits the residual beside it.
NoForgottenOrder ==
  \A c \in Live : /\ knows_client_order_id(state, c)
                  /\ state.children[c].state \in {"PendingNew"} \cup ActiveStates

\* With replacements, too, the ledger and the children are exact as long as no
\* event has been refused, and none is refused before a fill for want of a
\* remainder to book it on.
ExactUnlessOverfill ==
  /\ OverfillRefusedFirst
  /\ state.issues = {} => LedgerExact /\ ChildrenAgree

\* Every dispatched command is resolved in the end: the strategy is not kept
\* waiting for a reply that never comes.
PendingResolves == (pending_command_count(state) > 0) ~> (pending_command_count(state) = 0)

\* Hard completion: once the horizon is reached the parent order completes.
TerminalCompletes == (clock >= EndTime) ~> (Remaining(state) = 0)

=============================================================================
