---------------------------- MODULE ExecutionState ----------------------------
(***************************************************************************)
(* The shared accounting and lifecycle authority of a parent order:        *)
(* ExecutionState of cpp/src/policy, which learns what happened at the     *)
(* exchange only from delivered events.                                    *)
(*                                                                         *)
(* The object is one record, and each member function an operator from     *)
(* that record to the next.  The issues a call returns are collected in    *)
(* the set issues.                                                         *)
(*                                                                         *)
(* Abstracted: prices and the cash ledger, fees (the kernel emits no fee   *)
(* event), the event, side and instrument checks that every event of the   *)
(* run passes, and the fields of a child the state never reads back.       *)
(***************************************************************************)
EXTENDS Integers, FiniteSets, SequencesExt

CONSTANTS
  ClientIds,       \* client order ids of child orders
  ParentQuantity,  \* total_quantity of the parent order
  EndTime,         \* end_time of the parent order
  NoChild          \* a client id the state does not know

NoExchangeId == 0
ActiveStates == {"Live", "PartiallyFilled", "PendingCancel"}
Terminals    == {"Filled", "Cancelled", "Rejected", "Replaced"}

\* What the state keeps of a child order.
Child ==
  [exchange_order_id : Nat, requested : Nat, cum : Nat, leaves : Nat,
   state : {"PendingNew"} \cup ActiveStates \cup Terminals,
   cancel_pending : BOOLEAN, replace_pending : BOOLEAN]

ASSUME StateAssumption ==
  /\ ParentQuantity \in Nat \ {0}
  /\ EndTime \in Nat
  /\ IsFiniteSet(ClientIds)
  /\ NoChild \notin Child

ChildEvents  == {"OrderAcknowledged", "OrderRejected", "CancelAcknowledged", "Fill"}

\* The state a failure carries when it is not about an order that has ended.
NoState == "None"

VARIABLE state  \* the ExecutionState object

StateInit ==
  state = [children |-> [c \in ClientIds |-> NoChild], filled |-> 0,
           terminal_applied |-> FALSE, terminal_pending |-> FALSE,
           events |-> {}, executions |-> {}, issues |-> {}]

knows_client_order_id(s, c) == s.children[c] # NoChild

Known(s) == {c \in ClientIds : knows_client_order_id(s, c)}

acknowledged_active_bug(child) ==
  child.exchange_order_id # NoExchangeId /\ child.state = "Live"

acknowledged_active(child) ==
  child.exchange_order_id # NoExchangeId /\ child.state \in ActiveStates

acknowledged_active_orders(s) ==
  {c \in Known(s) : acknowledged_active(s.children[c])}

pending_command_count(s) ==
  Cardinality({c \in Known(s) : s.children[c].state = "PendingNew"})
    + Cardinality({c \in Known(s) : s.children[c].cancel_pending})
    + Cardinality({c \in Known(s) : s.children[c].replace_pending})

Remaining(s) == ParentQuantity - s.filled

\* The status of parent_snapshot; the parent order starts at time 0.
parent_status(s, time) ==
  IF Remaining(s) = 0 THEN "Completed"
  ELSE IF s.terminal_pending \/ time >= EndTime THEN "TerminalCompletionPending"
  ELSE "Active"

Issue(s, code) == [s EXCEPT !.issues = @ \cup {code}]

-----------------------------------------------------------------------------
(***************************************************************************)
(* Commands that have been dispatched: register_action.                    *)
(***************************************************************************)

NewChild(quantity) ==
  [exchange_order_id |-> NoExchangeId, requested |-> quantity, cum |-> 0,
   leaves |-> quantity, state |-> "PendingNew",
   cancel_pending |-> FALSE, replace_pending |-> FALSE]

register_command(s, command) ==
  CASE command.kind = "Submit" ->
         [s EXCEPT !.children[command.client] = NewChild(command.quantity)]
    [] command.kind = "Cancel" ->
         [s EXCEPT !.children[command.client].cancel_pending = TRUE]
    [] command.kind = "Replace" ->
         [s EXCEPT !.children[command.client].replace_pending = TRUE,
                   !.children[command.new_client] = NewChild(command.quantity)]

register_action(s, commands) ==
  LET registered[i \in 0..Len(commands)] ==
        IF i = 0 THEN s ELSE register_command(registered[i - 1], commands[i])
  IN  registered[Len(commands)]

-----------------------------------------------------------------------------
(***************************************************************************)
(* Delivered events.  An event about a child the state does not know       *)
(* changes nothing.                                                        *)
(***************************************************************************)

apply_order_ack(s, e) ==
  [s EXCEPT !.children[e.client] =
     [@ EXCEPT !.exchange_order_id = e.exchange_order_id, !.requested = e.quantity,
               !.cum = 0, !.leaves = e.quantity, !.state = "Live"]]

apply_order_rejection(s, e) ==
  [s EXCEPT !.children[e.client] = [@ EXCEPT !.state = "Rejected", !.leaves = 0]]

apply_cancel_ack(s, e) ==
  [s EXCEPT !.children[e.client] =
     [@ EXCEPT !.exchange_order_id = e.exchange_order_id, !.cum = e.cum,
               !.leaves = 0, !.state = "Cancelled", !.cancel_pending = FALSE]]

apply_replace_ack_bug(s, e) ==
  [s EXCEPT !.children[e.new_client] =
     IF knows_client_order_id(s, e.new_client)
     THEN [@ EXCEPT !.exchange_order_id = e.exchange_order_id,
                    !.requested = e.quantity, !.leaves = e.quantity, !.state = "Live"]
     ELSE @]

\* The original order ends, and the replacement goes live.
apply_replace_ack(s, e) ==
  LET ended == [s EXCEPT !.children[e.client] =
                  IF knows_client_order_id(s, e.client)
                  THEN [@ EXCEPT !.state = "Replaced", !.leaves = 0, !.replace_pending = FALSE]
                  ELSE @]
  IN  [ended EXCEPT !.children[e.new_client] =
         IF knows_client_order_id(ended, e.new_client)
         THEN [@ EXCEPT !.exchange_order_id = e.exchange_order_id,
                        !.requested = e.quantity, !.leaves = e.quantity, !.state = "Live"]
         ELSE @]

update_parent_fill_bug(s, e) ==
  IF e.quantity >= Remaining(s) THEN Issue(s, "parent_overfill")
  ELSE [s EXCEPT !.filled = @ + e.quantity, !.executions = @ \cup {e.execution}]

\* The part of a fill that belongs to the parent: update_parent_fill.
update_parent_fill(s, e) ==
  IF e.quantity > Remaining(s) THEN Issue(s, "parent_overfill")
  ELSE [s EXCEPT !.filled = @ + e.quantity, !.executions = @ \cup {e.execution}]

apply_fill_bug(s, e) ==
  LET prior   == s.children[e.client]
      updated == update_parent_fill(s, e)
  IN  IF prior.exchange_order_id \notin {NoExchangeId, e.exchange_order_id}
        THEN Issue(s, "fill_order_id_mismatch")
      ELSE IF e.execution \notin updated.executions THEN updated
      ELSE [updated EXCEPT !.children[e.client] =
              [@ EXCEPT !.exchange_order_id = e.exchange_order_id, !.cum = @ + e.cum,
                        !.leaves = e.leaves,
                        !.state = IF e.leaves = 0 THEN "Filled" ELSE "PartiallyFilled"]]

\* A fill is booked when it continues what the state knows of the child and
\* fits what remains of the parent; otherwise it is dropped with an issue.
apply_fill(s, e) ==
  LET prior   == s.children[e.client]
      updated == update_parent_fill(s, e)
  IN  IF prior.exchange_order_id \notin {NoExchangeId, e.exchange_order_id}
        THEN Issue(s, "fill_order_id_mismatch")
      ELSE IF \/ prior.cum + e.quantity # e.cum
              \/ e.cum + e.leaves # prior.requested
        THEN Issue(s, "fill_quantity_mismatch")
      ELSE IF e.execution \in s.executions THEN Issue(s, "duplicate_execution")
      ELSE IF e.execution \notin updated.executions THEN updated
      ELSE [updated EXCEPT !.children[e.client] =
              [@ EXCEPT !.exchange_order_id = e.exchange_order_id, !.cum = e.cum,
                        !.leaves = e.leaves,
                        !.state = IF e.leaves = 0 THEN "Filled" ELSE "PartiallyFilled"]]

\* The explicit completion at the terminal horizon covers the exact residual.
apply_terminal(s, e) ==
  IF s.terminal_applied THEN Issue(s, "duplicate_terminal_completion")
  ELSE IF e.quantity # Remaining(s) THEN Issue(s, "terminal_quantity_mismatch")
  ELSE [s EXCEPT !.filled = ParentQuantity, !.terminal_applied = TRUE,
                 !.terminal_pending = FALSE]

apply_payload(s, e) ==
  CASE e.kind = "TerminalCompletion"  -> apply_terminal(s, e)
    [] e.kind = "ReplaceAcknowledged" -> apply_replace_ack(s, e)
    [] e.kind \in ChildEvents /\ ~knows_client_order_id(s, e.client) -> s
    [] e.kind \in ChildEvents /\ knows_client_order_id(s, e.client) ->
         CASE e.kind = "OrderAcknowledged"  -> apply_order_ack(s, e)
           [] e.kind = "OrderRejected"      -> apply_order_rejection(s, e)
           [] e.kind = "CancelAcknowledged" -> apply_cancel_ack(s, e)
           [] e.kind = "Fill"               -> apply_fill(s, e)

apply_delivered_event(s, event, delivery_time) ==
  IF event.available > delivery_time THEN Issue(s, "causal_delivery_violation")
  ELSE IF event.id \in s.events THEN Issue(s, "duplicate_event")
  ELSE apply_payload([s EXCEPT !.events = @ \cup {event.id}], event.payload)

\* A child whose order ended in the state the failure carries, if it carries one.
Resolved(child, current_state) ==
  IF current_state = NoState THEN child ELSE [child EXCEPT !.state = current_state]

apply_engine_failure_bug(s, command, current_state) ==
  IF ~knows_client_order_id(s, command.client) THEN s
  ELSE CASE command.kind = "Submit" -> apply_order_rejection(s, command)
         [] command.kind = "Cancel" ->
              [s EXCEPT !.children[command.client] =
                          [[@ EXCEPT !.state = current_state] EXCEPT !.cancel_pending = FALSE]]
         [] command.kind = "Replace" ->
              [s EXCEPT !.children[command.client] =
                          [[@ EXCEPT !.state = current_state] EXCEPT !.replace_pending = FALSE],
                        !.children[command.new_client] = NoChild]

\* The failure of a command that no event announces.
apply_engine_failure(s, command, current_state) ==
  IF ~knows_client_order_id(s, command.client) THEN s
  ELSE CASE command.kind = "Submit" -> apply_order_rejection(s, command)
         [] command.kind = "Cancel" ->
              [s EXCEPT !.children[command.client] =
                          [Resolved(@, current_state) EXCEPT !.cancel_pending = FALSE]]
         [] command.kind = "Replace" ->
              [s EXCEPT !.children[command.client] =
                          [Resolved(@, current_state) EXCEPT !.replace_pending = FALSE],
                        !.children[command.new_client] = NoChild]

mark_terminal_completion_pending(s) == [s EXCEPT !.terminal_pending = TRUE]
=============================================================================
