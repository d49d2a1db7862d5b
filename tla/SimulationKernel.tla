--------------------------- MODULE SimulationKernel ---------------------------
(***************************************************************************)
(* The deterministic simulation kernel of cpp/src/simulation: a virtual-   *)
(* time scheduler, the latency path of commands and market events, and the *)
(* dispatch of tasks to the exchange and to the observer.                  *)
(*                                                                         *)
(* The kernel object is one record, and each member function an operator   *)
(* from that record to the next.  An exception escapes with whatever the   *)
(* function has changed so far: such a result has thrown = TRUE, and the   *)
(* kernel stays usable, as the C++ object does.                            *)
(*                                                                         *)
(* A timestamp is a number of ticks.  The seven latency ranges are merged  *)
(* where nothing happens between them: decision processing with outbound   *)
(* network, acknowledgement network with acknowledgement processing, and   *)
(* the two of a market event.  A draw from a range is a choice.            *)
(*                                                                         *)
(* Abstracted: trace hashes, the audit list of received commands, clock    *)
(* domains (one run uses one), and event validation.                       *)
(***************************************************************************)
EXTENDS Integers, Sequences, FiniteSets, SequencesExt

CONSTANTS
  OutboundDelays,    \* decision processing plus outbound network
  ProcessingDelays,  \* exchange processing
  ReplyDelays,       \* acknowledgement network plus processing
  TimeLimit,         \* the largest timestamp (2^63 - 1)
  Limit              \* the largest value of a counter (2^64 - 1)

ASSUME KernelAssumption ==
  /\ OutboundDelays \subseteq Nat
  /\ ProcessingDelays \subseteq Nat
  /\ ReplyDelays \subseteq Nat
  /\ TimeLimit \in Nat
  /\ Limit \in Nat \ {0}

VARIABLE kernel  \* the SimulationKernel object

\* The numbers of KernelStage.
ExchangeReceive   == 10
ExchangeProcess   == 20
ObserverAvailable == 40
System            == 50

Time     == 0..TimeLimit
NoTime   == -1
Timing   == [receive : Time, process : Time, available : Time]
NoTiming == [receive |-> NoTime, process |-> NoTime, available |-> NoTime]

\* The paths of an action whose decision starts at a time.  A sum beyond the
\* last timestamp throws before anything has changed: no path.
action_timing(start) ==
  {timing \in
     {[receive |-> start + o, process |-> start + o + p, available |-> start + o + p + r] :
        o \in OutboundDelays, p \in ProcessingDelays, r \in ReplyDelays} :
     timing.available <= TimeLimit}

-----------------------------------------------------------------------------
(***************************************************************************)
(* The scheduler.                                                          *)
(***************************************************************************)

scheduled_task_less_bug(l, r) ==
  \/ l.time < r.time
  \/ l.time = r.time /\ l.stage < r.stage
  \/ l.time = r.time /\ l.stage = r.stage /\ l.id > r.id

\* The total order of tasks: time, stage, canonical sequence, task id.
scheduled_task_less(l, r) ==
  \/ l.time < r.time
  \/ l.time = r.time /\ l.stage < r.stage
  \/ l.time = r.time /\ l.stage = r.stage /\ l.sequence < r.sequence
  \/ /\ l.time = r.time /\ l.stage = r.stage /\ l.sequence = r.sequence
     /\ l.id < r.id

\* queue_.top().
IsTop(k, task) ==
  /\ task \in k.queue
  /\ \A other \in k.queue \ {task} : scheduled_task_less(task, other)

Throw(k) == [k EXCEPT !.thrown = TRUE]

\* The value of a counter after n has been given out: 0 is exhausted.
After(n) == IF n = Limit THEN 0 ELSE n + 1

\* schedule: refuses sequence 0, an exhausted counter and the past.
schedule(k, time, stage, sequence, event, timing) ==
  IF k.thrown THEN k
  ELSE IF sequence = 0 \/ k.next_task_id = 0 \/ time < k.current_time THEN Throw(k)
  ELSE [k EXCEPT !.next_task_id = After(@),
                 !.queue = @ \cup {[id |-> k.next_task_id, time |-> time,
                    stage |-> stage, sequence |-> sequence,
                    event |-> event, timing |-> timing]}]

pop_next_bug(k, task) ==
  [k EXCEPT !.current_time = task.time, !.thrown = FALSE]

pop_next(k, task) ==
  [k EXCEPT !.queue = @ \ {task}, !.current_time = task.time, !.thrown = FALSE]

-----------------------------------------------------------------------------
(***************************************************************************)
(* Identifiers of events.                                                  *)
(***************************************************************************)

\* The identifiers allocate_event_id may still find.
FreeEventIds(k) ==
  IF k.next_event_id = 0 THEN {}
  ELSE {n \in k.next_event_id..Limit : n \notin k.event_ids}

\* generated_header, with the task its caller makes of the event: a canonical
\* sequence, then an event id, then a place in the queue.
Generate(k, payload, available, stage, timing) ==
  LET numbered == [k EXCEPT !.next_sequence = After(@)]
      free     == FreeEventIds(k)
  IN  IF k.thrown THEN k
      ELSE IF k.next_sequence = 0 THEN Throw(k)
      ELSE IF free = {}
        THEN Throw([numbered EXCEPT !.next_event_id = IF @ = 0 THEN 0 ELSE Limit])
      ELSE schedule([numbered EXCEPT !.event_ids = @ \cup {Min(free)},
                                     !.next_event_id = After(Min(free))],
                    available, stage, k.next_sequence,
                    [id |-> Min(free), payload |-> payload, available |-> available],
                    timing)

\* An event with an identifier and a canonical sequence of its own.
register_existing_event(k, id, sequence) ==
  IF id \in k.event_ids THEN Throw(k)
  ELSE [k EXCEPT !.event_ids = @ \cup {id},
                 !.next_event_id = IF id >= @ THEN After(id) ELSE @,
                 !.next_sequence = IF sequence >= @ THEN After(sequence) ELSE @]

-----------------------------------------------------------------------------
(***************************************************************************)
(* The calls of the kernel's users, and the dispatch of a task.            *)
(***************************************************************************)

Call(k) == [k EXCEPT !.thrown = FALSE]

\* schedule_submit, schedule_cancel and schedule_replace.
schedule_command(k, command, timing) ==
  Generate(k, command, timing.receive, ExchangeReceive, timing)

\* schedule_timer and schedule_terminal_completion.
schedule_system_event(k, payload, time) ==
  Generate(k, payload, time, System, NoTiming)

\* schedule_market_event and schedule_market_event_with_timing.
schedule_market_event(k, id, sequence, payload, available) ==
  schedule(register_existing_event(k, id, sequence),
           available, ObserverAvailable, sequence,
           [id |-> id, payload |-> payload, available |-> available], NoTiming)

\* dispatch of a task that does not reach the exchange's matching engine.
dispatch(k, task) ==
  IF task.stage = ExchangeReceive
  THEN schedule(pop_next(k, task), task.timing.process, ExchangeProcess,
                task.sequence, task.event, task.timing)
  ELSE [pop_next(k, task) EXCEPT !.delivered_events = Append(@, task.event)]

\* emit_event for one reply of the engine after the other: the kernel after the
\* first i of them.  All become available at the same time.
Emissions(k, replies, available) ==
  LET emitted[i \in 0..Len(replies)] ==
        IF i = 0 THEN k
        ELSE Generate(emitted[i - 1], replies[i], available, ObserverAvailable, NoTiming)
  IN  emitted

\* process_exchange: the replies of the engine are emitted in their order; then
\* a failure is recorded.
process_exchange(k, task, replies, failures) ==
  LET emitted == Emissions(pop_next(k, task), replies, task.timing.available)[Len(replies)]
  IN  IF emitted.thrown THEN emitted
      ELSE [emitted EXCEPT !.failures = @ \o [i \in DOMAIN failures |->
              [command |-> task.event.payload, available |-> task.timing.available,
               current_state |-> failures[i]]]]

KernelInit ==
  kernel = [queue |-> {}, current_time |-> NoTime, next_task_id |-> 1,
            next_event_id |-> 1, next_sequence |-> 1, event_ids |-> {},
            delivered_events |-> <<>>, failures |-> <<>>, thrown |-> FALSE]
=============================================================================
