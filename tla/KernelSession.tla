----------------------------- MODULE KernelSession -----------------------------
(***************************************************************************)
(* A session with the simulation kernel: a caller schedules commands,      *)
(* timers and market events at times of its choosing, in any order, and    *)
(* runs the kernel up to a time; the matching engine answers a command     *)
(* with any number of replies, or records a failure.  Calls may throw, and *)
(* so may the run; the caller goes on with the kernel as it is then.       *)
(*                                                                         *)
(* MaxCalls bounds the calls of a session, MaxReplies the replies to one   *)
(* command.                                                                *)
(***************************************************************************)
EXTENDS SimulationKernel

CONSTANTS
  MarketIds,        \* event ids that market events bring with them
  MarketSequences,  \* canonical sequences that market events bring with them
  MaxCalls,
  MaxReplies

ASSUME SessionAssumption ==
  /\ MarketIds \subseteq 1..Limit
  /\ MarketSequences \subseteq 1..Limit
  /\ MaxCalls \in Nat
  /\ MaxReplies \in Nat

VARIABLES
  until,      \* the inclusive time of run_until, NoTime when no run is on
  calls,      \* calls made
  accepted,   \* the numbers of the commands the kernel has accepted
  processed,  \* the commands the matching engine has processed, in order
  lost        \* the commands whose processing could not be scheduled

vars == <<kernel, until, calls, accepted, processed, lost>>

Init ==
  /\ KernelInit
  /\ until = NoTime /\ calls = 0
  /\ accepted = {} /\ processed = <<>> /\ lost = {}

-----------------------------------------------------------------------------

\* run_until has returned, or an exception has ended it.
Idle == \A task \in kernel.queue : task.time > until

MayCall == Idle /\ calls < MaxCalls

\* A call that throws is made, too.
Called ==
  /\ calls' = calls + 1
  /\ until' = NoTime
  /\ UNCHANGED <<processed, lost>>

ScheduleCommand ==
  /\ MayCall
  /\ \E start \in Time : \E timing \in action_timing(start) :
       kernel' = schedule_command(Call(kernel),
                   [kind |-> "Command", number |-> calls + 1], timing)
  /\ accepted' = IF kernel'.thrown THEN accepted ELSE accepted \cup {calls + 1}
  /\ Called

ScheduleTimer ==
  /\ MayCall
  /\ \E time \in Time :
       kernel' = schedule_system_event(Call(kernel), [kind |-> "Timer"], time)
  /\ UNCHANGED accepted
  /\ Called

ScheduleMarketEvent ==
  /\ MayCall
  /\ \E id \in MarketIds, sequence \in MarketSequences, available \in Time :
       kernel' = schedule_market_event(Call(kernel), id, sequence,
                                       [kind |-> "Market"], available)
  /\ UNCHANGED accepted
  /\ Called

RunUntil ==
  /\ Idle
  /\ \E time \in Time :
       /\ \E task \in kernel.queue : task.time <= time
       /\ until' = time
  /\ UNCHANGED <<kernel, calls, accepted, processed, lost>>

\* An exception leaves run_until.
Escape == until' = IF kernel'.thrown THEN NoTime ELSE until

Replies(number) ==
  {[i \in 1..n |-> [kind |-> "Reply", number |-> number, reply |-> i]] : n \in 0..MaxReplies}

DispatchTask ==
  \E task \in kernel.queue :
    /\ IsTop(kernel, task)
    /\ task.time <= until
    /\ \/ /\ task.stage # ExchangeProcess
          /\ kernel' = dispatch(kernel, task)
          /\ lost' = IF kernel'.thrown THEN lost \cup {task.event.payload.number} ELSE lost
          /\ UNCHANGED processed
       \/ /\ task.stage = ExchangeProcess
          /\ \E replies \in Replies(task.event.payload.number), failures \in {<<>>, <<"None">>} :
               kernel' = process_exchange(kernel, task, replies, failures)
          /\ processed' = Append(processed, [number |-> task.event.payload.number,
                                             time |-> task.time])
          /\ UNCHANGED lost
    /\ Escape
    /\ UNCHANGED <<calls, accepted>>

Next ==
  \/ ScheduleCommand
  \/ ScheduleTimer
  \/ ScheduleMarketEvent
  \/ RunUntil
  \/ DispatchTask

Spec == Init /\ [][Next]_vars

-----------------------------------------------------------------------------
(***************************************************************************)
(* What must hold.                                                         *)
(***************************************************************************)

\* The shape of the kernel: counters stay in their width, times in theirs, and
\* no task waits in the processed past (scheduler.cpp refuses to insert one).
TypeOK ==
  /\ until \in Time \cup {NoTime}
  /\ kernel.current_time \in Time \cup {NoTime}
  /\ kernel.next_task_id \in 0..Limit
  /\ kernel.next_event_id \in 0..Limit
  /\ kernel.next_sequence \in 0..Limit
  /\ kernel.event_ids \subseteq 1..Limit
  /\ \A task \in kernel.queue :
       /\ task.id \in 1..Limit
       /\ task.sequence \in 1..Limit
       /\ task.time \in Time
       /\ task.time >= kernel.current_time

Delivered == kernel.delivered_events

\* The observer sees events in the order in which they become available, and
\* none before its time, whatever a caller schedules between two runs.
DeliveredInOrder ==
  /\ \A i, j \in DOMAIN Delivered : i < j => Delivered[i].available <= Delivered[j].available
  /\ \A i \in DOMAIN Delivered : Delivered[i].available <= kernel.current_time

\* No two events of a session share an identifier, although some bring their
\* own and the others are numbered by the kernel, and although the counter may
\* run out in between.
EventIdsUnique ==
  /\ \A i, j \in DOMAIN Delivered : i # j => Delivered[i].id # Delivered[j].id
  /\ \A t, u \in kernel.queue : t # u => t.event.id # u.event.id
  /\ \A t \in kernel.queue, i \in DOMAIN Delivered : t.event.id # Delivered[i].id

\* The replies to a command are observed in the order of their emission: an
\* acknowledgement before the fills that follow it.
RepliesInOrder ==
  \A i, j \in DOMAIN Delivered :
    LET x == Delivered[i].payload
        y == Delivered[j].payload
    IN  (/\ i < j /\ x.kind = "Reply" /\ y.kind = "Reply"
         /\ x.number = y.number) => x.reply < y.reply

\* A command that was accepted is on its way or has been processed, once, unless
\* an exception of the run has announced its loss.
CommandsAccounted ==
  \A number \in accepted :
    Cardinality({task \in kernel.queue :
                   /\ task.stage \in {ExchangeReceive, ExchangeProcess}
                   /\ task.event.payload.number = number})
      + Cardinality({i \in DOMAIN processed : processed[i].number = number})
      + Cardinality({number} \cap lost) = 1

\* The queue holds what it should: tasks that are still due, every accepted
\* command exactly once until it is processed, and no event twice.
QueueSound == TypeOK /\ CommandsAccounted /\ EventIdsUnique

\* Commands that reach the matching engine at the same time are processed in
\* the order in which they were scheduled.
FirstInFirstOut ==
  \A i, j \in DOMAIN processed :
    i < j => \/ processed[i].time < processed[j].time
             \/ /\ processed[i].time = processed[j].time
                /\ processed[i].number < processed[j].number

\* What happens is observed in the order of its times, its causes and its calls.
DeliveryOrdered == DeliveredInOrder /\ RepliesInOrder /\ FirstInFirstOut
=============================================================================
