-------------------------- MODULE KernelSession_proofs --------------------------
(***************************************************************************)
(* Proofs about KernelSession, for all latencies, limits of time and of    *)
(* the counters, market events and numbers of calls and replies.           *)
(*                                                                         *)
(* A member function of the kernel either puts one task into the queue or  *)
(* throws, and process_exchange repeats the former once for each reply.    *)
(* KernelSound is kept by each of them; the rest of the invariant relates  *)
(* the queue to the history of the session: SessionSound follows every     *)
(* command and every reply, and FifoSound the order of the commands for as *)
(* long as the counter of canonical sequences has not been exhausted.      *)
(***************************************************************************)
EXTENDS KernelSession, SumTheorems

-----------------------------------------------------------------------------
(***************************************************************************)
(* The shape of the kernel.                                                *)
(***************************************************************************)

CommandPayloads == [kind : {"Command"}, number : Nat]
ReplyPayloads   == [kind : {"Reply"}, number : Nat, reply : Nat]
OtherPayloads   == [kind : {"Timer", "Market"}]
Payloads        == CommandPayloads \cup ReplyPayloads \cup OtherPayloads

Events  == [id : 1..Limit, payload : Payloads, available : Time]
Stages  == {ExchangeReceive, ExchangeProcess, ObserverAvailable, System}
Tasks   == [id : 1..Limit, time : Time, stage : Stages, sequence : 1..Limit,
            event : Events, timing : Timing \cup {NoTiming}]
Records == [command : Payloads, available : Time, current_state : {"None"}]

Kernels == [queue : SUBSET Tasks, current_time : Time \cup {NoTime},
            next_task_id : 0..Limit, next_event_id : 0..Limit,
            next_sequence : 0..Limit, event_ids : SUBSET (1..Limit),
            delivered_events : Seq(Events), failures : Seq(Records),
            thrown : BOOLEAN]

IsCommand(t) == t.stage \in {ExchangeReceive, ExchangeProcess}

\* A command waits for the times of its timing, any other event for its own.
TaskSound(t) ==
  /\ IsCommand(t) =>
       /\ t.event.payload \in CommandPayloads
       /\ t.timing \in Timing
       /\ t.timing.receive <= t.timing.process
       /\ t.timing.process <= t.timing.available
       /\ t.time = IF t.stage = ExchangeReceive THEN t.timing.receive ELSE t.timing.process
  /\ ~ IsCommand(t) =>
       /\ t.event.payload \in ReplyPayloads \cup OtherPayloads
       /\ t.time = t.event.available

\* Nothing is due in the past, and no event that is waiting or has been
\* delivered shares its identifier with another or is unknown to the kernel.
QueueDue(k)  == \A t \in k.queue : TaskSound(t) /\ t.time >= k.current_time
IdsKnown(k)  == /\ \A t \in k.queue : t.event.id \in k.event_ids
                /\ \A i \in DOMAIN k.delivered_events : k.delivered_events[i].id \in k.event_ids
IdsUnique(k) ==
  /\ \A t, u \in k.queue : t # u => t.event.id # u.event.id
  /\ \A i, j \in DOMAIN k.delivered_events :
       i # j => k.delivered_events[i].id # k.delivered_events[j].id
  /\ \A t \in k.queue, i \in DOMAIN k.delivered_events :
       t.event.id # k.delivered_events[i].id
InOrder(k) ==
  /\ \A i, j \in DOMAIN k.delivered_events :
       i < j => k.delivered_events[i].available <= k.delivered_events[j].available
  /\ \A i \in DOMAIN k.delivered_events :
       k.delivered_events[i].available <= k.current_time

KernelSound(k) == k \in Kernels /\ QueueDue(k) /\ IdsKnown(k) /\ IdsUnique(k) /\ InOrder(k)

-----------------------------------------------------------------------------
(***************************************************************************)
(* What a member function does to the kernel.                              *)
(***************************************************************************)

\* What q, the kernel after a function, has kept of k.  A counter of canonical
\* sequences that is exhausted may stay so or be set back (Revived).
Kept(k, q) ==
  /\ q.delivered_events = k.delivered_events
  /\ q.current_time = k.current_time
  /\ k.event_ids \subseteq q.event_ids

Advanced(k, q) ==
  \/ q.next_sequence = 0
  \/ k.next_sequence # 0 /\ k.next_sequence <= q.next_sequence

\* A task for a new event has been put into the queue.
Puts(k, q, task) ==
  /\ task \in Tasks /\ TaskSound(task)
  /\ task.time >= k.current_time
  /\ task.event.id \in q.event_ids \ k.event_ids
  /\ q.queue = k.queue \cup {task}

\* Putting in a task, or throwing, leaves the kernel sound.
LEMMA PutsSound ==
  ASSUME NEW k, KernelSound(k), NEW q \in Kernels, Kept(k, q),
         q.queue = k.queue \/ \E task : Puts(k, q, task)
  PROVE  KernelSound(q)
<1>1. QueueDue(q) /\ InOrder(q)
  BY DEF KernelSound, QueueDue, InOrder, Kept, Puts
<1>2. IdsKnown(q)
  BY DEF KernelSound, IdsKnown, Kept, Puts
<1>3. IdsUnique(q)
  BY DEF KernelSound, IdsKnown, IdsUnique, Kept, Puts
<1> QED BY <1>1, <1>2, <1>3 DEF KernelSound

\* The value of a counter after it has given out n.
LEMMA AfterType ==
  ASSUME NEW n \in 1..Limit
  PROVE  After(n) \in 0..Limit /\ (After(n) = 0 \/ After(n) = n + 1)
BY KernelAssumption DEF After

\* The task that schedule makes.
TaskFor(k, time, stage, sequence, event, timing) ==
  [id |-> k.next_task_id, time |-> time, stage |-> stage, sequence |-> sequence,
   event |-> event, timing |-> timing]

\* schedule either throws and changes nothing else, or puts the task in.
LEMMA ScheduleOutcome ==
  ASSUME NEW k \in Kernels, NEW time \in Time, NEW stage \in Stages,
         NEW sequence \in 0..Limit, NEW event \in Events,
         NEW timing \in Timing \cup {NoTiming},
         NEW q, q = schedule(k, time, stage, sequence, event, timing)
  PROVE  /\ q \in Kernels /\ Kept(k, q)
         /\ q.next_sequence = k.next_sequence /\ q.event_ids = k.event_ids
         /\ k.thrown => q = k
         /\ q.thrown => q.queue = k.queue
         /\ ~ q.thrown =>
              /\ sequence # 0 /\ time >= k.current_time
              /\ TaskFor(k, time, stage, sequence, event, timing) \in Tasks
              /\ q.queue = k.queue \cup {TaskFor(k, time, stage, sequence, event, timing)}
<1> DEFINE task == TaskFor(k, time, stage, sequence, event, timing)
<1>0. Limit \in Nat \ {0} /\ TimeLimit \in Nat
  BY KernelAssumption
<1>1. CASE k.thrown
  BY <1>1 DEF schedule, Kept
<1>2. CASE ~ k.thrown /\ (sequence = 0 \/ k.next_task_id = 0 \/ time < k.current_time)
  <2>1. q = [k EXCEPT !.thrown = TRUE]
    BY <1>2 DEF schedule, Throw
  <2> QED BY <2>1 DEF Kept, Kernels
<1>3. CASE ~ k.thrown /\ ~ (sequence = 0 \/ k.next_task_id = 0 \/ time < k.current_time)
  <2>1. k.next_task_id \in 1..Limit /\ After(k.next_task_id) \in 0..Limit
    BY <1>3, <1>0, AfterType DEF Kernels
  <2>2. task \in Tasks
    BY <2>1, <1>3, <1>0 DEF Tasks, TaskFor
  <2>3. q = [k EXCEPT !.next_task_id = After(k.next_task_id), !.queue = k.queue \cup {task}]
    BY <1>3 DEF schedule, TaskFor
  <2>4. time >= k.current_time
    BY <1>3, <1>0 DEF Kernels, Time, NoTime
  <2> HIDE DEF task
  <2>5. /\ q.next_task_id = After(k.next_task_id) /\ q.queue = k.queue \cup {task}
        /\ q.delivered_events = k.delivered_events /\ q.current_time = k.current_time
        /\ q.event_ids = k.event_ids /\ q.next_sequence = k.next_sequence
        /\ q.thrown = k.thrown
    BY <2>3 DEF Kernels
  <2>6. q \in Kernels
    BY <2>1, <2>2, <2>3 DEF Kernels
  <2> QED BY <1>3, <2>2, <2>4, <2>5, <2>6 DEF Kept, task
<1> QED BY <1>1, <1>2, <1>3

\* An identifier that FreeEventIds offers is one that no event has.
LEMMA FreeIdIsFree ==
  ASSUME NEW k \in Kernels, FreeEventIds(k) # {}
  PROVE  Min(FreeEventIds(k)) \in (1..Limit) \ k.event_ids
<1>0. Limit \in Nat
  BY KernelAssumption
<1>1. FreeEventIds(k) \in SUBSET Nat /\ FreeEventIds(k) \subseteq (1..Limit) \ k.event_ids
  BY <1>0 DEF FreeEventIds, Kernels
<1>2. PICK n \in FreeEventIds(k) : \A m \in FreeEventIds(k) : n <= m
  BY <1>1, LeastNatural
<1>3. Min(FreeEventIds(k)) \in FreeEventIds(k)
  BY <1>2 DEF Min
<1> QED BY <1>1, <1>3

\* The task that Generate makes of an event with identifier id.
NewTask(k, id, payload, available, stage, timing) ==
  TaskFor(k, available, stage, k.next_sequence,
          [id |-> id, payload |-> payload, available |-> available], timing)

Generated(k, q, payload, available, stage, timing) ==
  /\ ~ k.thrown
  /\ k.next_sequence # 0 /\ q.next_sequence = After(k.next_sequence)
  /\ available >= k.current_time
  /\ \E id \in 1..Limit :
       /\ id \in q.event_ids \ k.event_ids
       /\ NewTask(k, id, payload, available, stage, timing) \in Tasks
       /\ q.queue = k.queue \cup {NewTask(k, id, payload, available, stage, timing)}

\* Generate either throws, and then puts nothing into the queue, or puts in a
\* task for an event of its own, with the next canonical sequence.
LEMMA GenerateOutcome ==
  ASSUME NEW k \in Kernels, NEW payload \in Payloads, NEW available \in Time,
         NEW stage \in Stages, NEW timing \in Timing \cup {NoTiming},
         NEW q, q = Generate(k, payload, available, stage, timing)
  PROVE  /\ q \in Kernels /\ Kept(k, q) /\ Advanced(k, q)
         /\ k.thrown => q = k
         /\ q.thrown => q.queue = k.queue
         /\ ~ q.thrown => Generated(k, q, payload, available, stage, timing)
<1>0. Limit \in Nat \ {0} /\ TimeLimit \in Nat
  BY KernelAssumption
<1>1. CASE k.thrown
  BY <1>0, <1>1 DEF Generate, Kept, Advanced, Kernels
<1>2. CASE ~ k.thrown /\ k.next_sequence = 0
  <2>1. q = [k EXCEPT !.thrown = TRUE]
    BY <1>2 DEF Generate, Throw
  <2> QED BY <1>2, <2>1 DEF Kept, Advanced, Kernels
<1>3. CASE ~ k.thrown /\ k.next_sequence # 0 /\ FreeEventIds(k) = {}
  <2>1. PICK n \in 0..Limit :
          q = [k EXCEPT !.next_sequence = After(k.next_sequence),
                        !.next_event_id = n, !.thrown = TRUE]
    <3>1. q = Throw([[k EXCEPT !.next_sequence = After(@)]
                       EXCEPT !.next_event_id = IF @ = 0 THEN 0 ELSE Limit])
      BY <1>3 DEF Generate
    <3>2. q = [k EXCEPT !.next_sequence = After(k.next_sequence),
                        !.next_event_id = IF k.next_event_id = 0 THEN 0 ELSE Limit,
                        !.thrown = TRUE]
      BY <3>1 DEF Throw, Kernels
    <3>3. (IF k.next_event_id = 0 THEN 0 ELSE Limit) \in 0..Limit
      BY <1>0
    <3> QED BY <3>2, <3>3
  <2>2. k.next_sequence \in 1..Limit
    BY <1>0, <1>3 DEF Kernels
  <2>3. After(k.next_sequence) \in 0..Limit /\ (After(k.next_sequence) = 0 \/ After(k.next_sequence) = k.next_sequence + 1)
    BY <2>2, AfterType
  <2>4. q \in Kernels
    BY <2>1, <2>3 DEF Kernels
  <2>5. /\ q.next_sequence = After(k.next_sequence) /\ q.thrown /\ q.queue = k.queue
        /\ q.delivered_events = k.delivered_events /\ q.current_time = k.current_time
        /\ q.event_ids = k.event_ids
    BY <2>1 DEF Kernels
  <2>6. Advanced(k, q)
    BY <1>3, <2>2, <2>3, <2>5, <1>0 DEF Advanced
  <2> QED BY <1>3, <2>4, <2>5, <2>6 DEF Kept
<1>4. CASE ~ k.thrown /\ k.next_sequence # 0 /\ FreeEventIds(k) # {}
  <2>1. PICK id : id = Min(FreeEventIds(k))
    OBVIOUS
  <2>2. id \in (1..Limit) \ k.event_ids
    BY <1>4, <2>1, FreeIdIsFree
  <2>3. PICK event : event = [id |-> id, payload |-> payload, available |-> available]
    OBVIOUS
  <2>4. event \in Events
    BY <2>2, <2>3 DEF Events
  <2>5. PICK m : m = [k EXCEPT !.next_sequence = After(k.next_sequence),
                               !.event_ids = k.event_ids \cup {id},
                               !.next_event_id = After(id)]
    OBVIOUS
  <2>6. k.next_sequence \in 1..Limit /\ k.event_ids \subseteq 1..Limit
    BY <1>0, <1>4 DEF Kernels
  <2>7. /\ After(k.next_sequence) \in 0..Limit /\ After(id) \in 0..Limit
        /\ After(k.next_sequence) = 0 \/ After(k.next_sequence) = k.next_sequence + 1
    BY <2>2, <2>6, AfterType
  <2>8. m \in Kernels
    BY <2>2, <2>5, <2>6, <2>7 DEF Kernels
  <2>9. /\ m.next_sequence = After(k.next_sequence) /\ m.event_ids = k.event_ids \cup {id}
        /\ m.queue = k.queue /\ m.next_task_id = k.next_task_id /\ m.thrown = k.thrown
        /\ m.delivered_events = k.delivered_events /\ m.current_time = k.current_time
    BY <2>5 DEF Kernels
  <2>10. q = schedule(m, available, stage, k.next_sequence, event, timing)
    <3>1. m = [[k EXCEPT !.next_sequence = After(@)]
                 EXCEPT !.event_ids = @ \cup {id}, !.next_event_id = After(id)]
      BY <2>5 DEF Kernels
    <3> QED BY <1>4, <2>1, <2>3, <3>1 DEF Generate
  <2>11. /\ q \in Kernels /\ Kept(m, q)
         /\ q.next_sequence = m.next_sequence /\ q.event_ids = m.event_ids
         /\ q.thrown => q.queue = m.queue
         /\ ~ q.thrown =>
              /\ available >= m.current_time
              /\ TaskFor(m, available, stage, k.next_sequence, event, timing) \in Tasks
              /\ q.queue = m.queue \cup {TaskFor(m, available, stage, k.next_sequence, event, timing)}
    <3>1. k.next_sequence \in 0..Limit
      BY <2>6, <1>0
    <3> QED BY <2>4, <2>8, <2>10, <3>1, ScheduleOutcome
  <2>12. TaskFor(m, available, stage, k.next_sequence, event, timing)
          = TaskFor(k, available, stage, k.next_sequence, event, timing)
    BY <2>9 DEF TaskFor
  <2>13. Kept(k, q) /\ Advanced(k, q)
    BY <1>0, <1>4, <2>6, <2>7, <2>9, <2>11 DEF Kept, Advanced
  <2>14. id \in 1..Limit /\ id \in q.event_ids \ k.event_ids
    BY <2>2, <2>9, <2>11
  <2>15. ASSUME ~ q.thrown PROVE Generated(k, q, payload, available, stage, timing)
    <3>1. TaskFor(k, available, stage, k.next_sequence, event, timing)
            = NewTask(k, id, payload, available, stage, timing)
      BY <2>3 DEF NewTask
    <3> QED BY <1>4, <2>9, <2>11, <2>12, <2>14, <2>15, <3>1 DEF Generated
  <2>16. q.thrown => q.queue = k.queue
    BY <2>9, <2>11
  <2> QED BY <1>4, <2>11, <2>13, <2>15, <2>16
<1> QED BY <1>1, <1>2, <1>3, <1>4

-----------------------------------------------------------------------------
(***************************************************************************)
(* Taking the first task, and dispatching it.                              *)
(***************************************************************************)

\* A delivered event became available at some time.
LEMMA DeliveredType ==
  ASSUME NEW k \in Kernels
  PROVE  \A i \in DOMAIN k.delivered_events : k.delivered_events[i].available \in Time
<1>1. PICK d : d = k.delivered_events
  OBVIOUS
<1>2. d \in Seq(Events)
  BY <1>1 DEF Kernels
<1>3. \A i \in DOMAIN d : d[i] \in Events
  BY <1>2
<1> QED BY <1>1, <1>3 DEF Events

\* Popping the first task moves the time to it and no further than any other.
LEMMA PopSound ==
  ASSUME NEW k, KernelSound(k), NEW task, IsTop(k, task),
         NEW q, q = pop_next(k, task)
  PROVE  /\ KernelSound(q) /\ task \in Tasks /\ TaskSound(task)
         /\ q.queue = k.queue \ {task} /\ q.current_time = task.time
         /\ q.delivered_events = k.delivered_events /\ q.event_ids = k.event_ids
         /\ q.next_sequence = k.next_sequence /\ ~ q.thrown
         /\ task.time >= k.current_time
<1>0. Limit \in Nat \ {0} /\ TimeLimit \in Nat
  BY KernelAssumption
<1>1. k \in Kernels /\ task \in k.queue /\ task \in Tasks
  BY DEF KernelSound, IsTop, Kernels
<1>2. TaskSound(task) /\ task.time >= k.current_time
  BY <1>1 DEF KernelSound, QueueDue
<1>3. task.time \in Time
  BY <1>1 DEF Tasks
<1>4. q = [k EXCEPT !.queue = k.queue \ {task}, !.current_time = task.time, !.thrown = FALSE]
  BY DEF pop_next
<1>5. /\ q.queue = k.queue \ {task} /\ q.current_time = task.time
      /\ q.delivered_events = k.delivered_events /\ q.event_ids = k.event_ids
      /\ q.next_sequence = k.next_sequence /\ ~ q.thrown
  BY <1>1, <1>4 DEF Kernels
<1>6. q \in Kernels
  BY <1>1, <1>3, <1>4 DEF Kernels
<1>7. \A other \in k.queue \ {task} : other.time >= task.time
  <2>1. \A other \in k.queue \ {task} : other.time \in Time /\ scheduled_task_less(task, other)
    BY <1>1 DEF IsTop, Kernels, Tasks
  <2> QED BY <1>0, <1>3, <2>1 DEF scheduled_task_less, Time
<1>8. QueueDue(q)
  BY <1>5, <1>7 DEF KernelSound, QueueDue
<1>9. InOrder(q)
  <2>1. \A i \in DOMAIN k.delivered_events : k.delivered_events[i].available \in Time
    BY <1>1, DeliveredType
  <2>2. k.current_time \in Time \cup {NoTime}
    BY <1>1 DEF Kernels
  <2>3. \A i \in DOMAIN k.delivered_events : k.delivered_events[i].available <= task.time
    BY <1>0, <1>2, <1>3, <2>1, <2>2 DEF KernelSound, InOrder, Time, NoTime
  <2> QED BY <1>5, <2>3 DEF KernelSound, InOrder
<1>10. IdsKnown(q) /\ IdsUnique(q)
  BY <1>5 DEF KernelSound, IdsKnown, IdsUnique
<1> QED BY <1>1, <1>2, <1>5, <1>6, <1>8, <1>9, <1>10 DEF KernelSound

\* The task that replaces a received command: the same command, to be processed.
WaitsOn(queue, after, task) ==
  \E moved \in Tasks :
    /\ moved.stage = ExchangeProcess /\ moved.sequence = task.sequence
    /\ moved.event = task.event /\ moved.timing = task.timing
    /\ after = (queue \ {task}) \cup {moved}

\* A command that is received waits for its processing, with the same event and
\* the same sequence, unless the task cannot be made: then it is gone.
LEMMA ReceiveOutcome ==
  ASSUME NEW k, KernelSound(k), NEW task, IsTop(k, task), task.stage = ExchangeReceive,
         NEW q, q = dispatch(k, task)
  PROVE  /\ KernelSound(q) /\ q.current_time = task.time
         /\ q.delivered_events = k.delivered_events /\ q.next_sequence = k.next_sequence
         /\ q.thrown => q.queue = k.queue \ {task}
         /\ ~ q.thrown => WaitsOn(k.queue, q.queue, task)
<1> DEFINE p == pop_next(k, task)
<1>0. Limit \in Nat \ {0} /\ TimeLimit \in Nat
  BY KernelAssumption
<1>1. /\ KernelSound(p) /\ task \in Tasks /\ TaskSound(task)
      /\ p.queue = k.queue \ {task} /\ p.current_time = task.time
      /\ p.delivered_events = k.delivered_events /\ p.event_ids = k.event_ids
      /\ p.next_sequence = k.next_sequence /\ ~ p.thrown
  BY PopSound
<1>2. q = schedule(p, task.timing.process, ExchangeProcess, task.sequence, task.event, task.timing)
  BY DEF dispatch
<1>3. /\ task.timing \in Timing /\ task.timing.process \in Time
      /\ task.sequence \in 0..Limit /\ task.event \in Events
  <2>1. task.timing \in Timing
    BY <1>1 DEF TaskSound, IsCommand
  <2> QED BY <1>0, <1>1, <2>1 DEF Timing, Tasks
<1>4. ExchangeProcess \in Stages /\ p \in Kernels
  BY <1>1 DEF Stages, KernelSound
<1> DEFINE moved == TaskFor(p, task.timing.process, ExchangeProcess, task.sequence,
                            task.event, task.timing)
<1>5. /\ q \in Kernels /\ Kept(p, q)
      /\ q.next_sequence = p.next_sequence /\ q.event_ids = p.event_ids
      /\ q.thrown => q.queue = p.queue
      /\ ~ q.thrown =>
           /\ task.timing.process >= p.current_time
           /\ moved \in Tasks
           /\ q.queue = p.queue \cup {moved}
  <2> HIDE DEF p
  <2> QED BY <1>2, <1>3, <1>4, ScheduleOutcome
<1>6. CASE q.thrown
  <2>1. KernelSound(q)
    <3> HIDE DEF p, moved
    <3> QED BY <1>1, <1>5, <1>6, PutsSound
  <2> QED BY <1>1, <1>5, <1>6, <2>1 DEF Kept
<1>7. CASE ~ q.thrown
  <2>1. /\ moved.time = task.timing.process /\ moved.stage = ExchangeProcess
        /\ moved.event = task.event /\ moved.timing = task.timing
        /\ moved.sequence = task.sequence
    BY DEF TaskFor
  <2>4. TaskSound(moved)
    <3> HIDE DEF moved
    <3> QED BY <1>1, <2>1 DEF TaskSound, IsCommand, ExchangeReceive, ExchangeProcess
  <2> HIDE DEF p, moved
  <2>5. QueueDue(q) /\ InOrder(q)
    BY <1>1, <1>5, <1>7, <2>1, <2>4 DEF KernelSound, QueueDue, InOrder, Kept
  <2>6. task \in k.queue /\ KernelSound(k)
    BY DEF IsTop
  <2>7. IdsKnown(q)
    BY <1>1, <1>5, <1>7, <2>1, <2>6 DEF KernelSound, IdsKnown, Kept
  <2>8. IdsUnique(q)
    BY <1>1, <1>5, <1>7, <2>1, <2>6 DEF KernelSound, IdsUnique, Kept
  <2>9. KernelSound(q)
    BY <1>5, <2>5, <2>7, <2>8 DEF KernelSound
  <2>10. WaitsOn(k.queue, q.queue, task)
    BY <1>1, <1>5, <1>7, <2>1 DEF WaitsOn
  <2> QED BY <1>1, <1>5, <1>7, <2>9, <2>10 DEF Kept
<1> QED BY <1>6, <1>7

\* Any other event that is dispatched has become available, and is delivered.
LEMMA DeliverOutcome ==
  ASSUME NEW k, KernelSound(k), NEW task, IsTop(k, task), ~ IsCommand(task),
         NEW q, q = dispatch(k, task)
  PROVE  /\ KernelSound(q) /\ q.current_time = task.time /\ ~ q.thrown
         /\ q.next_sequence = k.next_sequence
         /\ q.queue = k.queue \ {task}
         /\ q.delivered_events = Append(k.delivered_events, task.event)
<1> DEFINE p == pop_next(k, task)
<1>0. Limit \in Nat \ {0} /\ TimeLimit \in Nat
  BY KernelAssumption
<1>1. /\ KernelSound(p) /\ task \in Tasks /\ TaskSound(task)
      /\ p.queue = k.queue \ {task} /\ p.current_time = task.time
      /\ p.delivered_events = k.delivered_events /\ p.event_ids = k.event_ids
      /\ p.next_sequence = k.next_sequence /\ ~ p.thrown
  BY PopSound
<1>2. task \in k.queue /\ task.event \in Events /\ task.event.available = task.time
  BY <1>1 DEF IsTop, Tasks, TaskSound
<1>3. q = [p EXCEPT !.delivered_events = Append(@, task.event)]
  BY DEF dispatch, IsCommand
<1> HIDE DEF p
<1>4. p \in Kernels /\ p.delivered_events \in Seq(Events)
  BY <1>1 DEF KernelSound, Kernels
<1>5. /\ q.queue = p.queue /\ q.current_time = p.current_time /\ q.event_ids = p.event_ids
      /\ q.next_sequence = p.next_sequence /\ q.thrown = p.thrown
      /\ q.delivered_events = Append(p.delivered_events, task.event)
  BY <1>3, <1>4 DEF Kernels
<1>6. q \in Kernels
  <2>1. Append(p.delivered_events, task.event) \in Seq(Events)
    BY <1>2, <1>4
  <2>2. q = [p EXCEPT !.delivered_events = Append(p.delivered_events, task.event)]
    BY <1>3
  <2> QED BY <1>4, <2>1, <2>2 DEF Kernels
<1>7. PICK d, e : d = p.delivered_events /\ e = Append(d, task.event)
  OBVIOUS
<1>8. /\ DOMAIN d = 1..Len(d) /\ Len(d) \in Nat /\ DOMAIN e = 1..(Len(d) + 1)
      /\ e[Len(d) + 1] = task.event /\ \A i \in DOMAIN d : e[i] = d[i]
  BY <1>2, <1>4, <1>7
<1>9. QueueDue(q)
  BY <1>1, <1>5 DEF KernelSound, QueueDue
<1>10. InOrder(q)
  <2>1. \A i \in DOMAIN d : d[i].available <= task.time /\ d[i].available \in Time
    <3>1. \A i \in DOMAIN d : d[i].available \in Time
      BY <1>4, <1>7, DeliveredType
    <3>2. \A i \in DOMAIN d : d[i].available <= task.time
      BY <1>1, <1>7 DEF KernelSound, InOrder
    <3> QED BY <3>1, <3>2
  <2>2. \A i, j \in DOMAIN d : i < j => d[i].available <= d[j].available
    BY <1>1, <1>7 DEF KernelSound, InOrder
  <2>3. task.time \in Time
    BY <1>1 DEF Tasks
  <2>4. \A i, j \in DOMAIN e : i < j => e[i].available <= e[j].available
    BY <1>0, <1>2, <1>8, <2>1, <2>2
  <2>5. \A i \in DOMAIN e : e[i].available <= task.time
    BY <1>0, <1>2, <1>8, <2>1, <2>3 DEF Time
  <2> QED BY <1>1, <1>5, <1>7, <2>4, <2>5 DEF InOrder
<1>11. \A t \in p.queue : t.event.id # task.event.id
  BY <1>1, <1>2 DEF KernelSound, IdsUnique
<1>12. \A i \in DOMAIN d : d[i].id # task.event.id
  BY <1>1, <1>2, <1>7 DEF KernelSound, IdsUnique
<1>13. IdsKnown(q)
  <2>1. task.event.id \in p.event_ids
    BY <1>1, <1>2 DEF KernelSound, IdsKnown
  <2>2. \A i \in DOMAIN e : e[i].id \in p.event_ids
    BY <1>1, <1>7, <1>8, <2>1 DEF KernelSound, IdsKnown
  <2> QED BY <1>1, <1>5, <1>7, <2>2 DEF KernelSound, IdsKnown
<1>14. IdsUnique(q)
  <2>1. \A i, j \in DOMAIN e : i # j => e[i].id # e[j].id
    <3>1. \A i, j \in DOMAIN d : i # j => d[i].id # d[j].id
      BY <1>1, <1>7 DEF KernelSound, IdsUnique
    <3>2. \A i \in DOMAIN e : i \in DOMAIN d \/ i = Len(d) + 1
      BY <1>8
    <3> QED BY <1>8, <1>12, <3>1, <3>2
  <2>2. \A t \in p.queue, i \in DOMAIN e : t.event.id # e[i].id
    BY <1>1, <1>7, <1>8, <1>11 DEF KernelSound, IdsUnique
  <2>3. \A t, u \in p.queue : t # u => t.event.id # u.event.id
    BY <1>1 DEF KernelSound, IdsUnique
  <2> QED BY <1>5, <1>7, <2>1, <2>2, <2>3 DEF IdsUnique
<1> QED BY <1>1, <1>5, <1>6, <1>9, <1>10, <1>13, <1>14 DEF KernelSound

-----------------------------------------------------------------------------
(***************************************************************************)
(* The replies to a command.                                               *)
(***************************************************************************)

\* f gives the kernel after each reply of the engine.
Emits(f, k, replies, available, n) ==
  f = [i \in 0..n |->
        IF i = 0 THEN k
        ELSE Generate(f[i - 1], replies[i], available, ObserverAvailable, NoTiming)]

LEMMA EmitsExists ==
  ASSUME NEW k, NEW replies, NEW available, NEW n \in Nat
  PROVE  \E f : Emits(f, k, replies, available, n)
<1> DEFINE Good == {m \in Nat : \E f : Emits(f, k, replies, available, m)}
<1>1. 0 \in Good
  <2>1. Emits([i \in 0..0 |-> k], k, replies, available, 0)
    BY DEF Emits
  <2> QED BY <2>1
<1>2. ASSUME NEW m \in Nat, m \in Good PROVE m + 1 \in Good
  <2>1. PICK f : Emits(f, k, replies, available, m)
    BY <1>2
  <2> DEFINE g == [i \in 0..(m + 1) |->
                     IF i = 0 THEN k
                     ELSE Generate(f[i - 1], replies[i], available, ObserverAvailable, NoTiming)]
  <2>2. \A i \in 0..m : g[i] = f[i]
    BY <2>1 DEF Emits
  <2>3. \A i \in 0..(m + 1) : i # 0 => f[i - 1] = g[i - 1]
    <3> HIDE DEF g
    <3> QED BY <2>2
  <2>4. g = [i \in 0..(m + 1) |->
               IF i = 0 THEN k
               ELSE Generate(g[i - 1], replies[i], available, ObserverAvailable, NoTiming)]
    <3>1. \A i \in 0..(m + 1) :
            (IF i = 0 THEN k
             ELSE Generate(f[i - 1], replies[i], available, ObserverAvailable, NoTiming))
            = (IF i = 0 THEN k
               ELSE Generate(g[i - 1], replies[i], available, ObserverAvailable, NoTiming))
      <4> HIDE DEF g
      <4> QED BY <2>3
    <3> QED BY <3>1
  <2>5. Emits(g, k, replies, available, m + 1)
    <3> HIDE DEF g
    <3> QED BY <2>4 DEF Emits
  <2> QED BY <2>5
<1>3. Nat \subseteq Good
  <2> HIDE DEF Good
  <2> QED BY <1>1, <1>2, NaturalInduction
<1> QED BY <1>3

LEMMA EmissionsEmit ==
  ASSUME NEW k, NEW replies, Len(replies) \in Nat, NEW available
  PROVE  Emits(Emissions(k, replies, available), k, replies, available, Len(replies))
<1>1. PICK f : Emits(f, k, replies, available, Len(replies))
  BY EmitsExists
<1> QED BY <1>1 DEF Emissions, Emits

\* What has come into the queue are the first n replies to a command, of one
\* time, with sequences that grow as the replies do.
NewReplies(k, q, number, n, available) ==
  /\ q.delivered_events = k.delivered_events
  /\ q.current_time = k.current_time
  /\ Advanced(k, q)
  /\ k.queue \subseteq q.queue
  /\ \A t \in q.queue \ k.queue :
       /\ t.stage = ObserverAvailable /\ t.time = available
       /\ t.event.payload.kind = "Reply" /\ t.event.payload.number = number
       /\ t.event.payload.reply \in 1..n
       /\ q.thrown \/ q.next_sequence = 0 \/ t.sequence < q.next_sequence
  /\ \A t, u \in q.queue \ k.queue :
       t # u => \/ /\ t.event.payload.reply < u.event.payload.reply
                   /\ t.sequence < u.sequence
                \/ /\ u.event.payload.reply < t.event.payload.reply
                   /\ u.sequence < t.sequence

\* One more reply.
LEMMA EmissionStep ==
  ASSUME NEW k \in Kernels, NEW number \in Nat, NEW n \in Nat, NEW available \in Time,
         NEW f, KernelSound(f), NewReplies(k, f, number, n, available),
         NEW g, g = Generate(f, [kind |-> "Reply", number |-> number, reply |-> n + 1],
                             available, ObserverAvailable, NoTiming)
  PROVE  KernelSound(g) /\ NewReplies(k, g, number, n + 1, available)
<1>7. PICK payload : payload = [kind |-> "Reply", number |-> number, reply |-> n + 1]
  OBVIOUS
<1> DEFINE task(id) == NewTask(f, id, payload, available, ObserverAvailable, NoTiming)
<1>0. Limit \in Nat \ {0} /\ TimeLimit \in Nat
  BY KernelAssumption
<1>1. payload \in Payloads /\ payload \in ReplyPayloads
  BY <1>7 DEF Payloads, ReplyPayloads
<1>2. ObserverAvailable \in Stages /\ NoTiming \in Timing \cup {NoTiming} /\ f \in Kernels
  BY DEF Stages, KernelSound
<1>3. /\ g \in Kernels /\ Kept(f, g) /\ Advanced(f, g)
      /\ f.thrown => g = f
      /\ g.thrown => g.queue = f.queue
      /\ ~ g.thrown => Generated(f, g, payload, available, ObserverAvailable, NoTiming)
  <2>1. g = Generate(f, payload, available, ObserverAvailable, NoTiming)
    BY <1>7
  <2> QED BY <1>1, <1>2, <2>1, GenerateOutcome
<1>4. Advanced(k, g)
  BY <1>0, <1>2, <1>3 DEF Advanced, NewReplies, Kernels
<1>5. CASE g.thrown
  <2>1. KernelSound(g)
    BY <1>3, <1>5, PutsSound
  <2>2. NewReplies(k, g, number, n + 1, available)
    BY <1>3, <1>4, <1>5 DEF NewReplies, Kept
  <2> QED BY <2>1, <2>2
<1>6. CASE ~ g.thrown
  <2>1. PICK id \in 1..Limit :
          /\ id \in g.event_ids \ f.event_ids
          /\ task(id) \in Tasks
          /\ g.queue = f.queue \cup {task(id)}
    BY <1>3, <1>6 DEF Generated
  <2>2. PICK t : t = task(id)
    OBVIOUS
  <2>3. /\ t.stage = ObserverAvailable /\ t.time = available /\ t.sequence = f.next_sequence
        /\ t.event.id = id /\ t.event.payload = payload /\ t.event.available = available
    BY <2>2 DEF NewTask, TaskFor
  <2>4. t \in Tasks /\ g.queue = f.queue \cup {t} /\ t.event.id \in g.event_ids \ f.event_ids
    BY <2>1, <2>2, <2>3
  <2>5. TaskSound(t)
    BY <1>1, <2>3 DEF TaskSound, IsCommand, ObserverAvailable, ExchangeReceive, ExchangeProcess
  <2>6. Puts(f, g, t)
    BY <1>3, <1>6, <2>3, <2>4, <2>5 DEF Puts, Generated
  <2>7. KernelSound(g)
    BY <1>3, <2>6, PutsSound
  <2>8. /\ t.event.payload.kind = "Reply" /\ t.event.payload.number = number
        /\ t.event.payload.reply = n + 1
    BY <1>7, <2>3
  <2>9. f.next_sequence \in 1..Limit /\ g.next_sequence = After(f.next_sequence) /\ ~ f.thrown
    <3>1. f.next_sequence # 0 /\ g.next_sequence = After(f.next_sequence) /\ ~ f.thrown
      BY <1>3, <1>6 DEF Generated
    <3>2. f.next_sequence \in 0..Limit
      BY <1>2 DEF Kernels
    <3> QED BY <1>0, <3>1, <3>2
  <2>10. g.next_sequence = 0 \/ g.next_sequence = f.next_sequence + 1
    BY <2>9, AfterType
  <2>11. \A u \in f.queue \ k.queue :
           /\ u.event.payload.reply \in 1..n /\ u.sequence \in 1..Limit
           /\ u.sequence < f.next_sequence
    <3>1. \A u \in f.queue : u.sequence \in 1..Limit
      BY <1>2 DEF Kernels, Tasks
    <3>2. f.next_sequence # 0
      BY <1>0, <2>9
    <3> QED BY <2>9, <3>1, <3>2 DEF NewReplies
  <2> HIDE DEF task
  <2>12. \A u \in g.queue \ k.queue : u \in f.queue \ k.queue \/ u = t
    BY <2>4
  <2>13. \A u \in f.queue \ k.queue :
           /\ u.event.payload.reply < t.event.payload.reply
           /\ u.sequence < t.sequence
    BY <2>3, <2>8, <2>11
  <2>14. \A u, v \in g.queue \ k.queue :
           u # v => \/ /\ u.event.payload.reply < v.event.payload.reply
                       /\ u.sequence < v.sequence
                    \/ /\ v.event.payload.reply < u.event.payload.reply
                       /\ v.sequence < u.sequence
    BY <2>12, <2>13 DEF NewReplies
  <2>15. \A u \in g.queue \ k.queue :
           /\ u.stage = ObserverAvailable /\ u.time = available
           /\ u.event.payload.kind = "Reply" /\ u.event.payload.number = number
           /\ u.event.payload.reply \in 1..(n + 1)
           /\ g.next_sequence = 0 \/ u.sequence < g.next_sequence
    <3>1. \A u \in f.queue \ k.queue :
             /\ u.stage = ObserverAvailable /\ u.time = available
             /\ u.event.payload.kind = "Reply" /\ u.event.payload.number = number
      BY DEF NewReplies
    <3>2. \A u \in f.queue \ k.queue :
             /\ u.event.payload.reply \in 1..(n + 1)
             /\ g.next_sequence = 0 \/ u.sequence < g.next_sequence
      BY <1>0, <2>9, <2>10, <2>11
    <3>3. /\ t.event.payload.reply \in 1..(n + 1)
          /\ g.next_sequence = 0 \/ t.sequence < g.next_sequence
      BY <1>0, <2>3, <2>8, <2>9, <2>10
    <3> QED BY <2>3, <2>8, <2>12, <3>1, <3>2, <3>3
  <2>16. NewReplies(k, g, number, n + 1, available)
    BY <1>3, <1>4, <2>4, <2>14, <2>15 DEF NewReplies, Kept
  <2> QED BY <2>7, <2>16
<1> QED BY <1>5, <1>6

\* All replies.
LEMMA EmissionsOutcome ==
  ASSUME NEW k, KernelSound(k), NEW number \in Nat, NEW n \in Nat, NEW available \in Time,
         NEW replies,
         replies = [i \in 1..n |-> [kind |-> "Reply", number |-> number, reply |-> i]],
         NEW q, q = Emissions(k, replies, available)[Len(replies)]
  PROVE  KernelSound(q) /\ NewReplies(k, q, number, n, available)
<1>0. Len(replies) = n /\ k \in Kernels
  BY DEF KernelSound
<1>1. PICK f : f = Emissions(k, replies, available)
  OBVIOUS
<1>2. Emits(f, k, replies, available, n)
  BY <1>0, <1>1, EmissionsEmit
<1> DEFINE Good == {i \in Nat : i <= n =>
                      KernelSound(f[i]) /\ NewReplies(k, f[i], number, i, available)}
<1>3. 0 \in Good
  <2>1. f[0] = k
    BY <1>2 DEF Emits
  <2>2. NewReplies(k, k, number, 0, available)
    BY <1>0, KernelAssumption DEF NewReplies, Advanced, Kernels
  <2> QED BY <2>1, <2>2
<1>4. ASSUME NEW i \in Nat, i \in Good PROVE i + 1 \in Good
  <2>1. SUFFICES ASSUME i + 1 <= n
                 PROVE  /\ KernelSound(f[i + 1])
                        /\ NewReplies(k, f[i + 1], number, i + 1, available)
    OBVIOUS
  <2>2. KernelSound(f[i]) /\ NewReplies(k, f[i], number, i, available)
    BY <1>4, <2>1
  <2>3. f[i + 1] = Generate(f[i], replies[i + 1], available, ObserverAvailable, NoTiming)
    BY <2>1, <1>2 DEF Emits
  <2>4. replies[i + 1] = [kind |-> "Reply", number |-> number, reply |-> i + 1]
    BY <2>1
  <2> HIDE DEF Good
  <2> QED BY <1>0, <2>2, <2>3, <2>4, EmissionStep
<1>5. n \in Good
  <2> HIDE DEF Good
  <2> QED BY <1>3, <1>4, NaturalInduction
<1> QED BY <1>0, <1>1, <1>5

\* A command that is processed leaves the queue, and its replies come in.
LEMMA ProcessOutcome ==
  ASSUME NEW k, KernelSound(k), NEW task, IsTop(k, task), task.stage = ExchangeProcess,
         NEW n \in Nat, NEW replies, NEW failures \in {<<>>, <<"None">>},
         replies = [i \in 1..n |->
           [kind |-> "Reply", number |-> task.event.payload.number, reply |-> i]],
         NEW q, q = process_exchange(k, task, replies, failures)
  PROVE  /\ KernelSound(q)
         /\ NewReplies(pop_next(k, task), q, task.event.payload.number, n,
                       task.timing.available)
<1> DEFINE p == pop_next(k, task)
<1>1. KernelSound(p) /\ task \in Tasks /\ TaskSound(task)
  BY PopSound
<1>2. task.event.payload \in CommandPayloads /\ task.timing \in Timing
  BY <1>1 DEF TaskSound, IsCommand
<1>3. task.event.payload.number \in Nat /\ task.timing.available \in Time
  BY <1>2 DEF CommandPayloads, Timing
<1>4. PICK e : e = Emissions(p, replies, task.timing.available)[Len(replies)]
  OBVIOUS
<1> HIDE DEF p
<1>5. KernelSound(e) /\ NewReplies(p, e, task.event.payload.number, n, task.timing.available)
  BY <1>1, <1>3, <1>4, EmissionsOutcome
<1>6. CASE e.thrown
  BY <1>4, <1>5, <1>6 DEF process_exchange, p
<1>7. CASE ~ e.thrown
  <2>1. PICK extra : extra = [i \in DOMAIN failures |->
              [command |-> task.event.payload, available |-> task.timing.available,
               current_state |-> failures[i]]]
    OBVIOUS
  <2>2. q = [e EXCEPT !.failures = @ \o extra]
    BY <1>4, <1>7, <2>1 DEF process_exchange, p
  <2>3. extra \in Seq(Records)
    <3>1. DOMAIN failures = 1..Len(failures) /\ Len(failures) \in Nat
      OBVIOUS
    <3>2. \A i \in DOMAIN failures : failures[i] = "None"
      OBVIOUS
    <3>3. \A i \in DOMAIN failures : extra[i] \in Records
      BY <1>2, <1>3, <2>1, <3>2 DEF Records, Payloads
    <3>4. extra \in [1..Len(failures) -> Records]
      BY <2>1, <3>1, <3>3
    <3> QED BY <3>1, <3>4
  <2>4. e \in Kernels
    BY <1>5 DEF KernelSound
  <2>5. e.failures \o extra \in Seq(Records)
    BY <2>3, <2>4 DEF Kernels
  <2>6. /\ q.queue = e.queue /\ q.current_time = e.current_time /\ q.event_ids = e.event_ids
        /\ q.next_sequence = e.next_sequence /\ q.thrown = e.thrown
        /\ q.delivered_events = e.delivered_events
    BY <2>2, <2>4 DEF Kernels
  <2>7. q \in Kernels
    <3>1. q = [e EXCEPT !.failures = e.failures \o extra]
      BY <2>2
    <3> QED BY <2>4, <2>5, <3>1 DEF Kernels
  <2>8. KernelSound(q)
    <3>1. QueueDue(q) /\ InOrder(q)
      BY <1>5, <2>6 DEF KernelSound, QueueDue, InOrder
    <3>2. IdsKnown(q)
      BY <1>5, <2>6 DEF KernelSound, IdsKnown
    <3>3. IdsUnique(q)
      BY <1>5, <2>6 DEF KernelSound, IdsUnique
    <3> QED BY <2>7, <3>1, <3>2, <3>3 DEF KernelSound
  <2>9. NewReplies(p, q, task.event.payload.number, n, task.timing.available)
    BY <1>5, <2>6 DEF NewReplies, Advanced
  <2> QED BY <2>8, <2>9 DEF p
<1> QED BY <1>6, <1>7

-----------------------------------------------------------------------------
(***************************************************************************)
(* The calls of the kernel's users.                                        *)
(***************************************************************************)

\* Forgetting an exception changes nothing else.
LEMMA CallSound ==
  ASSUME NEW k, KernelSound(k), NEW q, q = Call(k)
  PROVE  /\ KernelSound(q) /\ ~ q.thrown
         /\ q.queue = k.queue /\ q.current_time = k.current_time
         /\ q.event_ids = k.event_ids /\ q.delivered_events = k.delivered_events
         /\ q.next_sequence = k.next_sequence /\ q.next_event_id = k.next_event_id
<1>1. q = [k EXCEPT !.thrown = FALSE] /\ k \in Kernels
  BY DEF Call, KernelSound
<1>2. /\ q \in Kernels /\ ~ q.thrown
      /\ q.queue = k.queue /\ q.current_time = k.current_time
      /\ q.event_ids = k.event_ids /\ q.delivered_events = k.delivered_events
      /\ q.next_sequence = k.next_sequence /\ q.next_event_id = k.next_event_id
  BY <1>1 DEF Kernels
<1> QED BY <1>2 DEF KernelSound, QueueDue, IdsKnown, IdsUnique, InOrder

\* A command is received at the time of its timing, or has thrown.
LEMMA CommandOutcome ==
  ASSUME NEW k, KernelSound(k), NEW number \in Nat,
         NEW start \in Time, NEW timing \in action_timing(start),
         NEW q, q = schedule_command(Call(k), [kind |-> "Command", number |-> number], timing)
  PROVE  /\ KernelSound(q) /\ Kept(k, q) /\ Advanced(k, q)
         /\ q.thrown => q.queue = k.queue
         /\ ~ q.thrown => \E task \in Tasks :
              /\ q.queue = k.queue \cup {task} /\ task \notin k.queue
              /\ task.stage = ExchangeReceive
              /\ task.event.payload = [kind |-> "Command", number |-> number]
              /\ task.sequence = k.next_sequence
              /\ q.next_sequence = After(k.next_sequence)
              /\ task.timing.process >= k.current_time
<1>0. Limit \in Nat \ {0} /\ TimeLimit \in Nat
  BY KernelAssumption
<1>1. PICK c : c = Call(k)
  OBVIOUS
<1>2. /\ KernelSound(c) /\ ~ c.thrown
      /\ c.queue = k.queue /\ c.current_time = k.current_time
      /\ c.event_ids = k.event_ids /\ c.delivered_events = k.delivered_events
      /\ c.next_sequence = k.next_sequence
  BY <1>1, CallSound
<1>3. PICK payload : payload = [kind |-> "Command", number |-> number]
  OBVIOUS
<1>4. payload \in CommandPayloads /\ payload \in Payloads
  BY <1>3 DEF CommandPayloads, Payloads
<1>5. /\ timing \in Timing /\ timing.receive \in Time
      /\ timing.receive <= timing.process /\ timing.process <= timing.available
  <2>1. PICK o \in OutboundDelays, p \in ProcessingDelays, r \in ReplyDelays :
          /\ timing = [receive |-> start + o, process |-> start + o + p,
                       available |-> start + o + p + r]
          /\ timing.available <= TimeLimit
    BY DEF action_timing
  <2>2. o \in Nat /\ p \in Nat /\ r \in Nat /\ start \in Nat
    BY <1>0, KernelAssumption DEF Time
  <2>3. start + o \in Time /\ start + o + p \in Time /\ start + o + p + r \in Time
    BY <1>0, <2>1, <2>2 DEF Time
  <2> QED BY <2>1, <2>2, <2>3 DEF Timing
<1>6. ExchangeReceive \in Stages /\ c \in Kernels
  BY <1>2 DEF Stages, KernelSound
<1>7. q = Generate(c, payload, timing.receive, ExchangeReceive, timing)
  BY <1>1, <1>3 DEF schedule_command
<1>8. /\ q \in Kernels /\ Kept(c, q) /\ Advanced(c, q)
      /\ q.thrown => q.queue = c.queue
      /\ ~ q.thrown => Generated(c, q, payload, timing.receive, ExchangeReceive, timing)
  BY <1>4, <1>5, <1>6, <1>7, GenerateOutcome
<1>9. Kept(k, q) /\ Advanced(k, q)
  BY <1>2, <1>8 DEF Kept, Advanced
<1>10. CASE q.thrown
  <2>1. KernelSound(q)
    BY <1>2, <1>8, <1>10, PutsSound
  <2> QED BY <1>2, <1>8, <1>9, <1>10, <2>1
<1>11. CASE ~ q.thrown
  <2>1. PICK id \in 1..Limit :
          /\ id \in q.event_ids \ c.event_ids
          /\ NewTask(c, id, payload, timing.receive, ExchangeReceive, timing) \in Tasks
          /\ q.queue = c.queue \cup {NewTask(c, id, payload, timing.receive, ExchangeReceive, timing)}
    BY <1>8, <1>11 DEF Generated
  <2>2. PICK t : t = NewTask(c, id, payload, timing.receive, ExchangeReceive, timing)
    OBVIOUS
  <2>3. /\ t.stage = ExchangeReceive /\ t.time = timing.receive /\ t.timing = timing
        /\ t.sequence = c.next_sequence /\ t.event.id = id /\ t.event.payload = payload
    BY <2>2 DEF NewTask, TaskFor
  <2>4. t \in Tasks /\ q.queue = c.queue \cup {t}
    BY <2>1, <2>2
  <2>5. TaskSound(t)
    BY <1>4, <1>5, <2>3 DEF TaskSound, IsCommand, ExchangeReceive
  <2>6. Puts(c, q, t)
    BY <1>8, <1>11, <2>1, <2>3, <2>4, <2>5 DEF Puts, Generated
  <2>7. KernelSound(q)
    BY <1>2, <1>8, <2>6, PutsSound
  <2>8. t \notin c.queue
    BY <1>2, <2>1, <2>3 DEF KernelSound, IdsKnown
  <2>9. t.timing.process >= k.current_time
    <3>1. timing.receive >= c.current_time
      BY <1>8, <1>11 DEF Generated
    <3>2. c.current_time \in Int /\ timing.receive \in Int /\ timing.process \in Int
      BY <1>0, <1>5, <1>6 DEF Kernels, Time, NoTime, Timing
    <3> QED BY <1>2, <1>5, <2>3, <3>1, <3>2
  <2> QED BY <1>2, <1>3, <1>8, <1>9, <1>11, <2>3, <2>4, <2>7, <2>8, <2>9 DEF Generated
<1> QED BY <1>10, <1>11

\* A timer or the completion of a parent waits for its time, or has thrown.
LEMMA SystemOutcome ==
  ASSUME NEW k, KernelSound(k), NEW time \in Time,
         NEW q, q = schedule_system_event(Call(k), [kind |-> "Timer"], time)
  PROVE  /\ KernelSound(q) /\ Kept(k, q) /\ Advanced(k, q)
         /\ q.queue = k.queue \/ \E task \in Tasks :
              /\ q.queue = k.queue \cup {task}
              /\ ~ IsCommand(task) /\ task.event.payload \in OtherPayloads
<1>1. PICK c : c = Call(k)
  OBVIOUS
<1>2. /\ KernelSound(c) /\ ~ c.thrown
      /\ c.queue = k.queue /\ c.current_time = k.current_time
      /\ c.event_ids = k.event_ids /\ c.delivered_events = k.delivered_events
      /\ c.next_sequence = k.next_sequence
  BY <1>1, CallSound
<1>3. PICK payload : payload = [kind |-> "Timer"]
  OBVIOUS
<1>4. payload \in OtherPayloads /\ payload \in Payloads
  BY <1>3 DEF OtherPayloads, Payloads
<1>5. System \in Stages /\ NoTiming \in Timing \cup {NoTiming} /\ c \in Kernels
  BY <1>2 DEF Stages, KernelSound
<1>6. q = Generate(c, payload, time, System, NoTiming)
  BY <1>1, <1>3 DEF schedule_system_event
<1>7. /\ q \in Kernels /\ Kept(c, q) /\ Advanced(c, q)
      /\ q.thrown => q.queue = c.queue
      /\ ~ q.thrown => Generated(c, q, payload, time, System, NoTiming)
  BY <1>4, <1>5, <1>6, GenerateOutcome
<1>8. Kept(k, q) /\ Advanced(k, q)
  BY <1>2, <1>7 DEF Kept, Advanced
<1>9. CASE q.thrown
  <2>1. KernelSound(q)
    BY <1>2, <1>7, <1>9, PutsSound
  <2> QED BY <1>2, <1>7, <1>8, <1>9, <2>1
<1>10. CASE ~ q.thrown
  <2>1. PICK id \in 1..Limit :
          /\ id \in q.event_ids \ c.event_ids
          /\ NewTask(c, id, payload, time, System, NoTiming) \in Tasks
          /\ q.queue = c.queue \cup {NewTask(c, id, payload, time, System, NoTiming)}
    BY <1>7, <1>10 DEF Generated
  <2>2. PICK t : t = NewTask(c, id, payload, time, System, NoTiming)
    OBVIOUS
  <2>3. /\ t.stage = System /\ t.time = time /\ t.event.available = time
        /\ t.event.id = id /\ t.event.payload = payload
    BY <2>2 DEF NewTask, TaskFor
  <2>4. t \in Tasks /\ q.queue = c.queue \cup {t}
    BY <2>1, <2>2
  <2>5. TaskSound(t) /\ ~ IsCommand(t)
    BY <1>4, <2>3 DEF TaskSound, IsCommand, System, ExchangeReceive, ExchangeProcess
  <2>6. Puts(c, q, t)
    BY <1>7, <1>10, <2>1, <2>3, <2>4, <2>5 DEF Puts, Generated
  <2>7. KernelSound(q)
    BY <1>2, <1>7, <2>6, PutsSound
  <2> QED BY <1>2, <1>4, <1>8, <2>3, <2>4, <2>5, <2>7
<1> QED BY <1>9, <1>10

\* A market event brings an identifier and a sequence, which the counters pass;
\* the event waits for its time, or the call has thrown.
LEMMA MarketOutcome ==
  ASSUME NEW k, KernelSound(k), NEW id \in 1..Limit, NEW sequence \in 1..Limit,
         NEW available \in Time,
         NEW q, q = schedule_market_event(Call(k), id, sequence, [kind |-> "Market"], available)
  PROVE  /\ KernelSound(q) /\ Kept(k, q)
         /\ k.next_sequence # 0 => Advanced(k, q)
         /\ q.queue = k.queue \/ \E task \in Tasks :
              /\ q.queue = k.queue \cup {task}
              /\ ~ IsCommand(task) /\ task.event.payload \in OtherPayloads
<1>0. Limit \in Nat \ {0} /\ TimeLimit \in Nat
  BY KernelAssumption
<1>1. PICK c : c = Call(k)
  OBVIOUS
<1>2. /\ KernelSound(c) /\ ~ c.thrown
      /\ c.queue = k.queue /\ c.current_time = k.current_time
      /\ c.event_ids = k.event_ids /\ c.delivered_events = k.delivered_events
      /\ c.next_sequence = k.next_sequence
  BY <1>1, CallSound
<1>3. PICK event : event = [id |-> id, payload |-> [kind |-> "Market"], available |-> available]
  OBVIOUS
<1>4. event \in Events /\ event.payload \in OtherPayloads
  BY <1>3 DEF Events, OtherPayloads, Payloads
<1>5. ObserverAvailable \in Stages /\ NoTiming \in Timing \cup {NoTiming} /\ c \in Kernels
  BY <1>2 DEF Stages, KernelSound
<1>6. PICK r : r = register_existing_event(c, id, sequence)
  OBVIOUS
<1>7. q = schedule(r, available, ObserverAvailable, sequence, event, NoTiming)
  BY <1>1, <1>3, <1>6 DEF schedule_market_event
<1>8. CASE id \in c.event_ids
  <2>1. r = [c EXCEPT !.thrown = TRUE]
    BY <1>6, <1>8 DEF register_existing_event, Throw
  <2>2. /\ r \in Kernels /\ r.thrown /\ r.queue = c.queue /\ Kept(c, r)
        /\ r.next_sequence = c.next_sequence
    BY <1>5, <2>1 DEF Kernels, Kept
  <2>3. q = r
    BY <1>7, <2>2 DEF schedule
  <2>4. KernelSound(q)
    BY <1>2, <2>2, <2>3, PutsSound
  <2>5. c.next_sequence \in 0..Limit
    BY <1>5 DEF Kernels
  <2> QED BY <1>0, <1>2, <2>2, <2>3, <2>4, <2>5 DEF Kept, Advanced
<1>9. CASE id \notin c.event_ids
  <2>1. PICK m, s : /\ m = (IF id >= c.next_event_id THEN After(id) ELSE c.next_event_id)
                    /\ s = (IF sequence >= c.next_sequence THEN After(sequence) ELSE c.next_sequence)
    OBVIOUS
  <2>2. c.next_event_id \in 0..Limit /\ c.next_sequence \in 0..Limit
    BY <1>5 DEF Kernels
  <2>3. /\ After(id) \in 0..Limit /\ After(sequence) \in 0..Limit
        /\ After(sequence) = 0 \/ After(sequence) = sequence + 1
    BY AfterType
  <2>4. m \in 0..Limit /\ s \in 0..Limit
    BY <2>1, <2>2, <2>3
  <2>5. c.next_sequence # 0 => s = 0 \/ c.next_sequence <= s
    BY <1>0, <2>1, <2>2, <2>3
  <2>6. r = [c EXCEPT !.event_ids = c.event_ids \cup {id}, !.next_event_id = m,
                      !.next_sequence = s]
    BY <1>5, <1>6, <1>9, <2>1 DEF register_existing_event, Kernels
  <2>7. c.event_ids \cup {id} \in SUBSET (1..Limit)
    BY <1>5 DEF Kernels
  <2>8. /\ r.event_ids = c.event_ids \cup {id} /\ r.next_sequence = s
        /\ r.queue = c.queue /\ r.thrown = c.thrown
        /\ r.current_time = c.current_time /\ r.delivered_events = c.delivered_events
    BY <1>5, <2>6 DEF Kernels
  <2>9. r \in Kernels
    BY <1>5, <2>4, <2>6, <2>7 DEF Kernels
  <2>10. PICK t : t = TaskFor(r, available, ObserverAvailable, sequence, event, NoTiming)
    OBVIOUS
  <2>11. sequence \in 0..Limit
    BY <1>0
  <2>12. /\ q \in Kernels /\ Kept(r, q)
         /\ q.next_sequence = r.next_sequence /\ q.event_ids = r.event_ids
         /\ q.thrown => q.queue = r.queue
         /\ ~ q.thrown => /\ available >= r.current_time
                          /\ t \in Tasks /\ q.queue = r.queue \cup {t}
    BY <1>4, <1>5, <1>7, <2>9, <2>10, <2>11, ScheduleOutcome
  <2>13. Kept(c, q) /\ Kept(k, q) /\ (k.next_sequence # 0 => Advanced(k, q))
    BY <1>2, <2>5, <2>8, <2>12 DEF Kept, Advanced
  <2>14. CASE q.thrown
    <3>1. KernelSound(q)
      BY <1>2, <2>8, <2>12, <2>13, <2>14, PutsSound
    <3> QED BY <1>2, <2>8, <2>12, <2>13, <2>14, <3>1
  <2>15. CASE ~ q.thrown
    <3>1. /\ t.stage = ObserverAvailable /\ t.time = available /\ t.event = event
          /\ t.event.available = available /\ t.event.id = id
      BY <1>3, <2>10 DEF TaskFor
    <3>2. TaskSound(t) /\ ~ IsCommand(t)
      BY <1>4, <3>1 DEF TaskSound, IsCommand, ObserverAvailable, ExchangeReceive, ExchangeProcess
    <3>3. Puts(c, q, t)
      BY <1>9, <2>8, <2>12, <2>15, <3>1, <3>2 DEF Puts
    <3>4. KernelSound(q)
      BY <1>2, <2>12, <2>13, <3>3, PutsSound
    <3> QED BY <1>2, <1>4, <2>8, <2>12, <2>13, <2>15, <3>1, <3>2, <3>4
  <2> QED BY <2>14, <2>15
<1> QED BY <1>8, <1>9

-----------------------------------------------------------------------------
(***************************************************************************)
(* The inductive invariant.                                                *)
(***************************************************************************)

\* The records that a session keeps of its commands.
SessionTypes ==
  /\ until \in Time \cup {NoTime}
  /\ calls \in Nat
  /\ accepted \subseteq 1..calls
  /\ processed \in Seq([number : Nat, time : Time])
  /\ lost \subseteq accepted

\* An accepted command is in one of three places, and there once: waiting,
\* processed, or lost.
CommandsSound ==
  /\ \A t \in kernel.queue : IsCommand(t) =>
       /\ t.event.payload.number \in accepted \ lost
       /\ \A i \in DOMAIN processed : processed[i].number # t.event.payload.number
  /\ \A t, u \in kernel.queue :
       IsCommand(t) /\ IsCommand(u) /\ t # u =>
         t.event.payload.number # u.event.payload.number
  /\ \A i \in DOMAIN processed : processed[i].number \in accepted \ lost
  /\ \A i, j \in DOMAIN processed : i # j => processed[i].number # processed[j].number
  /\ \A number \in accepted :
       \/ number \in lost
       \/ \E i \in DOMAIN processed : processed[i].number = number
       \/ \E t \in kernel.queue : IsCommand(t) /\ t.event.payload.number = number

IsReply(e) == e.payload.kind = "Reply"

\* The replies to one command are due together, in the order of their sequences,
\* and those that are waiting follow those that have been delivered.
RepliesSound ==
  /\ \A t \in kernel.queue : IsReply(t.event) =>
       /\ t.stage = ObserverAvailable
       /\ \E i \in DOMAIN processed : processed[i].number = t.event.payload.number
  /\ \A t, u \in kernel.queue :
       (/\ IsReply(t.event) /\ IsReply(u.event) /\ t # u
        /\ t.event.payload.number = u.event.payload.number) =>
          /\ t.time = u.time
          /\ \/ /\ t.event.payload.reply < u.event.payload.reply
                /\ t.sequence < u.sequence
             \/ /\ u.event.payload.reply < t.event.payload.reply
                /\ u.sequence < t.sequence
  /\ \A d \in DOMAIN Delivered : IsReply(Delivered[d]) =>
       /\ \E i \in DOMAIN processed : processed[i].number = Delivered[d].payload.number
       /\ \A t \in kernel.queue :
            IsReply(t.event) /\ t.event.payload.number = Delivered[d].payload.number =>
              Delivered[d].payload.reply < t.event.payload.reply
  /\ RepliesInOrder

IInv == KernelSound(kernel) /\ SessionTypes /\ CommandsSound /\ RepliesSound

\* As long as canonical sequences are not exhausted, commands wait in the order
\* of their calls behind those that have been processed.
FifoSound ==
  /\ \A t \in kernel.queue : IsCommand(t) => t.sequence < kernel.next_sequence
  /\ \A t, u \in kernel.queue :
       (/\ IsCommand(t) /\ IsCommand(u)
        /\ t.event.payload.number < u.event.payload.number) => t.sequence < u.sequence
  /\ \A t \in kernel.queue, i \in DOMAIN processed : IsCommand(t) =>
       \/ processed[i].time < t.timing.process
       \/ /\ processed[i].time = t.timing.process
          /\ processed[i].number < t.event.payload.number
  /\ \A i \in DOMAIN processed : processed[i].time <= kernel.current_time
  /\ FirstInFirstOut

-----------------------------------------------------------------------------
(***************************************************************************)
(* Each action keeps the invariant.                                        *)
(***************************************************************************)

LEMMA InitIInv == Init => IInv /\ FifoSound
<1> SUFFICES ASSUME Init PROVE IInv /\ FifoSound
  OBVIOUS
<1>0. Limit \in Nat \ {0} /\ TimeLimit \in Nat
  BY KernelAssumption
<1>1. /\ kernel.queue = {} /\ kernel.delivered_events = <<>> /\ kernel.event_ids = {}
      /\ processed = <<>> /\ accepted = {} /\ lost = {} /\ calls = 0 /\ until = NoTime
  BY DEF Init, KernelInit
<1>2. kernel \in Kernels
  <2>1. 1 \in 0..Limit /\ <<>> \in Seq(Events) /\ <<>> \in Seq(Records)
    BY <1>0
  <2> QED BY <2>1 DEF Init, KernelInit, Kernels
<1>3. KernelSound(kernel)
  BY <1>1, <1>2 DEF KernelSound, QueueDue, IdsKnown, IdsUnique, InOrder
<1>4. SessionTypes
  BY <1>1 DEF SessionTypes
<1>5. CommandsSound
  BY <1>1 DEF CommandsSound
<1>6. RepliesSound
  BY <1>1 DEF RepliesSound, RepliesInOrder, Delivered
<1>7. FifoSound
  BY <1>1 DEF FifoSound, FirstInFirstOut
<1> QED BY <1>3, <1>4, <1>5, <1>6, <1>7 DEF IInv

\* A step that puts in at most an event of another kind leaves the commands and
\* the replies as they are.
LEMMA OtherPut ==
  ASSUME IInv, KernelSound(kernel'), Kept(kernel, kernel'),
         UNCHANGED <<accepted, processed, lost>>, SessionTypes',
         kernel'.queue = kernel.queue \/ \E task \in Tasks :
           /\ kernel'.queue = kernel.queue \cup {task}
           /\ ~ IsCommand(task) /\ task.event.payload \in OtherPayloads
  PROVE  IInv' /\ (FifoSound /\ Advanced(kernel, kernel') /\ kernel'.next_sequence # 0 => FifoSound')
<1>1. \A t \in kernel'.queue :
        t \in kernel.queue \/ (~ IsCommand(t) /\ ~ IsReply(t.event))
  <2>1. \A p \in OtherPayloads : p.kind # "Reply"
    BY DEF OtherPayloads
  <2> QED BY <2>1 DEF IsReply
<1>2. kernel.queue \subseteq kernel'.queue
  OBVIOUS
<1>3. CommandsSound'
  BY <1>1, <1>2 DEF IInv, CommandsSound
<1>4. Delivered' = Delivered
  BY DEF Delivered, Kept
<1>5. RepliesSound'
  BY <1>1, <1>2, <1>4 DEF IInv, RepliesSound, RepliesInOrder
<1>6. ASSUME FifoSound, Advanced(kernel, kernel'), kernel'.next_sequence # 0
      PROVE  FifoSound'
  <2>1. \A t \in kernel'.queue : IsCommand(t) => t \in kernel.queue
    BY <1>1
  <2>2. kernel.next_sequence <= kernel'.next_sequence
    BY <1>6 DEF Advanced
  <2>3. \A t \in kernel.queue : t.sequence \in Nat
    BY KernelAssumption DEF IInv, KernelSound, Kernels, Tasks
  <2>4. kernel.next_sequence \in Nat /\ kernel'.next_sequence \in Nat
    BY KernelAssumption DEF IInv, KernelSound, Kernels
  <2>5. \A t \in kernel'.queue : IsCommand(t) => t.sequence < kernel'.next_sequence
    BY <1>6, <2>1, <2>2, <2>3, <2>4 DEF FifoSound
  <2>6. kernel'.current_time = kernel.current_time
    BY DEF Kept
  <2> QED BY <1>6, <2>1, <2>5, <2>6 DEF FifoSound, FirstInFirstOut
<1> QED BY <1>3, <1>5, <1>6 DEF IInv

\* An entry of a sequence.
LEMMA EntryType ==
  ASSUME NEW S, NEW s \in Seq(S)
  PROVE  DOMAIN s = 1..Len(s) /\ Len(s) \in Nat /\ \A i \in DOMAIN s : s[i] \in S
OBVIOUS

LEMMA ProcessedType ==
  ASSUME SessionTypes
  PROVE  /\ DOMAIN processed = 1..Len(processed) /\ Len(processed) \in Nat
         /\ \A i \in DOMAIN processed : processed[i] \in [number : Nat, time : Time]
<1>1. processed \in Seq([number : Nat, time : Time])
  BY DEF SessionTypes
<1> QED BY <1>1, EntryType

LEMMA CallKeepsTypes ==
  ASSUME SessionTypes, Called, UNCHANGED accepted
  PROVE  SessionTypes'
BY DEF SessionTypes, Called, NoTime

LEMMA ScheduleTimerKeeps ==
  ASSUME IInv, ScheduleTimer
  PROVE  IInv' /\ (FifoSound /\ kernel'.next_sequence # 0 => FifoSound')
<1>1. PICK time \in Time :
        kernel' = schedule_system_event(Call(kernel), [kind |-> "Timer"], time)
  BY DEF ScheduleTimer
<1>2. KernelSound(kernel)
  BY DEF IInv
<1>3. /\ KernelSound(kernel') /\ Kept(kernel, kernel') /\ Advanced(kernel, kernel')
      /\ kernel'.queue = kernel.queue \/ \E task \in Tasks :
           /\ kernel'.queue = kernel.queue \cup {task}
           /\ ~ IsCommand(task) /\ task.event.payload \in OtherPayloads
  BY <1>1, <1>2, SystemOutcome
<1>4. UNCHANGED <<accepted, processed, lost>> /\ SessionTypes'
  BY CallKeepsTypes DEF ScheduleTimer, Called, IInv
<1> QED BY <1>3, <1>4, OtherPut

LEMMA ScheduleMarketEventKeeps ==
  ASSUME IInv, ScheduleMarketEvent
  PROVE  /\ IInv'
         /\ FifoSound /\ kernel.next_sequence # 0 /\ kernel'.next_sequence # 0 => FifoSound'
<1>1. PICK id \in MarketIds, sequence \in MarketSequences, available \in Time :
        kernel' = schedule_market_event(Call(kernel), id, sequence, [kind |-> "Market"], available)
  BY DEF ScheduleMarketEvent
<1>2. KernelSound(kernel) /\ id \in 1..Limit /\ sequence \in 1..Limit
  BY SessionAssumption DEF IInv
<1>3. /\ KernelSound(kernel') /\ Kept(kernel, kernel')
      /\ kernel.next_sequence # 0 => Advanced(kernel, kernel')
      /\ kernel'.queue = kernel.queue \/ \E task \in Tasks :
           /\ kernel'.queue = kernel.queue \cup {task}
           /\ ~ IsCommand(task) /\ task.event.payload \in OtherPayloads
  BY <1>1, <1>2, MarketOutcome
<1>4. UNCHANGED <<accepted, processed, lost>> /\ SessionTypes'
  BY CallKeepsTypes DEF ScheduleMarketEvent, Called, IInv
<1>5. IInv' /\ (FifoSound /\ Advanced(kernel, kernel') /\ kernel'.next_sequence # 0 => FifoSound')
  BY <1>3, <1>4, OtherPut
<1> QED BY <1>3, <1>5

LEMMA RunUntilKeeps ==
  ASSUME IInv, RunUntil
  PROVE  IInv' /\ (FifoSound => FifoSound')
BY DEF IInv, RunUntil, SessionTypes, CommandsSound, RepliesSound, RepliesInOrder,
       Delivered, FifoSound, FirstInFirstOut

\* A command that is accepted is new, and the last in every order.
LEMMA ScheduleCommandKeeps ==
  ASSUME IInv, ScheduleCommand
  PROVE  IInv' /\ (FifoSound /\ kernel'.next_sequence # 0 => FifoSound')
<1>0. Limit \in Nat \ {0} /\ TimeLimit \in Nat
  BY KernelAssumption
<1>8. PICK start \in Time : \E timing \in action_timing(start) :
        kernel' = schedule_command(Call(kernel), [kind |-> "Command", number |-> calls + 1], timing)
  BY DEF ScheduleCommand
<1>1. PICK timing \in action_timing(start) :
        kernel' = schedule_command(Call(kernel), [kind |-> "Command", number |-> calls + 1], timing)
  BY <1>8
<1>2. PICK number : number = calls + 1
  OBVIOUS
<1>3. KernelSound(kernel) /\ calls \in Nat /\ number \in Nat /\ accepted \subseteq 1..calls
  BY <1>2 DEF IInv, SessionTypes
<1>4. /\ KernelSound(kernel') /\ Kept(kernel, kernel') /\ Advanced(kernel, kernel')
      /\ kernel'.thrown => kernel'.queue = kernel.queue
      /\ ~ kernel'.thrown => \E task \in Tasks :
           /\ kernel'.queue = kernel.queue \cup {task} /\ task \notin kernel.queue
           /\ task.stage = ExchangeReceive
           /\ task.event.payload = [kind |-> "Command", number |-> number]
           /\ task.sequence = kernel.next_sequence
           /\ kernel'.next_sequence = After(kernel.next_sequence)
           /\ task.timing.process >= kernel.current_time
  BY <1>1, <1>2, <1>3, CommandOutcome
<1>5. /\ accepted' = (IF kernel'.thrown THEN accepted ELSE accepted \cup {number})
      /\ UNCHANGED <<processed, lost>> /\ calls' = number /\ until' = NoTime
  BY <1>2 DEF ScheduleCommand, Called
<1>6. CASE kernel'.thrown
  <2>1. SessionTypes'
    BY <1>5, <1>6, CallKeepsTypes DEF IInv, ScheduleCommand
  <2> QED BY <1>4, <1>5, <1>6, <2>1, OtherPut
<1>7. CASE ~ kernel'.thrown
  <2>1. PICK task \in Tasks :
           /\ kernel'.queue = kernel.queue \cup {task} /\ task \notin kernel.queue
           /\ task.stage = ExchangeReceive
           /\ task.event.payload = [kind |-> "Command", number |-> number]
           /\ task.sequence = kernel.next_sequence
           /\ kernel'.next_sequence = After(kernel.next_sequence)
           /\ task.timing.process >= kernel.current_time
    BY <1>4, <1>7
  <2>2. /\ IsCommand(task) /\ ~ IsReply(task.event)
        /\ task.event.payload.number = number
    BY <2>1 DEF IsCommand, IsReply
  <2>3. accepted' = accepted \cup {number} /\ number \notin accepted
    BY <1>2, <1>3, <1>5, <1>7
  <2>4. SessionTypes'
    BY <1>2, <1>3, <1>5, <2>3 DEF IInv, SessionTypes
  <2>5. \A t \in kernel.queue : IsCommand(t) => t.event.payload.number \in accepted
    BY DEF IInv, CommandsSound
  <2>6. number \notin lost /\ \A i \in DOMAIN processed : processed[i].number # number
    BY <2>3 DEF IInv, CommandsSound, SessionTypes
  <2>7. CommandsSound'
    BY <1>5, <2>1, <2>2, <2>3, <2>5, <2>6 DEF IInv, CommandsSound
  <2>8. Delivered' = Delivered
    BY <1>4 DEF Delivered, Kept
  <2>9. RepliesSound'
    BY <1>5, <2>1, <2>2, <2>8 DEF IInv, RepliesSound, RepliesInOrder
  <2>10. ASSUME FifoSound, kernel'.next_sequence # 0 PROVE FifoSound'
    <3>1. \A t \in kernel.queue : t.sequence \in Nat
      BY <1>0 DEF IInv, KernelSound, Kernels, Tasks
    <3>2. kernel.next_sequence \in 1..Limit
      <4>1. task.sequence \in 1..Limit
        BY DEF Tasks
      <4> QED BY <2>1, <4>1
    <3>3. kernel'.next_sequence = kernel.next_sequence + 1
      BY <2>1, <2>10, <3>2, AfterType
    <3>4. \A t \in kernel'.queue : IsCommand(t) => t.sequence < kernel'.next_sequence
      BY <1>0, <2>1, <2>10, <3>1, <3>2, <3>3 DEF FifoSound
    <3>12. \A n \in accepted : n \in Nat /\ n < number
      BY <1>2, <1>3
    <3>5. \A t \in kernel.queue : IsCommand(t) =>
             t.event.payload.number < number /\ t.sequence < task.sequence
      BY <2>1, <2>5, <2>10, <3>12 DEF FifoSound
    <3>6. \A t, u \in kernel'.queue :
            (/\ IsCommand(t) /\ IsCommand(u)
             /\ t.event.payload.number < u.event.payload.number) => t.sequence < u.sequence
      <4>1. \A t \in kernel.queue : IsCommand(t) => t.event.payload.number \in Nat
        BY <2>5, <3>12
      <4> QED BY <1>3, <2>1, <2>2, <2>10, <3>5, <4>1 DEF FifoSound
    <3>7. \A i \in DOMAIN processed :
             /\ processed[i].number \in accepted
             /\ processed[i].time \in Time
             /\ processed[i].time <= kernel.current_time
      <4>1. \A i \in DOMAIN processed : processed[i] \in [number : Nat, time : Time]
        BY ProcessedType DEF IInv
      <4> QED BY <2>10, <4>1 DEF IInv, CommandsSound, FifoSound
    <3>8. kernel.current_time \in Int /\ task.timing.process \in Int
      <4>1. task.timing \in Timing \cup {NoTiming}
        BY DEF Tasks
      <4> QED BY <1>0, <1>3, <4>1 DEF KernelSound, Kernels, Time, NoTime, Timing, NoTiming
    <3>9. \A i \in DOMAIN processed :
            \/ processed[i].time < task.timing.process
            \/ /\ processed[i].time = task.timing.process
               /\ processed[i].number < task.event.payload.number
      <4>1. \A i \in DOMAIN processed :
              processed[i].time \in Int /\ processed[i].time <= task.timing.process
        BY <1>0, <2>1, <3>7, <3>8 DEF Time
      <4>2. \A i \in DOMAIN processed : processed[i].number < task.event.payload.number
        BY <2>2, <3>7, <3>12
      <4> QED BY <3>8, <4>1, <4>2
    <3>10. \A t \in kernel'.queue, i \in DOMAIN processed : IsCommand(t) =>
            \/ processed[i].time < t.timing.process
            \/ /\ processed[i].time = t.timing.process
               /\ processed[i].number < t.event.payload.number
      BY <2>1, <2>10, <3>9 DEF FifoSound
    <3>11. kernel'.current_time = kernel.current_time
      BY <1>4 DEF Kept
    <3> QED BY <1>5, <2>10, <3>4, <3>6, <3>7, <3>10, <3>11 DEF FifoSound, FirstInFirstOut
  <2> QED BY <1>4, <2>4, <2>7, <2>9, <2>10 DEF IInv
<1> QED BY <1>6, <1>7

\* Leaving run_until, or not, keeps the types.
LEMMA DispatchKeepsTypes ==
  ASSUME SessionTypes, Escape, UNCHANGED <<calls, accepted>>,
         lost' \subseteq accepted, processed' \in Seq([number : Nat, time : Time])
  PROVE  SessionTypes'
BY DEF SessionTypes, Escape

\* The time of what has been processed, and the place of the first task before
\* the commands that wait.
LEMMA TopFacts ==
  ASSUME IInv, NEW task, IsTop(kernel, task)
  PROVE  /\ task \in Tasks /\ TaskSound(task) /\ task \in kernel.queue
         /\ task.time \in Nat /\ task.sequence \in Nat
         /\ task.time >= kernel.current_time
         /\ \A t \in kernel.queue : /\ t \in Tasks /\ TaskSound(t)
                                    /\ t.time \in Nat /\ t.sequence \in Nat
                                    /\ t.id \in Nat /\ t.stage \in Nat
         /\ \A t \in kernel.queue \ {task} : scheduled_task_less(task, t)
<1>0. Limit \in Nat \ {0} /\ TimeLimit \in Nat
  BY KernelAssumption
<1>1. KernelSound(kernel) /\ task \in kernel.queue
  BY DEF IInv, IsTop
<1>2. \A t \in kernel.queue : t \in Tasks /\ TaskSound(t) /\ t.time >= kernel.current_time
  BY <1>1 DEF KernelSound, Kernels, QueueDue
<1>3. \A t \in Tasks : /\ t.time \in Nat /\ t.sequence \in Nat
                       /\ t.id \in Nat /\ t.stage \in Nat
  BY <1>0 DEF Tasks, Time, Stages, ExchangeReceive, ExchangeProcess, ObserverAvailable, System
<1> QED BY <1>1, <1>2, <1>3 DEF IsTop

\* A command that has been received waits on, as the same command, or is lost.
LEMMA ReceiveKeeps ==
  ASSUME IInv, NEW task, IsTop(kernel, task), task.stage = ExchangeReceive,
         kernel' = dispatch(kernel, task),
         lost' = IF kernel'.thrown THEN lost \cup {task.event.payload.number} ELSE lost,
         Escape, UNCHANGED <<calls, accepted, processed>>
  PROVE  IInv' /\ (FifoSound => FifoSound')
<1>0. TimeLimit \in Nat
  BY KernelAssumption
<1>1. /\ KernelSound(kernel') /\ kernel'.current_time = task.time
      /\ kernel'.delivered_events = kernel.delivered_events
      /\ kernel'.next_sequence = kernel.next_sequence
      /\ kernel'.thrown => kernel'.queue = kernel.queue \ {task}
      /\ ~ kernel'.thrown => WaitsOn(kernel.queue, kernel'.queue, task)
  <2>1. KernelSound(kernel)
    BY DEF IInv
  <2> QED BY <2>1, ReceiveOutcome
<1>2. /\ task \in Tasks /\ TaskSound(task) /\ task \in kernel.queue
      /\ task.time >= kernel.current_time /\ task.time \in Nat
  BY TopFacts
<1>3. IsCommand(task) /\ task.event.payload \in CommandPayloads /\ ~ IsReply(task.event)
  BY <1>2 DEF IsCommand, TaskSound, CommandPayloads, IsReply
<1>4. task.event.payload.number \in accepted \ lost
  BY <1>2, <1>3 DEF IInv, CommandsSound
<1>5. SessionTypes'
  <2>1. lost' \subseteq accepted /\ processed' \in Seq([number : Nat, time : Time])
    BY <1>4 DEF IInv, SessionTypes
  <2> QED BY <2>1, DispatchKeepsTypes DEF IInv
<1>6. Delivered' = Delivered
  BY <1>1 DEF Delivered
<1>7. \A i \in DOMAIN processed : processed[i].time \in Nat
  BY <1>0, ProcessedType DEF IInv, Time
<1>8. kernel.current_time \in Int
  BY <1>0 DEF IInv, KernelSound, Kernels, Time, NoTime
<1>9. FifoSound => \A i \in DOMAIN processed : processed[i].time <= kernel'.current_time
  BY <1>1, <1>2, <1>7, <1>8 DEF FifoSound
<1>10. CASE kernel'.thrown
  <2>1. kernel'.queue = kernel.queue \ {task} /\ lost' = lost \cup {task.event.payload.number}
    BY <1>1, <1>10
  <2>2. CommandsSound'
    BY <1>2, <1>3, <2>1 DEF IInv, CommandsSound
  <2>3. RepliesSound'
    BY <1>6, <2>1 DEF IInv, RepliesSound, RepliesInOrder
  <2>4. FifoSound => FifoSound'
    BY <1>1, <1>9, <2>1 DEF FifoSound, FirstInFirstOut
  <2> QED BY <1>1, <1>5, <2>2, <2>3, <2>4 DEF IInv
<1>11. CASE ~ kernel'.thrown
  <2>1. PICK moved \in Tasks :
          /\ moved.stage = ExchangeProcess /\ moved.sequence = task.sequence
          /\ moved.event = task.event /\ moved.timing = task.timing
          /\ kernel'.queue = (kernel.queue \ {task}) \cup {moved}
    BY <1>1, <1>11 DEF WaitsOn
  <2>2. lost' = lost /\ IsCommand(moved)
    BY <1>11, <2>1 DEF IsCommand
  <2>3. CommandsSound'
    BY <1>2, <1>3, <2>1, <2>2 DEF IInv, CommandsSound
  <2>4. RepliesSound'
    BY <1>3, <1>6, <2>1 DEF IInv, RepliesSound, RepliesInOrder
  <2>5. ASSUME FifoSound PROVE FifoSound'
    <3>1. \A t \in kernel'.queue : IsCommand(t) =>
            \E u \in kernel.queue : /\ IsCommand(u) /\ u.event = t.event
                                    /\ u.sequence = t.sequence /\ u.timing = t.timing
      BY <1>2, <1>3, <2>1
    <3>2. \A t \in kernel'.queue : IsCommand(t) => t.sequence < kernel'.next_sequence
      BY <1>1, <2>5, <3>1 DEF FifoSound
    <3>3. \A t, u \in kernel'.queue :
            (/\ IsCommand(t) /\ IsCommand(u)
             /\ t.event.payload.number < u.event.payload.number) => t.sequence < u.sequence
      BY <2>5, <3>1 DEF FifoSound
    <3>4. \A t \in kernel'.queue, i \in DOMAIN processed : IsCommand(t) =>
            \/ processed[i].time < t.timing.process
            \/ /\ processed[i].time = t.timing.process
               /\ processed[i].number < t.event.payload.number
      BY <2>5, <3>1 DEF FifoSound
    <3> QED BY <1>9, <2>5, <3>2, <3>3, <3>4 DEF FifoSound, FirstInFirstOut
  <2> QED BY <1>1, <1>5, <2>3, <2>4, <2>5 DEF IInv
<1> QED BY <1>10, <1>11

\* A reply that is delivered is the next one to its command.
LEMMA DeliverKeeps ==
  ASSUME IInv, NEW task, IsTop(kernel, task), ~ IsCommand(task),
         kernel' = dispatch(kernel, task),
         lost' = IF kernel'.thrown THEN lost \cup {task.event.payload.number} ELSE lost,
         Escape, UNCHANGED <<calls, accepted, processed>>
  PROVE  IInv' /\ (FifoSound => FifoSound')
<1>0. TimeLimit \in Nat
  BY KernelAssumption
<1>1. /\ KernelSound(kernel') /\ kernel'.current_time = task.time /\ ~ kernel'.thrown
      /\ kernel'.next_sequence = kernel.next_sequence
      /\ kernel'.queue = kernel.queue \ {task}
      /\ kernel'.delivered_events = Append(kernel.delivered_events, task.event)
  BY DeliverOutcome DEF IInv
<1>2. /\ task \in Tasks /\ TaskSound(task) /\ task \in kernel.queue
      /\ task.time >= kernel.current_time /\ task.time \in Nat /\ task.sequence \in Nat
      /\ \A t \in kernel.queue : t.time \in Nat /\ t.sequence \in Nat /\ t.id \in Nat
      /\ \A t \in kernel.queue \ {task} : scheduled_task_less(task, t)
  BY TopFacts
<1>3. SessionTypes'
  <2>1. lost' \subseteq accepted /\ processed' \in Seq([number : Nat, time : Time])
    BY <1>1 DEF IInv, SessionTypes
  <2> QED BY <2>1, DispatchKeepsTypes DEF IInv
<1>4. CommandsSound'
  BY <1>1 DEF IInv, CommandsSound
<1>5. PICK d, e : d = Delivered /\ e = Delivered'
  OBVIOUS
<1>6. /\ DOMAIN d = 1..Len(d) /\ Len(d) \in Nat /\ DOMAIN e = 1..(Len(d) + 1)
      /\ e[Len(d) + 1] = task.event /\ \A i \in DOMAIN d : e[i] = d[i]
  <2>1. d \in Seq(Events) /\ e = Append(d, task.event)
    BY <1>1, <1>5 DEF IInv, KernelSound, Kernels, Delivered
  <2> QED BY <2>1
<1>7. \A i \in DOMAIN e : i \in DOMAIN d \/ i = Len(d) + 1
  BY <1>6
<1>8. \A i \in DOMAIN d : e[i] = d[i] /\ i < Len(d) + 1
  BY <1>6
<1>9. \A t \in kernel'.queue :
        (/\ IsReply(task.event) /\ IsReply(t.event)
         /\ t.event.payload.number = task.event.payload.number) =>
            task.event.payload.reply < t.event.payload.reply
  <2> SUFFICES ASSUME NEW t \in kernel'.queue, IsReply(task.event), IsReply(t.event),
                      t.event.payload.number = task.event.payload.number
               PROVE  task.event.payload.reply < t.event.payload.reply
    OBVIOUS
  <2>1. t \in kernel.queue /\ t # task
    BY <1>1
  <2>2. /\ t.stage = task.stage /\ t.time = task.time
        /\ \/ task.event.payload.reply < t.event.payload.reply
           \/ t.sequence < task.sequence
    BY <1>2, <2>1 DEF IInv, RepliesSound
  <2>3. scheduled_task_less(task, t)
    BY <1>2, <2>1
  <2>4. t.sequence \in Nat /\ t.time \in Nat /\ t.stage \in Nat
    BY <2>1, TopFacts
  <2>5. ~ (t.sequence < task.sequence)
    BY <1>2, <2>2, <2>3, <2>4 DEF scheduled_task_less
  <2> QED BY <2>2, <2>5
<1>10. RepliesSound'
  <2>1. \A t \in kernel'.queue : IsReply(t.event) =>
          /\ t.stage = ObserverAvailable
          /\ \E i \in DOMAIN processed' : processed'[i].number = t.event.payload.number
    BY <1>1 DEF IInv, RepliesSound
  <2>2. \A t, u \in kernel'.queue :
         (/\ IsReply(t.event) /\ IsReply(u.event) /\ t # u
          /\ t.event.payload.number = u.event.payload.number) =>
            /\ t.time = u.time
            /\ \/ /\ t.event.payload.reply < u.event.payload.reply
                  /\ t.sequence < u.sequence
               \/ /\ u.event.payload.reply < t.event.payload.reply
                  /\ u.sequence < t.sequence
    BY <1>1 DEF IInv, RepliesSound
  <2>3. \A i \in DOMAIN d : IsReply(d[i]) =>
          /\ \E j \in DOMAIN processed : processed[j].number = d[i].payload.number
          /\ \A t \in kernel.queue :
               IsReply(t.event) /\ t.event.payload.number = d[i].payload.number =>
                 d[i].payload.reply < t.event.payload.reply
    BY <1>5 DEF IInv, RepliesSound
  <2>4. IsReply(task.event) =>
          \E j \in DOMAIN processed : processed[j].number = task.event.payload.number
    BY <1>2 DEF IInv, RepliesSound
  <2>5. \A i \in DOMAIN e : IsReply(e[i]) =>
          /\ \E j \in DOMAIN processed' : processed'[j].number = e[i].payload.number
          /\ \A t \in kernel'.queue :
               IsReply(t.event) /\ t.event.payload.number = e[i].payload.number =>
                 e[i].payload.reply < t.event.payload.reply
    BY <1>1, <1>6, <1>7, <1>8, <1>9, <2>3, <2>4
  <2>6. RepliesInOrder'
    <3>1. \A i, j \in DOMAIN d :
            (/\ i < j /\ d[i].payload.kind = "Reply" /\ d[j].payload.kind = "Reply"
             /\ d[i].payload.number = d[j].payload.number) =>
               d[i].payload.reply < d[j].payload.reply
      BY <1>5 DEF IInv, RepliesSound, RepliesInOrder
    <3>2. \A i \in DOMAIN d :
            (/\ d[i].payload.kind = "Reply" /\ task.event.payload.kind = "Reply"
             /\ d[i].payload.number = task.event.payload.number) =>
               d[i].payload.reply < task.event.payload.reply
      BY <1>2, <2>3 DEF IsReply
    <3>3. \A i, j \in DOMAIN e : i < j => i \in DOMAIN d
      BY <1>6
    <3>4. \A i, j \in DOMAIN e :
            (/\ i < j /\ e[i].payload.kind = "Reply" /\ e[j].payload.kind = "Reply"
             /\ e[i].payload.number = e[j].payload.number) =>
               e[i].payload.reply < e[j].payload.reply
      BY <1>6, <1>7, <1>8, <3>1, <3>2, <3>3
    <3> QED BY <1>5, <3>4 DEF RepliesInOrder
  <2> QED BY <1>5, <2>1, <2>2, <2>5, <2>6 DEF RepliesSound
<1>11. ASSUME FifoSound PROVE FifoSound'
  <2>1. \A i \in DOMAIN processed : processed[i].time \in Nat
    BY <1>0, ProcessedType DEF IInv, Time
  <2>2. kernel.current_time \in Int
    BY <1>0 DEF IInv, KernelSound, Kernels, Time, NoTime
  <2>3. \A i \in DOMAIN processed : processed[i].time <= kernel'.current_time
    BY <1>1, <1>2, <1>11, <2>1, <2>2 DEF FifoSound
  <2> QED BY <1>1, <1>11, <2>3 DEF FifoSound, FirstInFirstOut
<1> QED BY <1>1, <1>3, <1>4, <1>10, <1>11 DEF IInv

\* A command that is processed is the first that waits, and has no replies yet.
LEMMA ProcessKeeps ==
  ASSUME IInv, NEW task, IsTop(kernel, task), task.stage = ExchangeProcess,
         NEW replies \in Replies(task.event.payload.number),
         NEW failures \in {<<>>, <<"None">>},
         kernel' = process_exchange(kernel, task, replies, failures),
         processed' = Append(processed, [number |-> task.event.payload.number,
                                         time |-> task.time]),
         Escape, UNCHANGED <<calls, accepted, lost>>
  PROVE  IInv' /\ (FifoSound /\ kernel'.next_sequence # 0 => FifoSound')
<1>0. Limit \in Nat \ {0} /\ TimeLimit \in Nat
  BY KernelAssumption
<1>1. /\ task \in Tasks /\ TaskSound(task) /\ task \in kernel.queue
      /\ task.time >= kernel.current_time /\ task.time \in Nat /\ task.sequence \in Nat
      /\ \A t \in kernel.queue : /\ TaskSound(t) /\ t.time \in Nat
                                 /\ t.sequence \in Nat /\ t.id \in Nat
      /\ \A t \in kernel.queue \ {task} : scheduled_task_less(task, t)
  BY TopFacts
<1>2. PICK number : number = task.event.payload.number
  OBVIOUS
<1>3. IsCommand(task) /\ number \in Nat /\ ~ IsReply(task.event) /\ task.time = task.timing.process
  BY <1>1, <1>2 DEF IsCommand, TaskSound, CommandPayloads, IsReply, ExchangeProcess, ExchangeReceive
<1>4. /\ number \in accepted \ lost
      /\ \A i \in DOMAIN processed : processed[i].number # number
  BY <1>1, <1>2, <1>3 DEF IInv, CommandsSound
<1>5. PICK n \in Nat :
        replies = [i \in 1..n |-> [kind |-> "Reply", number |-> number, reply |-> i]]
  BY <1>2, SessionAssumption DEF Replies
<1>6. PICK p : p = pop_next(kernel, task)
  OBVIOUS
<1>7. KernelSound(kernel') /\ NewReplies(p, kernel', number, n, task.timing.available)
  BY <1>2, <1>5, <1>6, ProcessOutcome DEF IInv
<1>8. /\ KernelSound(p) /\ p.queue = kernel.queue \ {task} /\ p.current_time = task.time
      /\ p.delivered_events = kernel.delivered_events
      /\ p.next_sequence = kernel.next_sequence
  BY <1>6, PopSound DEF IInv
<1>9. PICK new : new = kernel'.queue \ p.queue
  OBVIOUS
<1>10. /\ kernel'.queue = (kernel.queue \ {task}) \cup new
       /\ Delivered' = Delivered /\ kernel'.current_time = task.time
       /\ Advanced(kernel, kernel')
       /\ \A t \in new : /\ t.stage = ObserverAvailable /\ t.time = task.timing.available
                         /\ IsReply(t.event) /\ t.event.payload.number = number
       /\ \A t, u \in new :
            t # u => \/ /\ t.event.payload.reply < u.event.payload.reply
                        /\ t.sequence < u.sequence
                     \/ /\ u.event.payload.reply < t.event.payload.reply
                        /\ u.sequence < t.sequence
  BY <1>7, <1>8, <1>9 DEF NewReplies, Delivered, Advanced, IsReply
<1>11. \A t \in new : ~ IsCommand(t)
  BY <1>10 DEF IsCommand, ObserverAvailable, ExchangeReceive, ExchangeProcess
<1>12. PICK d, e : d = processed /\ e = processed'
  OBVIOUS
<1>13. /\ DOMAIN d = 1..Len(d) /\ Len(d) \in Nat /\ DOMAIN e = 1..(Len(d) + 1)
       /\ e[Len(d) + 1] = [number |-> number, time |-> task.time]
       /\ \A i \in DOMAIN d : e[i] = d[i]
       /\ e \in Seq([number : Nat, time : Time])
  <2>1. d \in Seq([number : Nat, time : Time])
    BY <1>12 DEF IInv, SessionTypes
  <2>2. PICK r : r = [number |-> number, time |-> task.time]
    OBVIOUS
  <2>3. r \in [number : Nat, time : Time]
    BY <1>1, <1>3, <2>2 DEF Tasks
  <2>4. e = Append(d, r)
    BY <1>2, <1>12, <2>2
  <2>5. PICK S : S = [number : Nat, time : Time]
    OBVIOUS
  <2>6. /\ DOMAIN d = 1..Len(d) /\ Len(d) \in Nat /\ DOMAIN e = 1..(Len(d) + 1)
        /\ e[Len(d) + 1] = r /\ \A i \in DOMAIN d : e[i] = d[i]
        /\ e \in Seq(S)
    BY <2>1, <2>3, <2>4, <2>5
  <2> QED BY <2>2, <2>5, <2>6
<1>14. /\ \A i \in DOMAIN e : i \in DOMAIN d \/ i = Len(d) + 1
       /\ \A i \in DOMAIN d : i \in DOMAIN e /\ i < Len(d) + 1 /\ i # Len(d) + 1
       /\ Len(d) + 1 \in DOMAIN e
  BY <1>13
<1>15. e[Len(d) + 1].number = number /\ e[Len(d) + 1].time = task.time
  BY <1>13
<1>16. SessionTypes'
  <2>1. lost' \subseteq accepted /\ processed' \in Seq([number : Nat, time : Time])
    BY <1>12, <1>13 DEF IInv, SessionTypes
  <2> QED BY <2>1, DispatchKeepsTypes DEF IInv
<1>17. \A t \in kernel'.queue : IsCommand(t) => t \in kernel.queue /\ t # task
  BY <1>10, <1>11
<1>18. \A i \in DOMAIN d : e[i].number = d[i].number /\ e[i].time = d[i].time
  BY <1>13
<1>19. CommandsSound'
  <2>1. \A t \in kernel'.queue : IsCommand(t) =>
          /\ t.event.payload.number \in accepted \ lost
          /\ t.event.payload.number # number
          /\ \A i \in DOMAIN d : d[i].number # t.event.payload.number
    BY <1>1, <1>2, <1>3, <1>12, <1>17 DEF IInv, CommandsSound
  <2>2. \A t \in kernel'.queue : IsCommand(t) =>
          /\ t.event.payload.number \in accepted' \ lost'
          /\ \A i \in DOMAIN e : e[i].number # t.event.payload.number
    BY <1>14, <1>15, <1>18, <2>1
  <2>3. \A t, u \in kernel'.queue :
         IsCommand(t) /\ IsCommand(u) /\ t # u =>
           t.event.payload.number # u.event.payload.number
    BY <1>17 DEF IInv, CommandsSound
  <2>4. \A i \in DOMAIN e : e[i].number \in accepted' \ lost'
    <3>1. \A i \in DOMAIN d : d[i].number \in accepted \ lost
      BY <1>12 DEF IInv, CommandsSound
    <3> QED BY <1>4, <1>14, <1>15, <1>18, <3>1
  <2>5. \A i, j \in DOMAIN e : i # j => e[i].number # e[j].number
    <3>1. \A i, j \in DOMAIN d : i # j => d[i].number # d[j].number
      BY <1>12 DEF IInv, CommandsSound
    <3> QED BY <1>4, <1>12, <1>14, <1>15, <1>18, <3>1
  <2>6. \A m \in accepted' :
         \/ m \in lost'
         \/ \E i \in DOMAIN e : e[i].number = m
         \/ \E t \in kernel'.queue : IsCommand(t) /\ t.event.payload.number = m
    <3> SUFFICES ASSUME NEW m \in accepted, m \notin lost, m # number
                 PROVE  \/ \E i \in DOMAIN e : e[i].number = m
                        \/ \E t \in kernel'.queue : IsCommand(t) /\ t.event.payload.number = m
      BY <1>14, <1>15
    <3>1. \/ \E i \in DOMAIN d : d[i].number = m
          \/ \E t \in kernel.queue : IsCommand(t) /\ t.event.payload.number = m
      BY <1>12 DEF IInv, CommandsSound
    <3> QED BY <1>2, <1>10, <1>14, <1>18, <3>1
  <2> QED BY <1>12, <2>2, <2>3, <2>4, <2>5, <2>6 DEF CommandsSound
<1>20. /\ \A t \in kernel.queue : IsReply(t.event) => t.event.payload.number # number
       /\ \A i \in DOMAIN Delivered : IsReply(Delivered[i]) => Delivered[i].payload.number # number
  BY <1>4 DEF IInv, RepliesSound
<1>21. RepliesSound'
  <2>1. \A m : (\E i \in DOMAIN d : d[i].number = m) => \E i \in DOMAIN e : e[i].number = m
    BY <1>14, <1>18
  <2>2. \A t \in kernel'.queue : IsReply(t.event) =>
          /\ t.stage = ObserverAvailable
          /\ \E i \in DOMAIN e : e[i].number = t.event.payload.number
    <3>1. \A t \in kernel.queue : IsReply(t.event) =>
            /\ t.stage = ObserverAvailable
            /\ \E i \in DOMAIN d : d[i].number = t.event.payload.number
      BY <1>12 DEF IInv, RepliesSound
    <3> QED BY <1>10, <1>14, <1>15, <2>1, <3>1
  <2>3. \A t, u \in kernel'.queue :
         (/\ IsReply(t.event) /\ IsReply(u.event) /\ t # u
          /\ t.event.payload.number = u.event.payload.number) =>
            /\ t.time = u.time
            /\ \/ /\ t.event.payload.reply < u.event.payload.reply
                  /\ t.sequence < u.sequence
               \/ /\ u.event.payload.reply < t.event.payload.reply
                  /\ u.sequence < t.sequence
    <3> SUFFICES ASSUME NEW t \in kernel'.queue, NEW u \in kernel'.queue,
                        IsReply(t.event), IsReply(u.event), t # u,
                        t.event.payload.number = u.event.payload.number
                 PROVE  /\ t.time = u.time
                        /\ \/ /\ t.event.payload.reply < u.event.payload.reply
                              /\ t.sequence < u.sequence
                           \/ /\ u.event.payload.reply < t.event.payload.reply
                              /\ u.sequence < t.sequence
      OBVIOUS
    <3>1. CASE t \in new /\ u \in new
      BY <1>10, <3>1
    <3>2. CASE t \in kernel.queue /\ u \in kernel.queue
      BY <3>2 DEF IInv, RepliesSound
    <3>3. (t \in new \/ t \in kernel.queue) /\ (u \in new \/ u \in kernel.queue)
      BY <1>10
    <3> QED BY <1>10, <1>20, <3>1, <3>2, <3>3
  <2>4. \A i \in DOMAIN Delivered : IsReply(Delivered[i]) =>
          /\ \E j \in DOMAIN e : e[j].number = Delivered[i].payload.number
          /\ \A t \in kernel'.queue :
               IsReply(t.event) /\ t.event.payload.number = Delivered[i].payload.number =>
                 Delivered[i].payload.reply < t.event.payload.reply
    <3>1. \A i \in DOMAIN Delivered : IsReply(Delivered[i]) =>
            /\ \E j \in DOMAIN d : d[j].number = Delivered[i].payload.number
            /\ \A t \in kernel.queue :
                 IsReply(t.event) /\ t.event.payload.number = Delivered[i].payload.number =>
                   Delivered[i].payload.reply < t.event.payload.reply
      BY <1>12 DEF IInv, RepliesSound
    <3> QED BY <1>10, <1>20, <2>1, <3>1
  <2>5. RepliesInOrder'
    BY <1>10 DEF IInv, RepliesSound, RepliesInOrder
  <2> QED BY <1>10, <1>12, <2>2, <2>3, <2>4, <2>5 DEF RepliesSound
<1>22. ASSUME FifoSound, kernel'.next_sequence # 0 PROVE FifoSound'
  <2>1. kernel.next_sequence <= kernel'.next_sequence
    BY <1>10, <1>22 DEF Advanced
  <2>2. kernel.next_sequence \in Nat /\ kernel'.next_sequence \in Nat
    BY <1>0, <1>7 DEF IInv, KernelSound, Kernels
  <2>3. \A t \in kernel'.queue : IsCommand(t) => t.sequence < kernel'.next_sequence
    BY <1>1, <1>17, <1>22, <2>1, <2>2 DEF FifoSound
  <2>4. \A t, u \in kernel'.queue :
          (/\ IsCommand(t) /\ IsCommand(u)
           /\ t.event.payload.number < u.event.payload.number) => t.sequence < u.sequence
    BY <1>17, <1>22 DEF FifoSound
  <2>5. \A n1 \in accepted : n1 \in Nat
    BY DEF IInv, SessionTypes
  <2>6. \A t \in kernel.queue : IsCommand(t) => t.event.payload.number \in accepted
    BY DEF IInv, CommandsSound
  <2>7. \A t \in kernel'.queue : IsCommand(t) =>
          \/ task.time < t.timing.process
          \/ /\ task.time = t.timing.process
             /\ number < t.event.payload.number
    <3> SUFFICES ASSUME NEW t \in kernel'.queue, IsCommand(t)
                 PROVE  \/ task.time < t.timing.process
                        \/ /\ task.time = t.timing.process
                           /\ number < t.event.payload.number
      OBVIOUS
    <3>1. t \in kernel.queue /\ t # task /\ scheduled_task_less(task, t)
      BY <1>1, <1>17
    <3>2. t.event.payload.number # number
      BY <1>1, <1>2, <1>3, <3>1 DEF IInv, CommandsSound
    <3>3. t.event.payload.number \in Nat
      BY <2>5, <2>6, <3>1
    <3>4. t.event.payload.number < number => t.sequence < task.sequence
      BY <1>1, <1>2, <1>3, <1>22, <3>1 DEF FifoSound
    <3>5. CASE t.stage = ExchangeReceive
      <4>1. task.time < t.time
        BY <1>1, <3>1, <3>5 DEF scheduled_task_less, ExchangeReceive, ExchangeProcess
      <4>2. t.time <= t.timing.process
        BY <1>1, <3>1, <3>5 DEF TaskSound, IsCommand
      <4>3. t.timing.process \in Nat
        BY <1>0, <1>1, <3>1, <3>5 DEF TaskSound, IsCommand, Timing, Time
      <4> QED BY <1>1, <3>1, <4>1, <4>2, <4>3
    <3>6. CASE t.stage = ExchangeProcess
      <4>1. t.time = t.timing.process
        BY <1>1, <3>1, <3>6 DEF TaskSound, IsCommand, ExchangeReceive, ExchangeProcess
      <4>2. \/ task.time < t.time
            \/ task.time = t.time /\ ~ (t.sequence < task.sequence)
        BY <1>1, <3>1, <3>6 DEF scheduled_task_less, ExchangeProcess
      <4> QED BY <1>3, <3>2, <3>3, <3>4, <4>1, <4>2
    <3> QED BY <3>5, <3>6 DEF IsCommand
  <2>8. \A t \in kernel'.queue, i \in DOMAIN e : IsCommand(t) =>
          \/ e[i].time < t.timing.process
          \/ /\ e[i].time = t.timing.process
             /\ e[i].number < t.event.payload.number
    <3>1. \A t \in kernel'.queue, i \in DOMAIN d : IsCommand(t) =>
          \/ d[i].time < t.timing.process
          \/ /\ d[i].time = t.timing.process
             /\ d[i].number < t.event.payload.number
      BY <1>12, <1>17, <1>22 DEF FifoSound
    <3> QED BY <1>14, <1>15, <1>18, <2>7, <3>1
  <2>9. \A i \in DOMAIN d : d[i].time \in Nat /\ d[i].time <= task.time
    <3>1. \A i \in DOMAIN processed : processed[i].time \in Nat
      BY <1>0, ProcessedType DEF IInv, Time
    <3>2. kernel.current_time \in Int
      BY <1>0 DEF IInv, KernelSound, Kernels, Time, NoTime
    <3> QED BY <1>1, <1>12, <1>22, <3>1, <3>2 DEF FifoSound
  <2>10. \A i \in DOMAIN e : e[i].time <= kernel'.current_time
    BY <1>1, <1>10, <1>14, <1>15, <1>18, <2>9
  <2>11. \A i \in DOMAIN d :
           \/ d[i].time < task.time
           \/ d[i].time = task.time /\ d[i].number < number
    BY <1>1, <1>2, <1>3, <1>12, <1>22 DEF FifoSound
  <2>12. \A i, j \in DOMAIN d :
           i < j => \/ d[i].time < d[j].time
                    \/ d[i].time = d[j].time /\ d[i].number < d[j].number
    BY <1>12, <1>22 DEF FifoSound, FirstInFirstOut
  <2>13. \A i, j \in DOMAIN e : i < j => i \in DOMAIN d
    BY <1>13
  <2>14. \A i, j \in DOMAIN e :
           i < j => \/ e[i].time < e[j].time
                    \/ e[i].time = e[j].time /\ e[i].number < e[j].number
    BY <1>14, <1>15, <1>18, <2>11, <2>12, <2>13
  <2> QED BY <1>12, <2>3, <2>4, <2>8, <2>10, <2>14 DEF FifoSound, FirstInFirstOut
<1> QED BY <1>7, <1>16, <1>19, <1>21, <1>22 DEF IInv

LEMMA DispatchTaskKeeps ==
  ASSUME IInv, DispatchTask
  PROVE  IInv' /\ (FifoSound /\ kernel'.next_sequence # 0 => FifoSound')
<1>1. PICK task \in kernel.queue :
        /\ IsTop(kernel, task)
        /\ task.time <= until
        /\ \/ /\ task.stage # ExchangeProcess
              /\ kernel' = dispatch(kernel, task)
              /\ lost' = IF kernel'.thrown THEN lost \cup {task.event.payload.number} ELSE lost
              /\ UNCHANGED processed
           \/ /\ task.stage = ExchangeProcess
              /\ \E replies \in Replies(task.event.payload.number), failures \in {<<>>, <<"None">>} :
                   kernel' = process_exchange(kernel, task, replies, failures)
              /\ processed' = Append(processed, [number |-> task.event.payload.number,
                                                 time |-> task.time])
              /\ UNCHANGED lost
        /\ Escape
        /\ UNCHANGED <<calls, accepted>>
  BY DEF DispatchTask
<1>2. CASE task.stage = ExchangeProcess
  BY <1>1, <1>2, ProcessKeeps
<1>3. CASE task.stage = ExchangeReceive
  <2>1. ExchangeReceive # ExchangeProcess
    BY DEF ExchangeReceive, ExchangeProcess
  <2> QED BY <1>1, <1>3, <2>1, ReceiveKeeps
<1>4. CASE ~ IsCommand(task)
  <2>1. task.stage # ExchangeProcess
    BY <1>4 DEF IsCommand
  <2> QED BY <1>1, <1>4, <2>1, DeliverKeeps
<1> QED BY <1>2, <1>3, <1>4 DEF IsCommand

LEMMA NextKeeps ==
  ASSUME IInv, [Next]_vars
  PROVE  /\ IInv'
         /\ (/\ FifoSound
             /\ kernel.next_sequence # 0
             /\ kernel'.next_sequence # 0) => FifoSound'
<1>1. CASE ScheduleCommand
  BY <1>1, ScheduleCommandKeeps
<1>2. CASE ScheduleTimer
  BY <1>2, ScheduleTimerKeeps
<1>3. CASE ScheduleMarketEvent
  BY <1>3, ScheduleMarketEventKeeps
<1>4. CASE RunUntil
  BY <1>4, RunUntilKeeps
<1>5. CASE DispatchTask
  BY <1>5, DispatchTaskKeeps
<1>6. CASE UNCHANGED vars
  BY <1>6 DEF vars, IInv, SessionTypes, CommandsSound, RepliesSound, RepliesInOrder,
              Delivered, FifoSound, FirstInFirstOut
<1> QED BY <1>1, <1>2, <1>3, <1>4, <1>5, <1>6 DEF Next

-----------------------------------------------------------------------------
(***************************************************************************)
(* The theorems.                                                           *)
(***************************************************************************)

\* In every reachable state of a session the kernel, its commands and its
\* replies are as IInv says.
THEOREM KernelInvariance == Spec => []IInv
<1>1. Init => IInv
  BY InitIInv
<1>2. IInv /\ [Next]_vars => IInv'
  BY NextKeeps
<1> QED BY <1>1, <1>2, PTL DEF Spec

\* The counters and times of the kernel stay in their width, and no task waits
\* in the past (scheduler.cpp).
THEOREM KernelTypes == Spec => []TypeOK
<1>1. IInv => TypeOK
  <2> SUFFICES ASSUME IInv PROVE TypeOK
    OBVIOUS
  <2>1. kernel \in Kernels /\ QueueDue(kernel) /\ SessionTypes
    BY DEF IInv, KernelSound
  <2>2. \A task \in kernel.queue :
          /\ task.id \in 1..Limit /\ task.sequence \in 1..Limit
          /\ task.time \in Time /\ task.time >= kernel.current_time
    BY <2>1 DEF Kernels, Tasks, QueueDue
  <2> QED BY <2>1, <2>2 DEF TypeOK, Kernels, SessionTypes
<1> QED BY <1>1, KernelInvariance, PTL

\* A set that holds one thing, or none.
LEMMA OneOrNone ==
  /\ Cardinality({}) = 0
  /\ \A S, x : S = {x} => Cardinality(S) = 1
BY FS_EmptySet, FS_Singleton

\* A queue holds every accepted command once until it is processed, and nothing
\* is processed twice, whatever a caller schedules and whatever throws
\* (kernel.cpp, scheduler.cpp): the property that QueueSound names.
THEOREM QueueAlwaysSound == Spec => []QueueSound
<1>1. IInv => CommandsAccounted
  <2> SUFFICES ASSUME IInv, NEW number \in accepted
               PROVE  Cardinality({task \in kernel.queue :
                         /\ task.stage \in {ExchangeReceive, ExchangeProcess}
                         /\ task.event.payload.number = number})
                        + Cardinality({i \in DOMAIN processed : processed[i].number = number})
                        + Cardinality({number} \cap lost) = 1
    BY DEF CommandsAccounted
  <2>1. PICK W, P, L :
          /\ W = {task \in kernel.queue : /\ task.stage \in {ExchangeReceive, ExchangeProcess}
                                          /\ task.event.payload.number = number}
          /\ P = {i \in DOMAIN processed : processed[i].number = number}
          /\ L = {number} \cap lost
    OBVIOUS
  <2> SUFFICES Cardinality(W) + Cardinality(P) + Cardinality(L) = 1
    BY <2>1
  <2>2. CASE number \in lost
    <3>1. W = {} /\ P = {} /\ L = {number}
      BY <2>1, <2>2 DEF IInv, CommandsSound, IsCommand
    <3>2. Cardinality(W) = 0 /\ Cardinality(P) = 0 /\ Cardinality(L) = 1
      BY <3>1, OneOrNone
    <3> QED BY <3>2
  <2>3. CASE number \notin lost /\ \E i \in DOMAIN processed : processed[i].number = number
    <3>1. PICK i \in DOMAIN processed : processed[i].number = number
      BY <2>3
    <3>2. W = {} /\ P = {i} /\ L = {}
      BY <2>1, <2>3, <3>1 DEF IInv, CommandsSound, IsCommand
    <3>3. Cardinality(W) = 0 /\ Cardinality(P) = 1 /\ Cardinality(L) = 0
      BY <3>2, OneOrNone
    <3> QED BY <3>3
  <2>4. CASE number \notin lost /\ ~ \E i \in DOMAIN processed : processed[i].number = number
    <3>1. PICK t \in kernel.queue : IsCommand(t) /\ t.event.payload.number = number
      BY <2>4 DEF IInv, CommandsSound
    <3>2. W = {t} /\ P = {} /\ L = {}
      BY <2>1, <2>4, <3>1 DEF IInv, CommandsSound, IsCommand
    <3>3. Cardinality(W) = 1 /\ Cardinality(P) = 0 /\ Cardinality(L) = 0
      BY <3>2, OneOrNone
    <3> QED BY <3>3
  <2> QED BY <2>2, <2>3, <2>4
<1>2. IInv => EventIdsUnique
  BY DEF IInv, KernelSound, IdsUnique, EventIdsUnique, Delivered
<1>3. IInv /\ TypeOK => QueueSound
  BY <1>1, <1>2 DEF QueueSound
<1> QED BY <1>3, KernelInvariance, KernelTypes, PTL

\* Nobody observes an event before its time or out of order, and the replies to
\* a command are observed in the order in which the engine gave them, for any
\* latencies and also when the counters run out (kernel_exchange.cpp).
THEOREM ObservedInOrder == Spec => [](DeliveredInOrder /\ RepliesInOrder)
<1>1. IInv => DeliveredInOrder /\ RepliesInOrder
  BY DEF IInv, KernelSound, InOrder, DeliveredInOrder, Delivered, RepliesSound
<1> QED BY <1>1, KernelInvariance, PTL

\* As long as the counter of canonical sequences is not exhausted, which takes
\* 2^64 events, commands that reach the exchange together are processed in the
\* order of their calls, too.
THEOREM DeliveryAlwaysOrdered ==
  Spec /\ [](kernel.next_sequence # 0) => []DeliveryOrdered
<1>1. Init => FifoSound
  BY InitIInv
<1>2. (/\ IInv /\ FifoSound /\ [Next]_vars
       /\ kernel.next_sequence # 0 /\ (kernel.next_sequence # 0)') => FifoSound'
  BY NextKeeps
<1>3. IInv /\ FifoSound /\ DeliveredInOrder /\ RepliesInOrder => DeliveryOrdered
  BY DEF DeliveryOrdered, FifoSound
<1> QED BY <1>1, <1>2, <1>3, KernelInvariance, ObservedInOrder, PTL DEF Spec
=============================================================================
