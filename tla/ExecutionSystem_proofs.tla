------------------------ MODULE ExecutionSystem_proofs ------------------------
(***************************************************************************)
(* Proofs about the execution of a parent order, for any latencies, any    *)
(* market and any configuration of the loop.  They follow every message    *)
(* between the loop and the exchange: a command on its way, an event that  *)
(* has not been applied, a failure that has not been reported.             *)
(***************************************************************************)
EXTENDS ExecutionSystem, SumTheorems, SequenceTheorems

-----------------------------------------------------------------------------
(***************************************************************************)
(* The shapes of messages and objects.                                     *)
(***************************************************************************)

Submits  == [kind : {"Submit"}, client : ClientIds, tif : {"GTC", "IOC"}, quantity : Nat]
Cancels  == [kind : {"Cancel"}, client : ClientIds, exchange_order_id : Nat]
Replaces == [kind : {"Replace"}, client : ClientIds, new_client : ClientIds,
             quantity : Nat, exchange_order_id : Nat]
Commands == Submits \cup Cancels \cup Replaces

Acks        == [kind : {"OrderAcknowledged"}, client : ClientIds, exchange_order_id : Nat,
                quantity : Nat]
Rejections  == [kind : {"OrderRejected"}, client : ClientIds]
CancelAcks  == [kind : {"CancelAcknowledged"}, client : ClientIds, exchange_order_id : Nat,
                cum : Nat]
FillEvents  == [kind : {"Fill"}, client : ClientIds, exchange_order_id : Nat,
                execution : Nat, quantity : Nat, cum : Nat, leaves : Nat]
ReplaceAcks == [kind : {"ReplaceAcknowledged"}, client : ClientIds, new_client : ClientIds,
                exchange_order_id : Nat, quantity : Nat]
Replies     == Acks \cup Rejections \cup CancelAcks \cup FillEvents \cup ReplaceAcks
Completed   == [kind : {"TerminalCompletion"}, quantity : Nat]

KernelShape(k) ==
  /\ k = [queue |-> k.queue, current_time |-> k.current_time,
          next_task_id |-> k.next_task_id, next_event_id |-> k.next_event_id,
          next_sequence |-> k.next_sequence, event_ids |-> k.event_ids,
          delivered_events |-> k.delivered_events, failures |-> k.failures,
          thrown |-> k.thrown]
  /\ k.thrown \in BOOLEAN

StateShape(s) ==
  /\ s = [children |-> s.children, filled |-> s.filled,
          terminal_applied |-> s.terminal_applied, terminal_pending |-> s.terminal_pending,
          events |-> s.events, executions |-> s.executions, issues |-> s.issues]
  /\ s.children \in [ClientIds -> Child \cup {NoChild}]
  /\ s.filled \in 0..ParentQuantity

ExchangeShape(x) ==
  /\ x = [orders |-> x.orders, next_exchange_order_id |-> x.next_exchange_order_id,
          next_execution_id |-> x.next_execution_id]
  /\ x.orders \in [ClientIds -> Order \cup {NoOrder}]
  /\ x.next_exchange_order_id \in Nat \ {0} /\ x.next_execution_id \in Nat

IsCommand(task) == task.stage \in {ExchangeReceive, ExchangeProcess}

\* A task carries what its stage is about.
TaskSound(task) ==
  \/ IsCommand(task) /\ task.event.payload \in Commands \cup {[kind |-> "Take"]}
  \/ task.stage = ObserverAvailable /\ task.event.payload \in Replies
  \/ task.stage = System /\ task.event.payload \in Completed

FailureSound(failure) ==
  /\ failure.command \in Commands
  /\ failure.current_state \in {NoState} \cup Terminals

\* A sequence, of whatever.
Listed(s) == \E S : s \in Seq(S)

Shapes ==
  /\ KernelShape(kernel) /\ StateShape(state) /\ ExchangeShape(exchange)
  /\ \A task \in kernel.queue : TaskSound(task)
  /\ Listed(kernel.delivered_events) /\ Listed(kernel.failures)
  /\ \A i \in 1..Len(kernel.delivered_events) :
       kernel.delivered_events[i].payload \in Replies \cup Completed
  /\ \A i \in 1..Len(kernel.failures) : FailureSound(kernel.failures[i])
  /\ cursor \in 0..Len(kernel.delivered_events)
  /\ routed \in 0..Len(kernel.failures)

-----------------------------------------------------------------------------
(***************************************************************************)
(* What is under way about a child order.                                  *)
(***************************************************************************)

\* The clients that a message names, and the one whose order a command opens.
Names(p) ==
  IF p.kind \in {"Replace", "ReplaceAcknowledged"} THEN {p.client, p.new_client}
  ELSE IF p.kind \in {"Submit", "Cancel"} \cup ChildEvents THEN {p.client}
  ELSE {}

Opens(p) ==
  IF p.kind = "Submit" THEN {p.client} ELSE IF p.kind = "Replace" THEN {p.new_client} ELSE {}

\* Commands on their way, events and failures that have not been applied.
Sent   == {task \in kernel.queue : IsCommand(task)}
Told   == {task.event.payload : task \in {task \in kernel.queue : task.stage = ObserverAvailable}}
            \cup {kernel.delivered_events[i].payload :
                    i \in (cursor + 1)..Len(kernel.delivered_events)}
Failed == (routed + 1)..Len(kernel.failures)

SentAbout(c)   == {task \in Sent : c \in Names(task.event.payload)}
ToldAbout(c)   == {p \in Told : c \in Names(p)}
FailedAbout(c) == {i \in Failed : c \in Names(kernel.failures[i].command)}

Has(c)   == c \in ClientIds /\ exchange.orders[c] # NoOrder
Knows(c) == knows_client_order_id(state, c)

\* A child that has been registered and that the exchange has not accepted.
Fresh(c) ==
  /\ Knows(c) /\ ~Has(c)
  /\ state.children[c].state = "PendingNew"
  /\ state.children[c].exchange_order_id = NoExchangeId
  /\ ToldAbout(c) = {}

\* Whether an event says that the order of client c is over.
Ends(p, c) ==
  /\ \/ p.kind \in {"OrderRejected", "CancelAcknowledged", "ReplaceAcknowledged"}
     \/ p.kind = "Fill" /\ p.leaves = 0
  /\ c = p.client

\* Nothing is under way about a client that the state does not know.
UnknownUntouched ==
  \A c \in ClientIds : ~Knows(c) =>
    ~Has(c) /\ SentAbout(c) = {} /\ ToldAbout(c) = {} /\ FailedAbout(c) = {}

\* The command that opens an order is the only message about it.
OpeningAlone ==
  \A task \in Sent : \A c \in Opens(task.event.payload) :
    Fresh(c) /\ SentAbout(c) = {task} /\ FailedAbout(c) = {}

\* And so is the failure of a replacement about its new order.
RefusalAlone ==
  \A i \in Failed : kernel.failures[i].command.kind = "Replace" =>
    LET c == kernel.failures[i].command.new_client
    IN  Fresh(c) /\ SentAbout(c) = {} /\ FailedAbout(c) = {i}

\* A cancel or a replacement is of an order that the exchange has accepted.
TargetsAccepted ==
  \A task \in Sent :
    task.event.payload.kind \in {"Cancel", "Replace"} => Has(task.event.payload.client)

\* A failure tells of an order that was never opened or that is over.
FailuresTrue ==
  \A i \in Failed :
    LET failure == kernel.failures[i]
        c == failure.command.client
    IN  IF failure.command.kind = "Submit" THEN ~Has(c)
        ELSE Has(c) /\ (failure.current_state # NoState => c \notin Live)

\* And so do the events that say so; the others are about accepted orders.
EventsTrue ==
  \A p \in Told :
    /\ IF p.kind = "OrderRejected" THEN ~Has(p.client) ELSE \A c \in Names(p) : Has(c)
    /\ \A c \in ClientIds : Ends(p, c) => c \notin Live

\* The state has an exchange id only of an order that was accepted.
IdsGiven ==
  \A c \in ClientIds :
    Knows(c) /\ state.children[c].exchange_order_id # NoExchangeId => Has(c)

IInv ==
  /\ Shapes /\ UnknownUntouched /\ OpeningAlone /\ RefusalAlone /\ TargetsAccepted
  /\ FailuresTrue /\ EventsTrue /\ IdsGiven /\ NoForgottenOrder

-----------------------------------------------------------------------------
(***************************************************************************)
(* Sequences.                                                              *)
(***************************************************************************)

LEMMA ListedAppend ==
  ASSUME NEW s, Listed(s), NEW e
  PROVE  /\ Listed(Append(s, e)) /\ Len(s) \in Nat
         /\ Len(Append(s, e)) = Len(s) + 1
         /\ Append(s, e)[Len(s) + 1] = e
         /\ \A i \in 1..Len(s) : Append(s, e)[i] = s[i]
<1>1. PICK S : s \in Seq(S)
  BY DEF Listed
<1>2. s \in Seq(S \cup {e}) /\ e \in S \cup {e}
  BY <1>1
<1>3. Append(s, e) \in Seq(S \cup {e})
  BY <1>2
<1>4. Listed(Append(s, e))
  BY <1>3 DEF Listed
<1> QED BY <1>2, <1>4

-----------------------------------------------------------------------------
(***************************************************************************)
(* What the member functions of the kernel do to its queue.                *)
(***************************************************************************)

\* Nothing but the queue and the counters has changed.
Keeps(k, q) ==
  /\ KernelShape(q)
  /\ q.delivered_events = k.delivered_events /\ q.failures = k.failures

\* One task has come into the queue, or an exception was thrown.
Puts(k, q, stage, payload) ==
  /\ Keeps(k, q)
  /\ \/ q.thrown /\ q.queue = k.queue
     \/ /\ ~q.thrown
        /\ \E task : /\ task.stage = stage /\ task.event.payload = payload
                     /\ q.queue = k.queue \cup {task}

LEMMA SchedulePuts ==
  ASSUME NEW k, KernelShape(k), NEW time, NEW stage, NEW sequence, NEW event, NEW timing,
         NEW q, q = schedule(k, time, stage, sequence, event, timing)
  PROVE  Puts(k, q, stage, event.payload)
<1> DEFINE task == [id |-> k.next_task_id, time |-> time, stage |-> stage,
                    sequence |-> sequence, event |-> event, timing |-> timing]
<1>1. CASE k.thrown
  <2>1. q = k
    BY <1>1 DEF schedule
  <2> QED BY <1>1, <2>1 DEF Puts, Keeps
<1>2. CASE ~k.thrown /\ (sequence = 0 \/ k.next_task_id = 0 \/ time < k.current_time)
  <2>1. q = [k EXCEPT !.thrown = TRUE]
    BY <1>2 DEF schedule, Throw
  <2> QED BY <2>1 DEF Puts, Keeps, KernelShape
<1>3. CASE ~k.thrown /\ ~(sequence = 0 \/ k.next_task_id = 0 \/ time < k.current_time)
  <2>1. q = [k EXCEPT !.next_task_id = After(k.next_task_id), !.queue = k.queue \cup {task}]
    BY <1>3 DEF schedule
  <2>2. task.stage = stage /\ task.event.payload = event.payload
    OBVIOUS
  <2> HIDE DEF task
  <2>3. Keeps(k, q) /\ q.thrown = k.thrown /\ q.queue = k.queue \cup {task}
    BY <2>1 DEF Keeps, KernelShape
  <2> QED BY <1>3, <2>2, <2>3 DEF Puts
<1> QED BY <1>1, <1>2, <1>3

LEMMA GeneratePuts ==
  ASSUME NEW k, KernelShape(k), NEW payload, NEW available, NEW stage, NEW timing,
         NEW q, q = Generate(k, payload, available, stage, timing)
  PROVE  Puts(k, q, stage, payload)
<1> DEFINE free == FreeEventIds(k)
           event == [id |-> Min(free), payload |-> payload, available |-> available]
           numbered == [k EXCEPT !.next_sequence = After(k.next_sequence)]
<1>1. CASE k.thrown
  <2>1. q = k
    BY <1>1 DEF Generate
  <2> QED BY <1>1, <2>1 DEF Puts, Keeps
<1>2. CASE ~k.thrown /\ k.next_sequence = 0
  <2>1. q = [k EXCEPT !.thrown = TRUE]
    BY <1>2 DEF Generate, Throw
  <2> QED BY <2>1 DEF Puts, Keeps, KernelShape
<1>3. CASE ~k.thrown /\ k.next_sequence # 0 /\ free = {}
  <2>1. q = [[numbered EXCEPT !.next_event_id = IF numbered.next_event_id = 0 THEN 0 ELSE Limit]
              EXCEPT !.thrown = TRUE]
    BY <1>3 DEF Generate, Throw
  <2> QED BY <2>1 DEF Puts, Keeps, KernelShape
<1>4. CASE ~k.thrown /\ k.next_sequence # 0 /\ free # {}
  <2> DEFINE other == [numbered EXCEPT !.event_ids = numbered.event_ids \cup {Min(free)},
                                       !.next_event_id = After(Min(free))]
  <2>1. q = schedule(other, available, stage, k.next_sequence, event, timing)
    BY <1>4 DEF Generate
  <2>2. KernelShape(other)
    <3>1. KernelShape(numbered)
      <4> DEFINE n == After(k.next_sequence)
      <4>1. numbered = [k EXCEPT !.next_sequence = n]
        OBVIOUS
      <4> HIDE DEF n, numbered
      <4> QED BY <4>1 DEF KernelShape
    <3> DEFINE a == numbered.event_ids \cup {Min(free)}
               b == After(Min(free))
    <3>2. other = [numbered EXCEPT !.event_ids = a, !.next_event_id = b]
      OBVIOUS
    <3> HIDE DEF numbered, a, b, other
    <3> QED BY <3>1, <3>2 DEF KernelShape
  <2>5. /\ other.queue = k.queue
        /\ other.delivered_events = k.delivered_events /\ other.failures = k.failures
    BY DEF KernelShape
  <2>3. event.payload = payload
    OBVIOUS
  <2> HIDE DEF other, event
  <2>4. Puts(other, q, stage, payload)
    BY <2>1, <2>2, <2>3, SchedulePuts
  <2> QED BY <2>5, <2>4 DEF Puts, Keeps
<1> QED BY <1>1, <1>2, <1>3, <1>4 DEF KernelShape

\* Some tasks of one stage have come into the queue, each with one of the payloads.
Posts(k, q, stage, payloads) ==
  /\ Keeps(k, q)
  /\ k.queue \subseteq q.queue
  /\ \A task \in q.queue \ k.queue : task.stage = stage /\ task.event.payload \in payloads

LEMMA PutsIsAdding ==
  ASSUME NEW k, NEW q, NEW r, NEW stage, NEW payloads, Posts(k, q, stage, payloads),
         NEW payload \in payloads, Puts(q, r, stage, payload)
  PROVE  Posts(k, r, stage, payloads)
BY DEF Posts, Puts, Keeps

\* f gives the kernel after each of the replies.
Emits(f, k, replies, available, n) ==
  f = [i \in 0..n |->
        IF i = 0 THEN k
        ELSE Generate(f[i - 1], replies[i], available, ObserverAvailable, NoTiming)]

LEMMA EmitsExists ==
  ASSUME NEW k, NEW replies, NEW available, NEW n \in Nat
  PROVE  \E f : Emits(f, k, replies, available, n)
<1> DEFINE Good == {m \in Nat : \E f : Emits(f, k, replies, available, m)}
<1>1. 0 \in Good
  <2>1. Emits([i \in 0..0 |-> k], k, replies, available, 0)
    BY DEF Emits
  <2> QED BY <2>1
<1>2. ASSUME NEW m \in Nat, m \in Good PROVE m + 1 \in Good
  <2>1. PICK f : Emits(f, k, replies, available, m)
    BY <1>2
  <2> DEFINE g == [i \in 0..(m + 1) |->
                     IF i = 0 THEN k
                     ELSE Generate(f[i - 1], replies[i], available, ObserverAvailable, NoTiming)]
  <2>2. \A i \in 0..m : g[i] = f[i]
    BY <2>1 DEF Emits
  <2>3. \A i \in 0..(m + 1) : i # 0 => f[i - 1] = g[i - 1]
    <3> HIDE DEF g
    <3> QED BY <2>2
  <2>4. g = [i \in 0..(m + 1) |->
               IF i = 0 THEN k
               ELSE Generate(g[i - 1], replies[i], available, ObserverAvailable, NoTiming)]
    <3>1. \A i \in 0..(m + 1) :
            (IF i = 0 THEN k
             ELSE Generate(f[i - 1], replies[i], available, ObserverAvailable, NoTiming))
            = (IF i = 0 THEN k
               ELSE Generate(g[i - 1], replies[i], available, ObserverAvailable, NoTiming))
      <4> HIDE DEF g
      <4> QED BY <2>3
    <3> QED BY <3>1
  <2>5. Emits(g, k, replies, available, m + 1)
    <3> HIDE DEF g
    <3> QED BY <2>4 DEF Emits
  <2> QED BY <2>5
<1>3. Nat \subseteq Good
  <2> HIDE DEF Good
  <2> QED BY <1>1, <1>2, NaturalInduction
<1> QED BY <1>3

\* The replies of a command come into the queue, all of them or the first few.
LEMMA EmissionsAdd ==
  ASSUME NEW k, KernelShape(k), NEW replies, Len(replies) \in Nat, NEW available
  PROVE  Posts(k, Emissions(k, replies, available)[Len(replies)], ObserverAvailable,
               {replies[i] : i \in 1..Len(replies)})
<1>1. PICK g : Emits(g, k, replies, available, Len(replies))
  BY EmitsExists
<1> DEFINE f == CHOOSE f : Emits(f, k, replies, available, Len(replies))
           all == {replies[i] : i \in 1..Len(replies)}
<1>2. Emits(f, k, replies, available, Len(replies)) /\ Emissions(k, replies, available) = f
  BY <1>1, Zenon DEF Emissions, Emits
<1> HIDE DEF f
<1> DEFINE Good == {m \in Nat : m <= Len(replies) => Posts(k, f[m], ObserverAvailable, all)}
<1>3. 0 \in Good
  <2>1. f[0] = k
    BY <1>2 DEF Emits
  <2> QED BY <2>1 DEF Posts, Keeps
<1>4. ASSUME NEW m \in Nat, m \in Good PROVE m + 1 \in Good
  <2> SUFFICES ASSUME m + 1 <= Len(replies) PROVE Posts(k, f[m + 1], ObserverAvailable, all)
    OBVIOUS
  <2>1. Posts(k, f[m], ObserverAvailable, all)
    BY <1>4
  <2>2. f[m + 1] = Generate(f[m], replies[m + 1], available, ObserverAvailable, NoTiming)
    BY <1>2 DEF Emits
  <2>3. replies[m + 1] \in all
    OBVIOUS
  <2>4. Puts(f[m], f[m + 1], ObserverAvailable, replies[m + 1])
    BY <2>1, <2>2, GeneratePuts DEF Posts, Keeps
  <2> HIDE DEF all
  <2> QED BY <2>1, <2>3, <2>4, PutsIsAdding
<1>5. Nat \subseteq Good
  <2> HIDE DEF Good
  <2> QED BY <1>3, <1>4, NaturalInduction
<1>6. Posts(k, f[Len(replies)], ObserverAvailable, all)
  <2>1. \A m \in Nat : m <= Len(replies) => Posts(k, f[m], ObserverAvailable, all)
    <3> HIDE DEF all
    <3> QED BY <1>5
  <2>2. \A n \in Nat : n <= n
    OBVIOUS
  <2> HIDE DEF all
  <2> QED BY <2>1, <2>2, Zenon
<1> QED BY <1>2, <1>6

-----------------------------------------------------------------------------
(***************************************************************************)
(* Steps that leave the exchange alone: messages come and go, and the      *)
(* state follows them.                                                     *)
(***************************************************************************)

\* A client whose order is still to be opened, or has just been refused.
Reserved(c) ==
  \/ \E task \in Sent : c \in Opens(task.event.payload)
  \/ \E i \in Failed : /\ kernel.failures[i].command.kind = "Replace"
                       /\ c = kernel.failures[i].command.new_client

\* What a step may do to the child of a client.
Registered(c) ==
  /\ ~Knows(c) /\ Knows(c)'
  /\ state'.children[c].state = "PendingNew"
  /\ state'.children[c].exchange_order_id = NoExchangeId

Updated(c) ==
  /\ ~Reserved(c) /\ Knows(c) /\ Knows(c)'
  /\ state'.children[c].exchange_order_id # NoExchangeId => Has(c)
  /\ c \in Live => state'.children[c].state \in {"PendingNew"} \cup ActiveStates

Forgotten(c) ==
  /\ ~Knows(c)' /\ ~Has(c)
  /\ SentAbout(c) = {} /\ ToldAbout(c) = {} /\ FailedAbout(c)' = {}

Follows(c) ==
  state'.children[c] = state.children[c] \/ Registered(c) \/ Updated(c) \/ Forgotten(c)

\* What a decision may send.
Dispatched(task) ==
  LET p == task.event.payload
  IN  /\ \A c \in Names(p) : Has(c) \/ c \in Opens(p)
      /\ \A c \in Opens(p) : c \in ClientIds /\ Registered(c)
      /\ p.kind \in {"Cancel", "Replace"} => Has(p.client)

FailuresKept == \A i \in Failed : kernel'.failures[i] = kernel.failures[i]

\* Nothing is told about a client whose order is still to come.
LEMMA ReservedFresh ==
  ASSUME IInv, NEW c, Reserved(c)
  PROVE  Fresh(c)
<1>1. CASE \E task \in Sent : c \in Opens(task.event.payload)
  BY <1>1 DEF IInv, OpeningAlone
<1>2. CASE \E i \in Failed : /\ kernel.failures[i].command.kind = "Replace"
                             /\ c = kernel.failures[i].command.new_client
  BY <1>2 DEF IInv, RefusalAlone
<1> QED BY <1>1, <1>2 DEF Reserved

LEMMA OpensNames ==
  ASSUME NEW p
  PROVE  Opens(p) \subseteq Names(p)
BY DEF Opens, Names

\* Messages are about clients.
LEMMA CommandNames ==
  ASSUME NEW p \in Commands \cup {[kind |-> "Take"]}
  PROVE  /\ Opens(p) \subseteq Names(p) /\ Names(p) \subseteq ClientIds
         /\ p.kind \in {"Submit", "Cancel", "Replace", "Take"}
         /\ p.kind # "Take" => p.client \in Names(p)
         /\ p.kind = "Replace" => p.new_client \in Opens(p)
BY DEF Opens, Names, Commands, Submits, Cancels, Replaces, ChildEvents

LEMMA SentNames ==
  ASSUME Shapes, NEW task \in Sent
  PROVE  /\ task.event.payload \in Commands \cup {[kind |-> "Take"]}
         /\ Names(task.event.payload) \subseteq ClientIds
<1>1. task.event.payload \in Commands \cup {[kind |-> "Take"]}
  BY DEF Shapes, Sent, TaskSound, IsCommand, ObserverAvailable, System, ExchangeReceive, ExchangeProcess
<1> QED BY <1>1, CommandNames

LEMMA FailedNames ==
  ASSUME Shapes, NEW i \in Failed
  PROVE  /\ kernel.failures[i].command \in Commands
         /\ Names(kernel.failures[i].command) \subseteq ClientIds
<1>1. i \in 1..Len(kernel.failures)
  BY DEF Shapes, Failed
<1> QED BY <1>1, CommandNames DEF Shapes, FailureSound

LEMMA ReservedClient ==
  ASSUME Shapes, NEW c, Reserved(c)
  PROVE  c \in ClientIds
<1>1. CASE \E task \in Sent : c \in Opens(task.event.payload)
  BY <1>1, SentNames, CommandNames
<1>2. CASE \E i \in Failed : /\ kernel.failures[i].command.kind = "Replace"
                             /\ c = kernel.failures[i].command.new_client
  BY <1>2, FailedNames, CommandNames
<1> QED BY <1>1, <1>2 DEF Reserved

LEMMA QuietKeeps ==
  ASSUME IInv, Shapes', exchange' = exchange,
         \A task \in Sent' \ Sent : Dispatched(task),
         \A t, u \in Sent' \ Sent :
           Opens(t.event.payload) \cap Opens(u.event.payload) # {} => t = u,
         Told' \subseteq Told \cup Completed,
         Failed' \subseteq Failed, FailuresKept,
         \A c \in ClientIds : Follows(c)
  PROVE  IInv'
<1>1. \A c : (Has(c))' <=> Has(c)
  BY DEF Has
<1>2. Live' = Live
  BY DEF Live
<1>3. \A p \in Completed : Names(p) = {} /\ p.kind = "TerminalCompletion"
  BY DEF Completed, Names, ChildEvents
<1>4. \A c : ToldAbout(c)' \subseteq ToldAbout(c)
  BY <1>3 DEF ToldAbout
<1>5. \A c : FailedAbout(c)' \subseteq FailedAbout(c)
  BY DEF FailedAbout, FailuresKept
<1>6. \A c : \A task \in SentAbout(c)' \ SentAbout(c) :
        task \in Sent' \ Sent /\ c \in Names(task.event.payload)
  BY DEF SentAbout
<1>7. ASSUME NEW c, Reserved(c), ~Forgotten(c)
      PROVE  Fresh(c)' /\ SentAbout(c)' \subseteq SentAbout(c)
  <2>1. Fresh(c) /\ c \in ClientIds /\ Knows(c) /\ ~Has(c)
    BY <1>7, ReservedFresh, ReservedClient DEF Fresh, IInv
  <2>2. ~Registered(c) /\ ~Updated(c)
    BY <1>7, <2>1 DEF Registered, Updated
  <2>3. state'.children[c] = state.children[c]
    BY <1>7, <2>1, <2>2 DEF Follows
  <2>4. Fresh(c)'
    BY <1>1, <1>4, <2>1, <2>3 DEF Fresh, Knows, knows_client_order_id
  <2>5. SentAbout(c)' \subseteq SentAbout(c)
    BY <1>6, <2>1, <2>2 DEF Dispatched
  <2> QED BY <2>4, <2>5
<1>8. ASSUME NEW c \in ClientIds, ~Knows(c)'
      PROVE  ~Has(c) /\ SentAbout(c) = {} /\ ToldAbout(c) = {} /\ FailedAbout(c)' = {}
  <2>1. ~Registered(c) /\ ~Updated(c)
    BY <1>8 DEF Registered, Updated
  <2>2. CASE state'.children[c] = state.children[c]
    BY <1>5, <1>8, <2>2 DEF IInv, UnknownUntouched, Knows, knows_client_order_id
  <2> QED BY <2>1, <2>2 DEF Follows, Forgotten
<1>9. UnknownUntouched'
  <2> SUFFICES ASSUME NEW c \in ClientIds, ~Knows(c)'
               PROVE  ~(Has(c))' /\ SentAbout(c)' = {} /\ ToldAbout(c)' = {} /\ FailedAbout(c)' = {}
    BY DEF UnknownUntouched
  <2>1. SentAbout(c)' \subseteq SentAbout(c)
    BY <1>6, <1>8 DEF Dispatched, Registered
  <2> QED BY <1>1, <1>4, <1>8, <2>1
<1>10. OpeningAlone'
  <2> SUFFICES ASSUME NEW task \in Sent', NEW c \in Opens(task.event.payload)
               PROVE  Fresh(c)' /\ SentAbout(c)' = {task} /\ FailedAbout(c)' = {}
    BY DEF OpeningAlone
  <2>0. c \in Names(task.event.payload) /\ task \in SentAbout(c)'
    BY OpensNames DEF SentAbout
  <2>1. CASE task \in Sent
    <3>1. SentAbout(c) = {task} /\ FailedAbout(c) = {} /\ Reserved(c)
      BY <2>1 DEF IInv, OpeningAlone, Reserved
    <3>2. Fresh(c)' /\ SentAbout(c)' \subseteq SentAbout(c)
      BY <3>1, <1>7 DEF Forgotten
    <3> QED BY <1>5, <2>0, <3>1, <3>2
  <2>2. CASE task \notin Sent
    <3>1. Registered(c) /\ c \in ClientIds
      BY <2>2 DEF Dispatched
    <3>2. ~Has(c) /\ SentAbout(c) = {} /\ ToldAbout(c) = {} /\ FailedAbout(c) = {}
      BY <3>1 DEF Registered, IInv, UnknownUntouched
    <3>3. SentAbout(c)' = {task}
      <4> SUFFICES ASSUME NEW u \in SentAbout(c)' PROVE u = task
        BY <2>0
      <4>1. u \in Sent' \ Sent /\ c \in Opens(u.event.payload)
        BY <1>6, <3>2 DEF Dispatched
      <4> QED BY <2>2, <4>1
    <3>4. Fresh(c)'
      BY <1>1, <1>4, <3>1, <3>2 DEF Registered, Fresh
    <3> QED BY <1>5, <3>2, <3>3, <3>4
  <2> QED BY <2>1, <2>2
<1>11. RefusalAlone'
  <2> SUFFICES ASSUME NEW i \in Failed', kernel'.failures[i].command.kind = "Replace",
                      NEW c, c = kernel'.failures[i].command.new_client
               PROVE  Fresh(c)' /\ SentAbout(c)' = {} /\ FailedAbout(c)' = {i}
    BY DEF RefusalAlone
  <2>1. i \in Failed /\ kernel'.failures[i] = kernel.failures[i]
    BY DEF FailuresKept
  <2>2. SentAbout(c) = {} /\ FailedAbout(c) = {i} /\ Reserved(c)
    BY <2>1 DEF IInv, RefusalAlone, Reserved
  <2>3. i \in FailedAbout(c)'
    BY DEF FailedAbout, Names
  <2> QED BY <1>5, <1>7, <2>2, <2>3 DEF Forgotten
<1>12. TargetsAccepted'
  <2> SUFFICES ASSUME NEW task \in Sent', task.event.payload.kind \in {"Cancel", "Replace"}
               PROVE  Has(task.event.payload.client)'
    BY DEF TargetsAccepted
  <2>1. Has(task.event.payload.client)
    BY DEF IInv, TargetsAccepted, Dispatched
  <2> QED BY <1>1, <2>1
<1>13. FailuresTrue'
  <2> SUFFICES ASSUME NEW i \in Failed', NEW f, f = kernel'.failures[i]
               PROVE  IF f.command.kind = "Submit" THEN ~Has(f.command.client)'
                      ELSE /\ Has(f.command.client)'
                           /\ f.current_state # NoState => f.command.client \notin Live'
    BY DEF FailuresTrue
  <2>1. i \in Failed /\ f = kernel.failures[i]
    BY DEF FailuresKept
  <2> QED BY <1>1, <1>2, <2>1 DEF IInv, FailuresTrue
<1>14. EventsTrue'
  <2> SUFFICES ASSUME NEW p \in Told'
               PROVE  /\ IF p.kind = "OrderRejected" THEN ~Has(p.client)' ELSE \A c \in Names(p) : Has(c)'
                      /\ \A c \in ClientIds : Ends(p, c) => c \notin Live'
    BY DEF EventsTrue
  <2>1. CASE p \in Told
    BY <1>1, <1>2, <2>1 DEF IInv, EventsTrue
  <2>2. CASE p \in Completed
    BY <1>3, <2>2 DEF Ends
  <2> QED BY <2>1, <2>2
<1>15. ASSUME NEW c \in ClientIds, Knows(c)', state'.children[c].exchange_order_id # NoExchangeId
       PROVE  Has(c)
  <2>1. CASE state'.children[c] = state.children[c]
    BY <1>15, <2>1 DEF IInv, IdsGiven, Knows, knows_client_order_id
  <2> QED BY <1>15, <2>1 DEF Follows, Registered, Updated, Forgotten
<1>16. ASSUME NEW c \in Live
       PROVE  Knows(c)' /\ state'.children[c].state \in {"PendingNew"} \cup ActiveStates
  <2>1. c \in ClientIds /\ Has(c)
    BY DEF Live, Has
  <2>2. Knows(c) /\ state.children[c].state \in {"PendingNew"} \cup ActiveStates
    BY DEF IInv, NoForgottenOrder, Knows
  <2>3. CASE state'.children[c] = state.children[c]
    BY <2>2, <2>3 DEF Knows, knows_client_order_id
  <2> QED BY <2>1, <2>2, <2>3 DEF Follows, Registered, Updated, Forgotten
<1>17. IdsGiven' /\ NoForgottenOrder'
  BY <1>1, <1>2, <1>15, <1>16 DEF IdsGiven, NoForgottenOrder, Knows
<1> QED BY <1>9, <1>10, <1>11, <1>12, <1>13, <1>14, <1>17 DEF IInv

-----------------------------------------------------------------------------
(***************************************************************************)
(* Steps of a command: it reaches the exchange, and is processed there.    *)
(***************************************************************************)

\* A command that has arrived waits as another task.
LEMMA MovedKeeps ==
  ASSUME IInv, Shapes', exchange' = exchange, state' = state,
         NEW task \in Sent, NEW moved, moved.event.payload = task.event.payload,
         Sent' \subseteq (Sent \ {task}) \cup {moved},
         Told' \subseteq Told, Failed' \subseteq Failed, FailuresKept
  PROVE  IInv'
<1>1. \A c : (Has(c)' <=> Has(c)) /\ (Knows(c)' <=> Knows(c))
  BY DEF Has, Knows
<1>2. Live' = Live
  BY DEF Live
<1>3. \A c : ToldAbout(c)' \subseteq ToldAbout(c) /\ FailedAbout(c)' \subseteq FailedAbout(c)
  BY DEF ToldAbout, FailedAbout, FailuresKept
<1>4. \A c : SentAbout(c)' \subseteq (SentAbout(c) \ {task}) \cup {moved}
  BY DEF SentAbout
<1>5. \A c : moved \in SentAbout(c)' => task \in SentAbout(c)
  BY DEF SentAbout
<1>6. \A c : Fresh(c) => Fresh(c)'
  BY <1>1, <1>3 DEF Fresh
<1>7. UnknownUntouched'
  <2> SUFFICES ASSUME NEW c \in ClientIds, ~Knows(c)'
               PROVE  ~Has(c)' /\ SentAbout(c)' = {} /\ ToldAbout(c)' = {} /\ FailedAbout(c)' = {}
    BY DEF UnknownUntouched
  <2>1. ~Has(c) /\ SentAbout(c) = {} /\ ToldAbout(c) = {} /\ FailedAbout(c) = {}
    BY <1>1 DEF IInv, UnknownUntouched
  <2> QED BY <1>1, <1>3, <1>4, <1>5, <2>1
<1>8. OpeningAlone'
  <2> SUFFICES ASSUME NEW u \in Sent', NEW c \in Opens(u.event.payload)
               PROVE  Fresh(c)' /\ SentAbout(c)' = {u} /\ FailedAbout(c)' = {}
    BY DEF OpeningAlone
  <2>1. u \in SentAbout(c)'
    BY OpensNames DEF SentAbout
  <2>2. CASE u \in Sent /\ u # task
    <3>1. Fresh(c) /\ SentAbout(c) = {u} /\ FailedAbout(c) = {}
      BY <2>2 DEF IInv, OpeningAlone
    <3>2. SentAbout(c)' \subseteq {u}
      BY <1>4, <1>5, <2>2, <3>1
    <3> QED BY <1>3, <1>6, <2>1, <3>1, <3>2
  <2>3. CASE u = moved
    <3>1. Fresh(c) /\ SentAbout(c) = {task} /\ FailedAbout(c) = {}
      BY <2>3 DEF IInv, OpeningAlone
    <3>2. SentAbout(c)' \subseteq {u}
      BY <1>4, <2>3, <3>1
    <3> QED BY <1>3, <1>6, <2>1, <3>1, <3>2
  <2> QED BY <2>2, <2>3
<1>9. RefusalAlone'
  <2> SUFFICES ASSUME NEW i \in Failed', kernel'.failures[i].command.kind = "Replace",
                      NEW c, c = kernel'.failures[i].command.new_client
               PROVE  Fresh(c)' /\ SentAbout(c)' = {} /\ FailedAbout(c)' = {i}
    BY DEF RefusalAlone
  <2>1. i \in Failed /\ kernel'.failures[i] = kernel.failures[i]
    BY DEF FailuresKept
  <2>2. Fresh(c) /\ SentAbout(c) = {} /\ FailedAbout(c) = {i}
    BY <2>1 DEF IInv, RefusalAlone
  <2>3. i \in FailedAbout(c)'
    BY DEF FailedAbout, Names
  <2> QED BY <1>3, <1>4, <1>5, <1>6, <2>2, <2>3
<1>10. TargetsAccepted'
  <2> SUFFICES ASSUME NEW u \in Sent', u.event.payload.kind \in {"Cancel", "Replace"}
               PROVE  Has(u.event.payload.client)'
    BY DEF TargetsAccepted
  <2>1. Has(u.event.payload.client)
    BY DEF IInv, TargetsAccepted
  <2> QED BY <1>1, <2>1
<1>11. FailuresTrue'
  <2> SUFFICES ASSUME NEW i \in Failed', NEW f, f = kernel'.failures[i]
               PROVE  IF f.command.kind = "Submit" THEN ~Has(f.command.client)'
                      ELSE /\ Has(f.command.client)'
                           /\ f.current_state # NoState => f.command.client \notin Live'
    BY DEF FailuresTrue
  <2>1. i \in Failed /\ f = kernel.failures[i]
    BY DEF FailuresKept
  <2> QED BY <1>1, <1>2, <2>1 DEF IInv, FailuresTrue
<1>12. EventsTrue'
  <2> SUFFICES ASSUME NEW p \in Told'
               PROVE  /\ IF p.kind = "OrderRejected" THEN ~Has(p.client)' ELSE \A c \in Names(p) : Has(c)'
                      /\ \A c \in ClientIds : Ends(p, c) => c \notin Live'
    BY DEF EventsTrue
  <2> QED BY <1>1, <1>2 DEF IInv, EventsTrue
<1>13. IdsGiven' /\ NoForgottenOrder'
  BY <1>1, <1>2 DEF IInv, IdsGiven, NoForgottenOrder
<1> QED BY <1>7, <1>8, <1>9, <1>10, <1>11, <1>12, <1>13 DEF IInv

\* What an event says is true of the exchange after the step.
Truthful(p) ==
  /\ IF p.kind = "OrderRejected" THEN ~Has(p.client)' ELSE \A c \in Names(p) : Has(c)'
  /\ \A c \in ClientIds : Ends(p, c) => c \notin Live'

\* A command is processed: it opens its orders or not, no order that is over
\* trades again, and its replies and its failure are true.
LEMMA ProcessedKeeps ==
  ASSUME IInv, Shapes', state' = state,
         NEW task \in Sent, NEW p, p = task.event.payload, Sent' \subseteq Sent \ {task},
         \A c : Has(c) => Has(c)',
         \A c : Has(c)' => Has(c) \/ c \in Opens(p),
         \A c \in Live' : c \in Live \/ c \in Opens(p),
         NEW replies, Told' \subseteq Told \cup replies,
         \A r \in replies : Truthful(r) /\ \A c \in Names(r) : c \in Names(p) \/ Has(c),
         NEW n, Failed' \subseteq Failed \cup {n}, FailuresKept,
         n \in Failed' =>
           /\ kernel'.failures[n].command = p
           /\ IF p.kind = "Submit" THEN ~Has(p.client)'
              ELSE Has(p.client)' /\ (kernel'.failures[n].current_state # NoState => p.client \notin Live')
           /\ \A c \in Opens(p) : ~Has(c)'
           /\ p.kind = "Replace" => replies = {}
  PROVE  IInv'
<1>0. task \in Sent' => FALSE
  OBVIOUS
<1>1. \A c \in Opens(p) : /\ Fresh(c) /\ SentAbout(c) = {task} /\ FailedAbout(c) = {}
                          /\ Knows(c) /\ ~Has(c) /\ ToldAbout(c) = {}
  BY DEF IInv, OpeningAlone, Fresh
<1>2. \A c : SentAbout(c)' \subseteq SentAbout(c) \ {task}
  BY DEF SentAbout
<1>3. \A c : c \notin Names(p) /\ ~Has(c) => ToldAbout(c)' \subseteq ToldAbout(c)
  BY DEF ToldAbout
<1>4. \A c : c \notin Names(p) => FailedAbout(c)' \subseteq FailedAbout(c)
  BY DEF FailedAbout, FailuresKept
<1>5. \A c : task \notin SentAbout(c) => c \notin Names(p) /\ c \notin Opens(p)
  BY OpensNames DEF SentAbout
<1>6. \A c : Knows(c)' <=> Knows(c)
  BY DEF Knows
<1>7. ASSUME NEW c, Fresh(c), task \notin SentAbout(c)
      PROVE  Fresh(c)' /\ FailedAbout(c)' \subseteq FailedAbout(c)
  <2>1. c \notin Names(p) /\ c \notin Opens(p) /\ ~Has(c) /\ ~Has(c)'
    BY <1>5, <1>7 DEF Fresh
  <2> QED BY <1>3, <1>4, <1>6, <1>7, <2>1 DEF Fresh
<1>8. UnknownUntouched'
  <2> SUFFICES ASSUME NEW c \in ClientIds, ~Knows(c)'
               PROVE  ~Has(c)' /\ SentAbout(c)' = {} /\ ToldAbout(c)' = {} /\ FailedAbout(c)' = {}
    BY DEF UnknownUntouched
  <2>1. ~Has(c) /\ SentAbout(c) = {} /\ ToldAbout(c) = {} /\ FailedAbout(c) = {}
    BY <1>6 DEF IInv, UnknownUntouched
  <2>2. c \notin Names(p) /\ c \notin Opens(p)
    BY <1>5, <2>1
  <2> QED BY <1>2, <1>3, <1>4, <2>1, <2>2
<1>9. OpeningAlone'
  <2> SUFFICES ASSUME NEW u \in Sent', NEW c \in Opens(u.event.payload)
               PROVE  Fresh(c)' /\ SentAbout(c)' = {u} /\ FailedAbout(c)' = {}
    BY DEF OpeningAlone
  <2>1. u \in SentAbout(c)'
    BY OpensNames DEF SentAbout
  <2>2. u \in Sent /\ u # task
    OBVIOUS
  <2>3. Fresh(c) /\ SentAbout(c) = {u} /\ FailedAbout(c) = {}
    BY <2>2 DEF IInv, OpeningAlone
  <2> QED BY <1>2, <1>7, <2>1, <2>2, <2>3
<1>10. RefusalAlone'
  <2> SUFFICES ASSUME NEW i \in Failed', kernel'.failures[i].command.kind = "Replace",
                      NEW c, c = kernel'.failures[i].command.new_client
               PROVE  Fresh(c)' /\ SentAbout(c)' = {} /\ FailedAbout(c)' = {i}
    BY DEF RefusalAlone
  <2>1. i \in FailedAbout(c)'
    BY DEF FailedAbout, Names
  <2>2. CASE i \in Failed
    <3>1. kernel'.failures[i] = kernel.failures[i]
      BY <2>2 DEF FailuresKept
    <3>2. Fresh(c) /\ SentAbout(c) = {} /\ FailedAbout(c) = {i}
      BY <2>2, <3>1 DEF IInv, RefusalAlone
    <3> QED BY <1>2, <1>7, <2>1, <3>2
  <2>3. CASE i \notin Failed
    <3>1. i = n /\ kernel'.failures[n].command = p
      BY <2>3
    <3>2. c \in Opens(p) /\ ~Has(c)' /\ replies = {}
      BY <3>1 DEF Opens
    <3>3. ToldAbout(c)' = {}
      BY <1>1, <3>2 DEF ToldAbout
    <3>4. Fresh(c)' /\ SentAbout(c)' = {}
      BY <1>1, <1>2, <1>6, <3>2, <3>3 DEF Fresh
    <3>5. FailedAbout(c)' \subseteq FailedAbout(c) \cup {n}
      BY DEF FailedAbout, FailuresKept
    <3> QED BY <1>1, <2>1, <3>1, <3>2, <3>4, <3>5
  <2> QED BY <2>2, <2>3
<1>11. TargetsAccepted'
  BY DEF IInv, TargetsAccepted
<1>12. \A c : Has(c) /\ c \notin Live => c \notin Live'
  BY <1>1
<1>13. FailuresTrue'
  <2> SUFFICES ASSUME NEW i \in Failed', NEW f, f = kernel'.failures[i]
               PROVE  IF f.command.kind = "Submit" THEN ~Has(f.command.client)'
                      ELSE /\ Has(f.command.client)'
                           /\ f.current_state # NoState => f.command.client \notin Live'
    BY DEF FailuresTrue
  <2>1. CASE i \in Failed
    <3>1. f = kernel.failures[i]
      BY <2>1 DEF FailuresKept
    <3>2. IF f.command.kind = "Submit" THEN ~Has(f.command.client)
          ELSE /\ Has(f.command.client)
               /\ f.current_state # NoState => f.command.client \notin Live
      BY <2>1, <3>1 DEF IInv, FailuresTrue
    <3>3. f.command.kind = "Submit" => f.command.client \notin Opens(p)
      <4> SUFFICES ASSUME f.command.kind = "Submit" PROVE f.command.client \in Names(f.command)
        BY <1>1, <2>1, <3>1 DEF FailedAbout
      <4> QED BY DEF Names
    <3> QED BY <1>12, <3>2, <3>3
  <2>2. CASE i \notin Failed
    BY <2>2
  <2> QED BY <2>1, <2>2
<1>14. EventsTrue'
  <2> SUFFICES ASSUME NEW r \in Told' PROVE Truthful(r)
    BY DEF EventsTrue, Truthful
  <2>1. CASE r \in Told
    <3>1. /\ IF r.kind = "OrderRejected" THEN ~Has(r.client) ELSE \A c \in Names(r) : Has(c)
          /\ \A c \in ClientIds : Ends(r, c) => c \notin Live
      BY <2>1 DEF IInv, EventsTrue
    <3>2. \A c \in Names(r) : c \notin Opens(p)
      BY <1>1, <2>1 DEF ToldAbout
    <3>3. r.kind = "OrderRejected" => r.client \in Names(r)
      BY DEF Names, ChildEvents
    <3>4. \A c \in ClientIds : Ends(r, c) => c \in Names(r)
      BY DEF Ends, Names, ChildEvents
    <3> QED BY <3>1, <3>2, <3>3, <3>4 DEF Truthful
  <2> QED BY <2>1
<1>15. IdsGiven'
  BY <1>6 DEF IInv, IdsGiven
<1>16. NoForgottenOrder'
  <2> SUFFICES ASSUME NEW c \in Live'
               PROVE  /\ knows_client_order_id(state, c)
                      /\ state.children[c].state \in {"PendingNew"} \cup ActiveStates
    BY DEF NoForgottenOrder
  <2>1. CASE c \in Live
    BY <2>1 DEF IInv, NoForgottenOrder
  <2>2. CASE c \in Opens(p)
    BY <1>1, <2>2 DEF Fresh, Knows
  <2> QED BY <2>1, <2>2
<1> QED BY <1>8, <1>9, <1>10, <1>11, <1>13, <1>14, <1>15, <1>16 DEF IInv

-----------------------------------------------------------------------------
(***************************************************************************)
(* The kernel dispatches a task that does not reach the matching engine.   *)
(***************************************************************************)

LEMMA PopShape ==
  ASSUME NEW k, KernelShape(k), NEW task, NEW q, q = pop_next(k, task)
  PROVE  /\ KernelShape(q) /\ q.queue = k.queue \ {task}
         /\ q.delivered_events = k.delivered_events /\ q.failures = k.failures
BY DEF pop_next, KernelShape

LEMMA CallShape ==
  ASSUME NEW k, KernelShape(k), NEW q, q = Call(k)
  PROVE  KernelShape(q) /\ ~q.thrown /\ q.queue = k.queue /\ Keeps(k, q)
BY DEF Call, KernelShape, Keeps

LEMMA ReceivePuts ==
  ASSUME NEW k, KernelShape(k), NEW task, task.stage = ExchangeReceive,
         NEW q, q = dispatch(k, task)
  PROVE  /\ Keeps(k, q)
         /\ \/ q.queue = k.queue \ {task}
            \/ \E moved : /\ moved.stage = ExchangeProcess
                          /\ moved.event.payload = task.event.payload
                          /\ q.queue = (k.queue \ {task}) \cup {moved}
<1> DEFINE r == pop_next(k, task)
<1>1. q = schedule(r, task.timing.process, ExchangeProcess, task.sequence, task.event, task.timing)
  BY DEF dispatch
<1>2. /\ KernelShape(r) /\ r.queue = k.queue \ {task}
      /\ r.delivered_events = k.delivered_events /\ r.failures = k.failures
  BY PopShape
<1> HIDE DEF r
<1>3. Puts(r, q, ExchangeProcess, task.event.payload)
  BY <1>1, <1>2, SchedulePuts
<1> QED BY <1>2, <1>3 DEF Puts, Keeps

LEMMA DeliverAppends ==
  ASSUME NEW k, KernelShape(k), NEW task, task.stage # ExchangeReceive,
         NEW q, q = dispatch(k, task)
  PROVE  /\ KernelShape(q) /\ q.queue = k.queue \ {task} /\ q.failures = k.failures
         /\ q.delivered_events = Append(k.delivered_events, task.event)
<1> DEFINE r == pop_next(k, task)
<1>1. q = [r EXCEPT !.delivered_events = Append(r.delivered_events, task.event)]
  BY DEF dispatch
<1>2. /\ KernelShape(r) /\ r.queue = k.queue \ {task}
      /\ r.delivered_events = k.delivered_events /\ r.failures = k.failures
  BY PopShape
<1> HIDE DEF r
<1> QED BY <1>1, <1>2 DEF KernelShape

\* A kernel whose lists are those of before keeps what there is to know of them.
LEMMA ListsStay ==
  ASSUME Shapes, Keeps(kernel, kernel'), cursor' = cursor, routed' = routed,
         \A task \in kernel'.queue \ kernel.queue : TaskSound(task),
         StateShape(state)', ExchangeShape(exchange)'
  PROVE  /\ Shapes' /\ Failed' = Failed /\ FailuresKept
         /\ \A p : p \in Told' =>
              \/ p \in Told
              \/ \E task \in kernel'.queue \ kernel.queue :
                   task.stage = ObserverAvailable /\ p = task.event.payload
<1>1. /\ KernelShape(kernel') /\ kernel'.delivered_events = kernel.delivered_events
      /\ kernel'.failures = kernel.failures
  BY DEF Keeps
<1>2. Shapes'
  BY <1>1 DEF Shapes
<1>3. Failed' = Failed /\ FailuresKept
  BY <1>1 DEF Failed, FailuresKept
<1> QED BY <1>1, <1>2, <1>3 DEF Told

LEMMA ReceiveKeeps ==
  ASSUME IInv, NEW task \in kernel.queue, task.stage = ExchangeReceive,
         kernel' = dispatch(kernel, task),
         UNCHANGED <<exchange, state, clock, cursor, routed, attempts, takes>>
  PROVE  IInv'
<1>1. Shapes /\ KernelShape(kernel) /\ StateShape(state) /\ ExchangeShape(exchange)
  BY DEF IInv, Shapes
<1>2. /\ Keeps(kernel, kernel')
      /\ \/ kernel'.queue = kernel.queue \ {task}
         \/ \E moved : /\ moved.stage = ExchangeProcess
                       /\ moved.event.payload = task.event.payload
                       /\ kernel'.queue = (kernel.queue \ {task}) \cup {moved}
  BY <1>1, ReceivePuts
<1>3. task \in Sent
  BY DEF Sent, IsCommand
<1>4. PICK moved : /\ moved.stage = ExchangeProcess /\ moved.event.payload = task.event.payload
                   /\ kernel'.queue \subseteq (kernel.queue \ {task}) \cup {moved}
  <2>1. CASE kernel'.queue = kernel.queue \ {task}
    <3> DEFINE m == [stage |-> ExchangeProcess, event |-> [payload |-> task.event.payload]]
    <3>1. m.stage = ExchangeProcess /\ m.event.payload = task.event.payload
      OBVIOUS
    <3> HIDE DEF m
    <3> QED BY <2>1, <3>1
  <2> QED BY <1>2, <2>1
<1>5. TaskSound(moved)
  <2>1. task.event.payload \in Commands \cup {[kind |-> "Take"]}
    BY <1>1, <1>3, SentNames
  <2> QED BY <1>4, <2>1 DEF TaskSound, IsCommand
<1>6. \A u \in kernel'.queue \ kernel.queue : u = moved
  BY <1>4
<1>7. /\ Shapes' /\ Failed' = Failed /\ FailuresKept
      /\ \A p : p \in Told' =>
           \/ p \in Told
           \/ \E u \in kernel'.queue \ kernel.queue :
                u.stage = ObserverAvailable /\ p = u.event.payload
  BY <1>1, <1>2, <1>5, <1>6, ListsStay
<1>8. Told' \subseteq Told
  BY <1>4, <1>6, <1>7 DEF ObserverAvailable, ExchangeProcess
<1>9. Sent' \subseteq (Sent \ {task}) \cup {moved}
  BY <1>4 DEF Sent
<1> QED BY <1>3, <1>4, <1>7, <1>8, <1>9, MovedKeeps

\* An event is delivered: it is still what has been told.
LEMMA DeliverKeeps ==
  ASSUME IInv, NEW task \in kernel.queue, task.stage \notin {ExchangeReceive, ExchangeProcess},
         kernel' = dispatch(kernel, task),
         UNCHANGED <<exchange, state, clock, cursor, routed, attempts, takes>>
  PROVE  IInv'
<1>1. Shapes /\ KernelShape(kernel) /\ StateShape(state) /\ ExchangeShape(exchange)
  BY DEF IInv, Shapes
<1>2. /\ KernelShape(kernel') /\ kernel'.queue = kernel.queue \ {task}
      /\ kernel'.failures = kernel.failures
      /\ kernel'.delivered_events = Append(kernel.delivered_events, task.event)
  BY <1>1, DeliverAppends
<1> DEFINE d == kernel.delivered_events
           e == kernel'.delivered_events
<1>3. /\ Listed(e) /\ Len(d) \in Nat /\ Len(e) = Len(d) + 1 /\ e[Len(d) + 1] = task.event
      /\ \A i \in 1..Len(d) : e[i] = d[i]
  BY <1>1, <1>2, ListedAppend DEF Shapes
<1>4. /\ TaskSound(task)
      /\ \/ task.stage = ObserverAvailable /\ task.event.payload \in Replies
         \/ task.stage = System /\ task.event.payload \in Completed
  BY <1>1 DEF Shapes, TaskSound, IsCommand
<1>5. \A i \in 1..Len(e) : e[i].payload \in Replies \cup Completed
  <2> SUFFICES ASSUME NEW i \in 1..Len(e) PROVE e[i].payload \in Replies \cup Completed
    OBVIOUS
  <2>1. \A j \in 1..Len(d) : d[j].payload \in Replies \cup Completed
    BY <1>1 DEF Shapes
  <2>2. i \in 1..Len(d) \/ i = Len(d) + 1
    BY <1>3
  <2> HIDE DEF d, e
  <2> QED BY <1>3, <1>4, <2>1, <2>2
<1>6. cursor \in 0..Len(e)
  <2>1. cursor \in 0..Len(d)
    BY <1>1 DEF Shapes
  <2> HIDE DEF d, e
  <2> QED BY <1>3, <2>1
<1>7. Shapes'
  BY <1>1, <1>2, <1>3, <1>5, <1>6 DEF Shapes
<1>8. Failed' = Failed /\ FailuresKept
  BY <1>2 DEF Failed, FailuresKept
<1>9. Sent' = Sent
  BY <1>2 DEF Sent, IsCommand
<1>10. Told' \subseteq Told \cup Completed
  <2> SUFFICES ASSUME NEW p \in Told' PROVE p \in Told \cup Completed
    OBVIOUS
  <2>1. CASE \E u \in kernel'.queue : u.stage = ObserverAvailable /\ p = u.event.payload
    BY <1>2, <2>1 DEF Told
  <2>2. CASE \E i \in (cursor + 1)..Len(e) : p = e[i].payload
    <3>1. PICK i \in (cursor + 1)..Len(e) : p = e[i].payload
      BY <2>2
    <3>2. cursor \in Nat /\ (i \in (cursor + 1)..Len(d) \/ i = Len(d) + 1)
      <4>1. cursor \in 0..Len(d)
        BY <1>1 DEF Shapes
      <4> HIDE DEF d, e
      <4> QED BY <1>3, <4>1
    <3>3. CASE i = Len(d) + 1
      BY <1>3, <1>4, <3>1, <3>3 DEF Told
    <3>4. CASE i \in (cursor + 1)..Len(d)
      <4>1. e[i] = d[i]
        <5> HIDE DEF d, e
        <5> QED BY <1>3, <3>2, <3>4
      <4> QED BY <3>1, <3>4, <4>1 DEF Told
    <3> QED BY <3>2, <3>3, <3>4
  <2>3. \/ \E u \in kernel'.queue : u.stage = ObserverAvailable /\ p = u.event.payload
        \/ \E i \in (cursor + 1)..Len(e) : p = e[i].payload
    BY DEF Told
  <2> QED BY <2>1, <2>2, <2>3
<1>11. \A c \in ClientIds : Follows(c)
  BY DEF Follows
<1> QED BY <1>7, <1>8, <1>9, <1>10, <1>11, QuietKeeps

-----------------------------------------------------------------------------
(***************************************************************************)
(* What the execution state makes of an event.                             *)
(***************************************************************************)

\* The child of a client that an event is about: it keeps its exchange id or
\* gets the event's, and ends only if the event says so.
Informed(old, new, p, c) ==
  /\ old # NoChild /\ new \in Child /\ c \in Names(p)
  /\ new.exchange_order_id = old.exchange_order_id \/ p.kind # "OrderRejected"
  /\ new.state \in ActiveStates \/ Ends(p, c)

\* What applying an event may do to the state.
Applied(s, q, p) ==
  /\ StateShape(q)
  /\ \A c \in ClientIds : \/ q.children[c] = s.children[c]
                          \/ Informed(s.children[c], q.children[c], p, c)

LEMMA IssueApplied ==
  ASSUME NEW s, StateShape(s), NEW code, NEW p
  PROVE  Applied(s, Issue(s, code), p)
<1> DEFINE q == Issue(s, code)
<1>1. q = [s EXCEPT !.issues = s.issues \cup {code}]
  BY DEF Issue
<1> HIDE DEF q
<1>2. StateShape(q) /\ q.children = s.children
  BY <1>1 DEF StateShape
<1> QED BY <1>2 DEF Applied, q

\* One child is told.
LEMMA OneApplied ==
  ASSUME NEW s, StateShape(s), NEW c \in ClientIds, NEW child, NEW p, NEW q,
         q = [s EXCEPT !.children[c] = child], Informed(s.children[c], child, p, c)
  PROVE  Applied(s, q, p)
<1>1. q.children = [s.children EXCEPT ![c] = child]
  BY DEF StateShape
<1>2. StateShape(q)
  <2>1. q.children \in [ClientIds -> Child \cup {NoChild}]
    BY <1>1 DEF StateShape, Informed
  <2> QED BY <2>1 DEF StateShape
<1>3. \A d \in ClientIds : q.children[d] = IF d = c THEN child ELSE s.children[d]
  BY <1>1 DEF StateShape
<1> QED BY <1>2, <1>3 DEF Applied

LEMMA KnownChild ==
  ASSUME NEW s, StateShape(s), NEW c \in ClientIds, knows_client_order_id(s, c)
  PROVE  s.children[c] \in Child /\ s.children[c] # NoChild
BY DEF StateShape, knows_client_order_id

LEMMA AckApplied ==
  ASSUME NEW s, StateShape(s), NEW e \in Acks, knows_client_order_id(s, e.client)
  PROVE  Applied(s, apply_order_ack(s, e), e)
<1> DEFINE old == s.children[e.client]
           new == [old EXCEPT !.exchange_order_id = e.exchange_order_id,
                              !.requested = e.quantity, !.cum = 0, !.leaves = e.quantity,
                              !.state = "Live"]
<1>0. e.client \in ClientIds /\ e.kind = "OrderAcknowledged"
  BY DEF Acks
<1>1. old \in Child /\ old # NoChild
  BY <1>0, KnownChild
<1>2. apply_order_ack(s, e) = [s EXCEPT !.children[e.client] = new]
  BY DEF apply_order_ack
<1>3. new \in Child /\ new.state = "Live"
  <2> HIDE DEF old
  <2> QED BY <1>1 DEF Child, Acks, ActiveStates
<1>4. Informed(old, new, e, e.client)
  BY <1>0, <1>1, <1>3 DEF Informed, ActiveStates, Names, ChildEvents
<1> HIDE DEF new
<1> QED BY <1>0, <1>2, <1>4, OneApplied

LEMMA RejectionApplied ==
  ASSUME NEW s, StateShape(s), NEW e \in Rejections, knows_client_order_id(s, e.client)
  PROVE  Applied(s, apply_order_rejection(s, e), e)
<1> DEFINE old == s.children[e.client]
           new == [old EXCEPT !.state = "Rejected", !.leaves = 0]
<1>0. e.client \in ClientIds /\ e.kind = "OrderRejected"
  BY DEF Rejections
<1>1. old \in Child /\ old # NoChild
  BY <1>0, KnownChild
<1>2. apply_order_rejection(s, e) = [s EXCEPT !.children[e.client] = new]
  BY DEF apply_order_rejection
<1>3. new \in Child /\ new.exchange_order_id = old.exchange_order_id
  <2> HIDE DEF old
  <2> QED BY <1>1 DEF Child, Terminals
<1>4. Informed(old, new, e, e.client)
  BY <1>0, <1>1, <1>3 DEF Informed, Ends, Names, ChildEvents
<1> HIDE DEF new
<1> QED BY <1>0, <1>2, <1>4, OneApplied

LEMMA CancelAckApplied ==
  ASSUME NEW s, StateShape(s), NEW e \in CancelAcks, knows_client_order_id(s, e.client)
  PROVE  Applied(s, apply_cancel_ack(s, e), e)
<1> DEFINE old == s.children[e.client]
           new == [old EXCEPT !.exchange_order_id = e.exchange_order_id, !.cum = e.cum,
                              !.leaves = 0, !.state = "Cancelled", !.cancel_pending = FALSE]
<1>0. e.client \in ClientIds /\ e.kind = "CancelAcknowledged"
  BY DEF CancelAcks
<1>1. old \in Child /\ old # NoChild
  BY <1>0, KnownChild
<1>2. apply_cancel_ack(s, e) = [s EXCEPT !.children[e.client] = new]
  BY DEF apply_cancel_ack
<1>3. new \in Child
  <2> HIDE DEF old
  <2> QED BY <1>1 DEF Child, CancelAcks, Terminals
<1>4. Informed(old, new, e, e.client)
  BY <1>0, <1>1, <1>3 DEF Informed, Ends, Names, ChildEvents
<1> HIDE DEF new
<1> QED BY <1>0, <1>2, <1>4, OneApplied

LEMMA FillApplied ==
  ASSUME NEW s, StateShape(s), NEW e \in FillEvents, knows_client_order_id(s, e.client)
  PROVE  Applied(s, apply_fill(s, e), e)
<1> DEFINE old == s.children[e.client]
           new == [old EXCEPT !.exchange_order_id = e.exchange_order_id, !.cum = e.cum,
                              !.leaves = e.leaves,
                              !.state = IF e.leaves = 0 THEN "Filled" ELSE "PartiallyFilled"]
           updated == update_parent_fill(s, e)
<1>0. e.client \in ClientIds /\ e.kind = "Fill"
  BY DEF FillEvents
<1>1. old \in Child /\ old # NoChild
  BY <1>0, KnownChild
<1>2. \/ \E code : apply_fill(s, e) = Issue(s, code)
      \/ apply_fill(s, e) = updated
      \/ apply_fill(s, e) = [updated EXCEPT !.children[e.client] =
              [updated.children[e.client] EXCEPT !.exchange_order_id = e.exchange_order_id,
                 !.cum = e.cum, !.leaves = e.leaves,
                 !.state = IF e.leaves = 0 THEN "Filled" ELSE "PartiallyFilled"]]
  BY DEF apply_fill
<1>3. StateShape(updated) /\ updated.children = s.children
  <2>1. CASE e.quantity > Remaining(s)
    <3>1. updated = [s EXCEPT !.issues = s.issues \cup {"parent_overfill"}]
      BY <2>1 DEF update_parent_fill, Issue
    <3> HIDE DEF updated
    <3> QED BY <3>1 DEF StateShape
  <2>2. CASE ~(e.quantity > Remaining(s))
    <3>1. updated = [s EXCEPT !.filled = s.filled + e.quantity,
                              !.executions = s.executions \cup {e.execution}]
      BY <2>2 DEF update_parent_fill
    <3>2. s.filled + e.quantity \in 0..ParentQuantity
      BY <2>2, StateAssumption DEF Remaining, FillEvents, StateShape
    <3> HIDE DEF updated
    <3> QED BY <3>1, <3>2 DEF StateShape
  <2> QED BY <2>1, <2>2
<1>4. Informed(old, new, e, e.client)
  <2>1. new \in Child /\ new.state = IF e.leaves = 0 THEN "Filled" ELSE "PartiallyFilled"
    <3> HIDE DEF old
    <3> QED BY <1>1 DEF Child, FillEvents, Terminals, ActiveStates
  <2> HIDE DEF new, old
  <2> QED BY <1>0, <1>1, <2>1 DEF Informed, Ends, Names, ChildEvents, ActiveStates
<1>5. \A q : Applied(updated, q, e) => Applied(s, q, e)
  <2> HIDE DEF updated
  <2> QED BY <1>3 DEF Applied
<1>6. Applied(updated, updated, e)
  <2> HIDE DEF updated
  <2> QED BY <1>3 DEF Applied
<1>7. CASE \E code : apply_fill(s, e) = Issue(s, code)
  BY <1>7, IssueApplied
<1>8. CASE apply_fill(s, e) = updated
  <2> HIDE DEF updated
  <2> QED BY <1>5, <1>6, <1>8
<1>9. CASE apply_fill(s, e) = [updated EXCEPT !.children[e.client] =
              [updated.children[e.client] EXCEPT !.exchange_order_id = e.exchange_order_id,
                 !.cum = e.cum, !.leaves = e.leaves,
                 !.state = IF e.leaves = 0 THEN "Filled" ELSE "PartiallyFilled"]]
  <2> HIDE DEF updated
  <2>1. apply_fill(s, e) = [updated EXCEPT !.children[e.client] = new]
    BY <1>3, <1>9
  <2> HIDE DEF new
  <2>2. Applied(updated, apply_fill(s, e), e)
    BY <1>0, <1>3, <1>4, <2>1, OneApplied
  <2> QED BY <1>5, <2>2
<1> QED BY <1>2, <1>7, <1>8, <1>9

\* A client that is told twice has been told.
LEMMA AppliedTwice ==
  ASSUME NEW s, NEW r, NEW q, NEW p, Applied(s, r, p), Applied(r, q, p),
         p.kind # "OrderRejected"
  PROVE  Applied(s, q, p)
<1>1. ASSUME NEW c \in ClientIds
      PROVE  q.children[c] = s.children[c] \/ Informed(s.children[c], q.children[c], p, c)
  BY DEF Applied, Informed
<1> QED BY <1>1 DEF Applied

LEMMA ReplaceAckApplied ==
  ASSUME NEW s, StateShape(s), NEW e \in ReplaceAcks
  PROVE  Applied(s, apply_replace_ack(s, e), e)
<1> DEFINE q == apply_replace_ack(s, e)
           old == s.children[e.client]
           one == IF knows_client_order_id(s, e.client)
                  THEN [old EXCEPT !.state = "Replaced", !.leaves = 0, !.replace_pending = FALSE]
                  ELSE old
           ended == [s EXCEPT !.children[e.client] = one]
           next == ended.children[e.new_client]
           two == IF knows_client_order_id(ended, e.new_client)
                  THEN [next EXCEPT !.exchange_order_id = e.exchange_order_id,
                                    !.requested = e.quantity, !.leaves = e.quantity, !.state = "Live"]
                  ELSE next
<1>0. e.client \in ClientIds /\ e.new_client \in ClientIds /\ e.kind = "ReplaceAcknowledged"
  BY DEF ReplaceAcks
<1>1. q = [ended EXCEPT !.children[e.new_client] = two]
  BY DEF apply_replace_ack
<1>2. Applied(s, ended, e)
  <2>1. CASE knows_client_order_id(s, e.client)
    <3>1. old \in Child /\ old # NoChild
      BY <1>0, <2>1, KnownChild
    <3>2. one = [old EXCEPT !.state = "Replaced", !.leaves = 0, !.replace_pending = FALSE]
      BY <2>1
    <3>3. one \in Child
      <4> HIDE DEF old, one
      <4> QED BY <3>1, <3>2 DEF Child, Terminals
    <3>4. Informed(old, one, e, e.client)
      <4> HIDE DEF old, one
      <4> QED BY <1>0, <3>1, <3>3 DEF Informed, Ends, Names
    <3> HIDE DEF one
    <3> QED BY <1>0, <3>4, OneApplied
  <2>2. CASE ~knows_client_order_id(s, e.client)
    <3>1. one = old
      BY <2>2
    <3>2. StateShape(ended) /\ ended.children = s.children
      <4> HIDE DEF one
      <4> QED BY <1>0, <3>1 DEF StateShape
    <3> QED BY <3>2 DEF Applied
  <2> QED BY <2>1, <2>2
<1> HIDE DEF ended
<1>3. StateShape(ended)
  BY <1>2 DEF Applied
<1>4. Applied(ended, q, e)
  <2>1. CASE knows_client_order_id(ended, e.new_client)
    <3>1. next \in Child /\ next # NoChild
      BY <1>0, <1>3, <2>1, KnownChild
    <3>2. two = [next EXCEPT !.exchange_order_id = e.exchange_order_id,
                             !.requested = e.quantity, !.leaves = e.quantity, !.state = "Live"]
      BY <2>1
    <3>3. two \in Child /\ two.state = "Live"
      <4> HIDE DEF next, two
      <4> QED BY <3>1, <3>2 DEF Child, ReplaceAcks, ActiveStates
    <3>4. Informed(next, two, e, e.new_client)
      <4> HIDE DEF next, two
      <4> QED BY <1>0, <3>1, <3>3 DEF Informed, Names, ActiveStates
    <3> HIDE DEF two, q
    <3> QED BY <1>0, <1>1, <1>3, <3>4, OneApplied
  <2>2. CASE ~knows_client_order_id(ended, e.new_client)
    <3>1. two = next
      BY <2>2
    <3>2. StateShape(q) /\ q.children = ended.children
      <4> HIDE DEF two, q
      <4> QED BY <1>0, <1>1, <1>3, <3>1 DEF StateShape
    <3> QED BY <3>2 DEF Applied
  <2> QED BY <2>1, <2>2
<1> HIDE DEF q
<1> QED BY <1>0, <1>2, <1>4, AppliedTwice DEF q

LEMMA TerminalApplied ==
  ASSUME NEW s, StateShape(s), NEW e \in Completed
  PROVE  Applied(s, apply_terminal(s, e), e)
<1> DEFINE q == apply_terminal(s, e)
<1>1. \/ \E code : q = Issue(s, code)
      \/ q = [s EXCEPT !.filled = ParentQuantity, !.terminal_applied = TRUE,
                       !.terminal_pending = FALSE]
  BY DEF apply_terminal
<1>2. CASE \E code : q = Issue(s, code)
  BY <1>2, IssueApplied
<1>3. CASE q = [s EXCEPT !.filled = ParentQuantity, !.terminal_applied = TRUE,
                         !.terminal_pending = FALSE]
  <2>1. ParentQuantity \in 0..ParentQuantity
    BY StateAssumption
  <2> HIDE DEF q
  <2>2. StateShape(q) /\ q.children = s.children
    BY <1>3, <2>1 DEF StateShape
  <2> QED BY <2>2 DEF Applied, q
<1> QED BY <1>1, <1>2, <1>3

LEMMA PayloadApplied ==
  ASSUME NEW s, StateShape(s), NEW e \in Replies \cup Completed
  PROVE  Applied(s, apply_payload(s, e), e)
<1>0. Applied(s, s, e)
  BY DEF Applied
<1>1. CASE e \in Completed
  <2>1. apply_payload(s, e) = apply_terminal(s, e)
    BY <1>1 DEF apply_payload, Completed, ChildEvents
  <2> QED BY <1>1, <2>1, TerminalApplied
<1>2. CASE e \in ReplaceAcks
  <2>1. apply_payload(s, e) = apply_replace_ack(s, e)
    BY <1>2 DEF apply_payload, ReplaceAcks, ChildEvents
  <2> QED BY <1>2, <2>1, ReplaceAckApplied
<1>3. CASE e \in Acks \cup Rejections \cup CancelAcks \cup FillEvents /\ ~knows_client_order_id(s, e.client)
  <2>1. apply_payload(s, e) = s
    BY <1>3 DEF apply_payload, Acks, Rejections, CancelAcks, FillEvents, ChildEvents
  <2> QED BY <1>0, <2>1
<1>4. CASE e \in Acks /\ knows_client_order_id(s, e.client)
  <2>1. apply_payload(s, e) = apply_order_ack(s, e)
    BY <1>4 DEF apply_payload, Acks, ChildEvents
  <2> QED BY <1>4, <2>1, AckApplied
<1>5. CASE e \in Rejections /\ knows_client_order_id(s, e.client)
  <2>1. apply_payload(s, e) = apply_order_rejection(s, e)
    BY <1>5 DEF apply_payload, Rejections, ChildEvents
  <2> QED BY <1>5, <2>1, RejectionApplied
<1>6. CASE e \in CancelAcks /\ knows_client_order_id(s, e.client)
  <2>1. apply_payload(s, e) = apply_cancel_ack(s, e)
    BY <1>6 DEF apply_payload, CancelAcks, ChildEvents
  <2> QED BY <1>6, <2>1, CancelAckApplied
<1>7. CASE e \in FillEvents /\ knows_client_order_id(s, e.client)
  <2>1. apply_payload(s, e) = apply_fill(s, e)
    BY <1>7 DEF apply_payload, FillEvents, ChildEvents
  <2> QED BY <1>7, <2>1, FillApplied
<1> QED BY <1>1, <1>2, <1>3, <1>4, <1>5, <1>6, <1>7 DEF Replies

LEMMA DeliveredEventApplied ==
  ASSUME NEW s, StateShape(s), NEW event, event.payload \in Replies \cup Completed, NEW time
  PROVE  Applied(s, apply_delivered_event(s, event, time), event.payload)
<1> DEFINE q == apply_delivered_event(s, event, time)
           r == [s EXCEPT !.events = s.events \cup {event.id}]
<1>1. \/ \E code : q = Issue(s, code)
      \/ q = apply_payload(r, event.payload)
  BY DEF apply_delivered_event
<1>2. StateShape(r) /\ r.children = s.children
  BY DEF StateShape
<1>3. CASE \E code : q = Issue(s, code)
  BY <1>3, IssueApplied
<1>4. CASE q = apply_payload(r, event.payload)
  <2> HIDE DEF r
  <2>1. Applied(r, q, event.payload)
    BY <1>2, <1>4, PayloadApplied
  <2> QED BY <1>2, <2>1 DEF Applied
<1> QED BY <1>1, <1>3, <1>4

\* The loop applies an event: it was true when it was told, and still is.
LEMMA ApplyDeliveredKeeps ==
  ASSUME IInv, ApplyDelivered
  PROVE  IInv'
<1> DEFINE d == kernel.delivered_events
           event == d[cursor + 1]
           p == event.payload
<1>1. /\ state' = apply_delivered_event(state, event, event.available)
      /\ cursor' = cursor + 1 /\ cursor < Len(d)
      /\ kernel' = kernel /\ exchange' = exchange /\ routed' = routed
  BY DEF ApplyDelivered
<1>2. /\ Shapes /\ StateShape(state) /\ cursor \in 0..Len(d) /\ Len(d) \in Nat
      /\ \A i \in 1..Len(d) : d[i].payload \in Replies \cup Completed
  BY ListedAppend DEF IInv, Shapes
<1>3. cursor + 1 \in 1..Len(d) /\ cursor + 1 \in (cursor + 1)..Len(d) /\ cursor + 1 \in 0..Len(d)
      /\ (cursor + 1 + 1)..Len(d) \subseteq (cursor + 1)..Len(d)
  <2> HIDE DEF d
  <2> QED BY <1>1, <1>2
<1>4. p \in Replies \cup Completed /\ p \in Told
  BY <1>2, <1>3 DEF Told
<1>5. Applied(state, state', p)
  <2> HIDE DEF event
  <2> QED BY <1>1, <1>2, <1>4, DeliveredEventApplied
<1>6. Shapes'
  BY <1>1, <1>2, <1>3, <1>5 DEF Shapes, Applied
<1>7. Sent' = Sent /\ Failed' = Failed /\ FailuresKept
  BY <1>1 DEF Sent, Failed, FailuresKept
<1>8. Told' \subseteq Told
  <2> SUFFICES ASSUME NEW r \in Told' PROVE r \in Told
    OBVIOUS
  <2>1. \/ \E u \in kernel.queue : u.stage = ObserverAvailable /\ r = u.event.payload
        \/ \E i \in (cursor + 1 + 1)..Len(d) : r = d[i].payload
    BY <1>1 DEF Told
  <2>2. \/ \E u \in kernel.queue : u.stage = ObserverAvailable /\ r = u.event.payload
        \/ \E i \in (cursor + 1)..Len(d) : r = d[i].payload
    BY <1>3, <2>1
  <2> QED BY <2>2 DEF Told
<1>9. ASSUME NEW c \in ClientIds PROVE Follows(c)
  <2> HIDE DEF p
  <2>1. CASE Informed(state.children[c], state'.children[c], p, c)
    <3>1. Knows(c) /\ Knows(c)' /\ c \in Names(p)
      BY <2>1, StateAssumption DEF Informed, Knows, knows_client_order_id
    <3>2. ~Reserved(c)
      BY <1>4, <3>1, ReservedFresh DEF Fresh, ToldAbout
    <3>3. state'.children[c].exchange_order_id # NoExchangeId => Has(c)
      BY <1>4, <2>1, <3>1 DEF Informed, IInv, IdsGiven, EventsTrue
    <3>4. c \in Live => state'.children[c].state \in {"PendingNew"} \cup ActiveStates
      BY <1>4, <2>1 DEF Informed, IInv, EventsTrue
    <3> QED BY <3>1, <3>2, <3>3, <3>4 DEF Follows, Updated
  <2> QED BY <1>5, <2>1 DEF Applied, Follows
<1> QED BY <1>1, <1>6, <1>7, <1>8, <1>9, QuietKeeps

-----------------------------------------------------------------------------
(***************************************************************************)
(* What the execution state makes of a failure.                            *)
(***************************************************************************)

\* Some children have changed, and the state is as it was otherwise.
LEMMA ChildrenShape ==
  ASSUME NEW s, StateShape(s), NEW q, NEW children \in [ClientIds -> Child \cup {NoChild}],
         q = [s EXCEPT !.children = children]
  PROVE  StateShape(q) /\ q.children = children
BY DEF StateShape

\* The failure of a command touches the child of its client, and takes back
\* the child of a replacement.
LEMMA FailureApplied ==
  ASSUME NEW s, StateShape(s), NEW command \in Commands,
         NEW current_state \in {NoState} \cup Terminals,
         knows_client_order_id(s, command.client),
         NEW q, q = apply_engine_failure(s, command, current_state)
  PROVE  /\ StateShape(q)
         /\ \A c \in ClientIds :
              \/ c # command.client /\ q.children[c] = s.children[c]
              \/ /\ command.kind = "Replace" /\ c = command.new_client
                 /\ q.children[c] = NoChild
              \/ /\ c = command.client
                 /\ q.children[c] \in Child
                 /\ q.children[c].exchange_order_id = s.children[c].exchange_order_id
                 /\ \/ q.children[c].state = s.children[c].state
                    \/ command.kind = "Submit"
                    \/ current_state # NoState
<1> DEFINE c0 == command.client
           old == s.children[c0]
           resolved == Resolved(old, current_state)
<1>0. c0 \in ClientIds /\ old \in Child
  BY KnownChild DEF Commands, Submits, Cancels, Replaces
<1>1. /\ resolved \in Child
      /\ resolved.exchange_order_id = old.exchange_order_id
      /\ resolved.state = old.state \/ current_state # NoState
  <2> HIDE DEF old
  <2> QED BY <1>0 DEF Resolved, Child
<1>2. CASE command \in Submits
  <2> DEFINE new == [old EXCEPT !.state = "Rejected", !.leaves = 0]
             children == [s.children EXCEPT ![c0] = new]
  <2>1. q = [s EXCEPT !.children = children]
    BY <1>2 DEF apply_engine_failure, apply_order_rejection, Submits
  <2>2. new \in Child /\ new.exchange_order_id = old.exchange_order_id
    <3> HIDE DEF old
    <3> QED BY <1>0 DEF Child, Terminals
  <2> HIDE DEF new
  <2>3. children \in [ClientIds -> Child \cup {NoChild}]
    BY <1>0, <2>2 DEF StateShape
  <2>4. \A c \in ClientIds : children[c] = IF c = c0 THEN new ELSE s.children[c]
    BY <1>0 DEF StateShape
  <2> HIDE DEF children
  <2>5. StateShape(q) /\ q.children = children
    BY <2>1, <2>3, ChildrenShape
  <2>6. command.kind = "Submit"
    BY <1>2 DEF Submits
  <2> QED BY <2>2, <2>4, <2>5, <2>6
<1>3. CASE command \in Cancels
  <2> DEFINE new == [resolved EXCEPT !.cancel_pending = FALSE]
             children == [s.children EXCEPT ![c0] = new]
  <2>1. q = [s EXCEPT !.children = children]
    BY <1>3 DEF apply_engine_failure, Cancels
  <2>2. new \in Child /\ new.exchange_order_id = old.exchange_order_id
        /\ new.state = resolved.state
    <3> HIDE DEF old, resolved
    <3> QED BY <1>1 DEF Child
  <2> HIDE DEF new
  <2>3. children \in [ClientIds -> Child \cup {NoChild}]
    BY <1>0, <2>2 DEF StateShape
  <2>4. \A c \in ClientIds : children[c] = IF c = c0 THEN new ELSE s.children[c]
    BY <1>0 DEF StateShape
  <2> HIDE DEF children
  <2>5. StateShape(q) /\ q.children = children
    BY <2>1, <2>3, ChildrenShape
  <2> HIDE DEF resolved
  <2> QED BY <1>1, <2>2, <2>4, <2>5
<1>4. CASE command \in Replaces
  <2> DEFINE new == [resolved EXCEPT !.replace_pending = FALSE]
             first == [s.children EXCEPT ![c0] = new]
             children == [first EXCEPT ![command.new_client] = NoChild]
  <2>1. q = [s EXCEPT !.children = children]
    <3>1. q = [[s EXCEPT !.children[c0] = new] EXCEPT !.children[command.new_client] = NoChild]
      BY <1>4 DEF apply_engine_failure, Replaces
    <3>2. [s EXCEPT !.children[c0] = new].children = first
      BY DEF StateShape
    <3> HIDE DEF new, first
    <3> QED BY <3>1, <3>2 DEF StateShape
  <2>2. new \in Child /\ new.exchange_order_id = old.exchange_order_id
        /\ new.state = resolved.state
    <3> HIDE DEF old, resolved
    <3> QED BY <1>1 DEF Child
  <2> HIDE DEF new
  <2>3. first \in [ClientIds -> Child \cup {NoChild}]
    BY <1>0, <2>2 DEF StateShape
  <2>4. \A c \in ClientIds : first[c] = IF c = c0 THEN new ELSE s.children[c]
    BY <1>0 DEF StateShape
  <2> HIDE DEF first
  <2>5. children \in [ClientIds -> Child \cup {NoChild}]
    BY <2>3
  <2>6. \A c \in ClientIds : children[c] = IF c = command.new_client THEN NoChild ELSE first[c]
    BY <2>3
  <2> HIDE DEF children
  <2>7. StateShape(q) /\ q.children = children
    BY <2>1, <2>5, ChildrenShape
  <2>8. command.kind = "Replace"
    BY <1>4 DEF Replaces
  <2> HIDE DEF resolved
  <2> QED BY <1>1, <2>2, <2>4, <2>6, <2>7, <2>8
<1> QED BY <1>2, <1>3, <1>4 DEF Commands

\* The loop hears of a failure.
LEMMA RouteFailureKeeps ==
  ASSUME IInv, RouteFailure
  PROVE  IInv'
<1> DEFINE n == routed + 1
           failure == kernel.failures[n]
           command == failure.command
           c0 == command.client
<1>1. /\ state' = apply_engine_failure(state, command, failure.current_state)
      /\ routed' = routed + 1 /\ routed < Len(kernel.failures)
      /\ kernel' = kernel /\ exchange' = exchange /\ cursor' = cursor
  BY DEF RouteFailure, FailureDue
<1>2. /\ Shapes /\ StateShape(state) /\ routed \in 0..Len(kernel.failures)
      /\ Len(kernel.failures) \in Nat
  BY ListedAppend DEF IInv, Shapes
<1>3. n \in Failed /\ routed' \in 0..Len(kernel.failures) /\ Failed' = Failed \ {n}
  BY <1>1, <1>2 DEF Failed
<1>4. command \in Commands /\ failure.current_state \in {NoState} \cup Terminals
  BY <1>1, <1>2 DEF Shapes, FailureSound
<1>5. FailuresKept /\ Sent' = Sent /\ Told' = Told
  BY <1>1 DEF FailuresKept, Sent, Told
<1>6. /\ c0 \in Names(command)
      /\ IF command.kind = "Submit" THEN ~Has(c0)
         ELSE Has(c0) /\ (failure.current_state # NoState => c0 \notin Live)
      /\ command.kind = "Replace" => Has(c0)
  BY <1>3, <1>4, CommandNames DEF IInv, FailuresTrue, Commands, Submits, Cancels, Replaces
<1>7. c0 \in Live => Has(c0)
  BY DEF Live, Has
<1>8. ~Reserved(c0)
  <2>1. n \in FailedAbout(c0)
    BY <1>3, <1>6 DEF FailedAbout
  <2> SUFFICES ASSUME Reserved(c0) PROVE FALSE
    OBVIOUS
  <2>2. ~Has(c0)
    BY ReservedFresh DEF Fresh
  <2>3. command.kind = "Submit"
    BY <1>6, <2>2
  <2>4. PICK i \in Failed : /\ kernel.failures[i].command.kind = "Replace"
                            /\ c0 = kernel.failures[i].command.new_client
    <3>1. ~\E task \in Sent : c0 \in Opens(task.event.payload)
      BY <2>1 DEF IInv, OpeningAlone
    <3> QED BY <3>1 DEF Reserved
  <2>5. FailedAbout(c0) = {i}
    BY <2>4 DEF IInv, RefusalAlone
  <2> QED BY <2>1, <2>3, <2>4, <2>5
<1>9. CASE ~Knows(c0)
  <2>1. state' = state
    BY <1>1, <1>9 DEF apply_engine_failure, Knows
  <2>2. Shapes'
    BY <1>1, <1>2, <1>3, <2>1 DEF Shapes
  <2>3. \A c \in ClientIds : Follows(c)
    BY <2>1 DEF Follows
  <2> QED BY <1>1, <1>3, <1>5, <2>2, <2>3, QuietKeeps
<1>10. CASE Knows(c0)
  <2>1. /\ StateShape(state')
        /\ \A c \in ClientIds :
              \/ c # c0 /\ state'.children[c] = state.children[c]
              \/ /\ command.kind = "Replace" /\ c = command.new_client
                 /\ state'.children[c] = NoChild
              \/ /\ c = c0
                 /\ state'.children[c] \in Child
                 /\ state'.children[c].exchange_order_id = state.children[c].exchange_order_id
                 /\ \/ state'.children[c].state = state.children[c].state
                    \/ command.kind = "Submit"
                    \/ failure.current_state # NoState
    <3> HIDE DEF command, failure
    <3> QED BY <1>1, <1>2, <1>4, <1>10, FailureApplied DEF Knows
  <2>2. Shapes'
    BY <1>1, <1>2, <1>3, <2>1 DEF Shapes
  <2>3. ASSUME NEW c \in ClientIds PROVE Follows(c)
    <3>1. CASE c # c0 /\ state'.children[c] = state.children[c]
      BY <3>1 DEF Follows
    <3>2. CASE command.kind = "Replace" /\ c = command.new_client /\ state'.children[c] = NoChild
      <4>0. n \in Failed /\ kernel.failures[n].command.kind = "Replace"
            /\ c = kernel.failures[n].command.new_client
        BY <1>3, <3>2
      <4>1. Fresh(c) /\ SentAbout(c) = {} /\ FailedAbout(c) = {n}
        <5> HIDE DEF n
        <5> QED BY <4>0 DEF IInv, RefusalAlone
      <4>2. FailedAbout(c)' = {}
        BY <1>3, <1>5, <4>1 DEF FailedAbout, FailuresKept
      <4> QED BY <3>2, <4>1, <4>2 DEF Follows, Forgotten, Fresh, Knows, knows_client_order_id
    <3>3. CASE /\ c = c0
               /\ state'.children[c] \in Child
               /\ state'.children[c].exchange_order_id = state.children[c].exchange_order_id
               /\ \/ state'.children[c].state = state.children[c].state
                  \/ command.kind = "Submit"
                  \/ failure.current_state # NoState
      <4>1. Knows(c)'
        BY <3>3, StateAssumption DEF Knows, knows_client_order_id
      <4>2. state'.children[c].exchange_order_id # NoExchangeId => Has(c)
        BY <1>10, <3>3 DEF IInv, IdsGiven
      <4>3. c \in Live => state'.children[c].state \in {"PendingNew"} \cup ActiveStates
        BY <1>6, <1>7, <3>3 DEF IInv, NoForgottenOrder
      <4> QED BY <1>8, <1>10, <3>3, <4>1, <4>2, <4>3 DEF Follows, Updated
    <3> QED BY <2>1, <3>1, <3>2, <3>3
  <2> QED BY <1>1, <1>3, <1>5, <2>2, <2>3, QuietKeeps
<1> QED BY <1>9, <1>10

-----------------------------------------------------------------------------
(***************************************************************************)
(* Decisions: what is scheduled and what is registered.                    *)
(***************************************************************************)

\* Tasks have come into the queue, and the state has followed.
LEMMA PostedKeeps ==
  ASSUME IInv, Keeps(kernel, kernel'),
         exchange' = exchange, cursor' = cursor, routed' = routed, StateShape(state'),
         \A c \in ClientIds : Follows(c),
         \A task \in kernel'.queue \ kernel.queue :
           /\ TaskSound(task) /\ task.stage # ObserverAvailable
           /\ IsCommand(task) => Dispatched(task),
         \A t, u \in kernel'.queue \ kernel.queue :
           Opens(t.event.payload) \cap Opens(u.event.payload) # {} => t = u
  PROVE  IInv'
<1>1. Shapes /\ ExchangeShape(exchange')
  BY DEF IInv, Shapes
<1>2. /\ Shapes' /\ Failed' = Failed /\ FailuresKept
      /\ \A p : p \in Told' =>
           \/ p \in Told
           \/ \E task \in kernel'.queue \ kernel.queue :
                task.stage = ObserverAvailable /\ p = task.event.payload
  BY <1>1, ListsStay
<1>3. Told' \subseteq Told \cup Completed
  BY <1>2
<1>4. \A task \in Sent' \ Sent : task \in kernel'.queue \ kernel.queue /\ IsCommand(task)
  BY DEF Sent
<1> QED BY <1>2, <1>3, <1>4, QuietKeeps

\* f gives the kernel after each of the commands.
Schedules(f, commands, timings, n) ==
  f = [i \in 0..n |->
        IF i = 0 THEN Call(kernel) ELSE schedule_command(f[i - 1], commands[i], timings[i])]

LEMMA SchedulesExists ==
  ASSUME NEW commands, NEW timings, NEW n \in Nat
  PROVE  \E f : Schedules(f, commands, timings, n)
<1> DEFINE Good == {m \in Nat : \E f : Schedules(f, commands, timings, m)}
<1>1. 0 \in Good
  <2>1. Schedules([i \in 0..0 |-> Call(kernel)], commands, timings, 0)
    BY DEF Schedules
  <2> QED BY <2>1
<1>2. ASSUME NEW m \in Nat, m \in Good PROVE m + 1 \in Good
  <2>1. PICK f : Schedules(f, commands, timings, m)
    BY <1>2
  <2> DEFINE g == [i \in 0..(m + 1) |->
                     IF i = 0 THEN Call(kernel)
                     ELSE schedule_command(f[i - 1], commands[i], timings[i])]
  <2>2. \A i \in 0..m : g[i] = f[i]
    BY <2>1 DEF Schedules
  <2>3. \A i \in 0..(m + 1) : i # 0 => f[i - 1] = g[i - 1]
    <3> HIDE DEF g
    <3> QED BY <2>2
  <2>4. g = [i \in 0..(m + 1) |->
               IF i = 0 THEN Call(kernel)
               ELSE schedule_command(g[i - 1], commands[i], timings[i])]
    <3>1. \A i \in 0..(m + 1) :
            (IF i = 0 THEN Call(kernel) ELSE schedule_command(f[i - 1], commands[i], timings[i]))
            = (IF i = 0 THEN Call(kernel) ELSE schedule_command(g[i - 1], commands[i], timings[i]))
      <4> HIDE DEF g
      <4> QED BY <2>3
    <3> QED BY <3>1
  <2>5. Schedules(g, commands, timings, m + 1)
    <3> HIDE DEF g
    <3> QED BY <2>4 DEF Schedules
  <2> QED BY <2>5
<1>3. Nat \subseteq Good
  <2> HIDE DEF Good
  <2> QED BY <1>1, <1>2, NaturalInduction
<1> QED BY <1>3

LEMMA ScheduledSteps ==
  ASSUME NEW commands, NEW timings, Len(commands) \in Nat
  PROVE  \E f : /\ f[0] = Call(kernel)
                /\ \A i \in 1..Len(commands) :
                     f[i] = Generate(f[i - 1], commands[i], timings[i].receive, ExchangeReceive, timings[i])
                /\ ScheduledCommands(commands, timings) = f[Len(commands)]
<1>1. PICK g : Schedules(g, commands, timings, Len(commands))
  BY SchedulesExists
<1> DEFINE f == CHOOSE f : Schedules(f, commands, timings, Len(commands))
<1>2. /\ Schedules(f, commands, timings, Len(commands))
      /\ ScheduledCommands(commands, timings) = f[Len(commands)]
  BY <1>1, Zenon DEF ScheduledCommands, Schedules
<1> HIDE DEF f
<1>3. f[0] = Call(kernel)
  BY <1>2 DEF Schedules
<1>4. \A i \in 1..Len(commands) :
        f[i] = Generate(f[i - 1], commands[i], timings[i].receive, ExchangeReceive, timings[i])
  BY <1>2 DEF Schedules, schedule_command
<1> QED BY <1>2, <1>3, <1>4

\* The commands of a decision come into the queue, all of them or the first few.
LEMMA ScheduledPosts ==
  ASSUME KernelShape(kernel), NEW commands, NEW timings, Len(commands) \in Nat,
         NEW q, q = ScheduledCommands(commands, timings)
  PROVE  Posts(kernel, q, ExchangeReceive, {commands[i] : i \in 1..Len(commands)})
<1> DEFINE all == {commands[i] : i \in 1..Len(commands)}
<1>1. PICK f : /\ f[0] = Call(kernel)
               /\ \A i \in 1..Len(commands) :
                    f[i] = Generate(f[i - 1], commands[i], timings[i].receive, ExchangeReceive, timings[i])
               /\ ScheduledCommands(commands, timings) = f[Len(commands)]
  BY ScheduledSteps
<1> DEFINE Good == {m \in Nat : m <= Len(commands) => Posts(kernel, f[m], ExchangeReceive, all)}
<1>2. 0 \in Good
  BY <1>1, CallShape DEF Posts
<1>3. ASSUME NEW m \in Nat, m \in Good PROVE m + 1 \in Good
  <2> SUFFICES ASSUME m + 1 <= Len(commands) PROVE Posts(kernel, f[m + 1], ExchangeReceive, all)
    OBVIOUS
  <2>1. Posts(kernel, f[m], ExchangeReceive, all)
    BY <1>3
  <2>2. f[m + 1] = Generate(f[m], commands[m + 1], timings[m + 1].receive, ExchangeReceive, timings[m + 1])
    BY <1>1
  <2>3. commands[m + 1] \in all
    OBVIOUS
  <2>4. Puts(f[m], f[m + 1], ExchangeReceive, commands[m + 1])
    BY <2>1, <2>2, GeneratePuts DEF Posts, Keeps
  <2> HIDE DEF all
  <2> QED BY <2>1, <2>3, <2>4, PutsIsAdding
<1>4. Nat \subseteq Good
  <2> HIDE DEF Good
  <2> QED BY <1>2, <1>3, NaturalInduction
<1>5. Posts(kernel, f[Len(commands)], ExchangeReceive, all)
  <2>1. \A m \in Nat : m <= Len(commands) => Posts(kernel, f[m], ExchangeReceive, all)
    <3> HIDE DEF all
    <3> QED BY <1>4
  <2>2. \A n \in Nat : n <= n
    OBVIOUS
  <2> HIDE DEF all
  <2> QED BY <2>1, <2>2, Zenon
<1> QED BY <1>1, <1>5

\* One command is scheduled, or an exception leaves the queue as it was.
LEMMA ScheduledOne ==
  ASSUME KernelShape(kernel), NEW command, NEW timings,
         NEW q, q = ScheduledCommands(<<command>>, timings)
  PROVE  /\ Keeps(kernel, q)
         /\ \/ q.thrown /\ q.queue = kernel.queue
            \/ /\ ~q.thrown
               /\ \E task : /\ task.stage = ExchangeReceive /\ task.event.payload = command
                            /\ q.queue = kernel.queue \cup {task}
<1>1. Len(<<command>>) = 1 /\ <<command>>[1] = command
  OBVIOUS
<1>2. PICK f : /\ f[0] = Call(kernel)
               /\ \A i \in 1..Len(<<command>>) :
                    f[i] = Generate(f[i - 1], <<command>>[i], timings[i].receive, ExchangeReceive, timings[i])
               /\ ScheduledCommands(<<command>>, timings) = f[Len(<<command>>)]
  <2>1. Len(<<command>>) \in Nat
    BY <1>1
  <2> HIDE DEF ScheduledCommands
  <2> QED BY <2>1, ScheduledSteps
<1>3. q = Generate(Call(kernel), command, timings[1].receive, ExchangeReceive, timings[1])
  BY <1>1, <1>2
<1> DEFINE r == Call(kernel)
<1>4. KernelShape(r) /\ r.queue = kernel.queue /\ Keeps(kernel, r)
  BY CallShape
<1> HIDE DEF r
<1>5. Puts(r, q, ExchangeReceive, command)
  BY <1>3, <1>4, GeneratePuts DEF r
<1> QED BY <1>4, <1>5 DEF Puts, Keeps

\* f gives the state after each of the commands has been registered.
Registers(f, s, commands, n) ==
  f = [i \in 0..n |-> IF i = 0 THEN s ELSE register_command(f[i - 1], commands[i])]

LEMMA RegistersExists ==
  ASSUME NEW s, NEW commands, NEW n \in Nat
  PROVE  \E f : Registers(f, s, commands, n)
<1> DEFINE Good == {m \in Nat : \E f : Registers(f, s, commands, m)}
<1>1. 0 \in Good
  <2>1. Registers([i \in 0..0 |-> s], s, commands, 0)
    BY DEF Registers
  <2> QED BY <2>1
<1>2. ASSUME NEW m \in Nat, m \in Good PROVE m + 1 \in Good
  <2>1. PICK f : Registers(f, s, commands, m)
    BY <1>2
  <2> DEFINE g == [i \in 0..(m + 1) |->
                     IF i = 0 THEN s ELSE register_command(f[i - 1], commands[i])]
  <2>2. \A i \in 0..m : g[i] = f[i]
    BY <2>1 DEF Registers
  <2>3. \A i \in 0..(m + 1) : i # 0 => f[i - 1] = g[i - 1]
    <3> HIDE DEF g
    <3> QED BY <2>2
  <2>4. g = [i \in 0..(m + 1) |->
               IF i = 0 THEN s ELSE register_command(g[i - 1], commands[i])]
    <3>1. \A i \in 0..(m + 1) :
            (IF i = 0 THEN s ELSE register_command(f[i - 1], commands[i]))
            = (IF i = 0 THEN s ELSE register_command(g[i - 1], commands[i]))
      <4> HIDE DEF g
      <4> QED BY <2>3
    <3> QED BY <3>1
  <2>5. Registers(g, s, commands, m + 1)
    <3> HIDE DEF g
    <3> QED BY <2>4 DEF Registers
  <2> QED BY <2>5
<1>3. Nat \subseteq Good
  <2> HIDE DEF Good
  <2> QED BY <1>1, <1>2, NaturalInduction
<1> QED BY <1>3

LEMMA RegisteredSteps ==
  ASSUME NEW s, NEW commands, Len(commands) \in Nat
  PROVE  \E f : /\ f[0] = s
                /\ \A i \in 1..Len(commands) : f[i] = register_command(f[i - 1], commands[i])
                /\ register_action(s, commands) = f[Len(commands)]
<1>1. PICK g : Registers(g, s, commands, Len(commands))
  BY RegistersExists
<1> DEFINE f == CHOOSE f : Registers(f, s, commands, Len(commands))
<1>2. /\ Registers(f, s, commands, Len(commands))
      /\ register_action(s, commands) = f[Len(commands)]
  BY <1>1, Zenon DEF register_action, Registers
<1> HIDE DEF f
<1>3. f[0] = s
  BY <1>2 DEF Registers
<1>4. \A i \in 1..Len(commands) : f[i] = register_command(f[i - 1], commands[i])
  BY <1>2 DEF Registers
<1> QED BY <1>2, <1>3, <1>4

\* Commands have been noted on children that are known; nothing else of these
\* children has changed.
Noted(s, q, clients) ==
  /\ StateShape(q)
  /\ \A c \in ClientIds :
       \/ q.children[c] = s.children[c]
       \/ /\ c \in clients /\ q.children[c] \in Child
          /\ q.children[c].exchange_order_id = s.children[c].exchange_order_id
          /\ q.children[c].state = s.children[c].state

LEMMA CancelNoted ==
  ASSUME NEW s, StateShape(s), NEW command \in Cancels, s.children[command.client] \in Child,
         NEW clients, command.client \in clients, NEW q, q = register_command(s, command)
  PROVE  Noted(s, q, clients)
<1> DEFINE c0 == command.client
           old == s.children[c0]
           new == [old EXCEPT !.cancel_pending = TRUE]
           children == [s.children EXCEPT ![c0] = new]
<1>0. c0 \in ClientIds /\ command.kind = "Cancel"
  BY DEF Cancels
<1>1. q = [s EXCEPT !.children = children]
  BY <1>0 DEF register_command
<1>2. /\ new \in Child /\ new.exchange_order_id = old.exchange_order_id
      /\ new.state = old.state
  <2> HIDE DEF old
  <2> QED BY DEF Child, old
<1> HIDE DEF new
<1>3. children \in [ClientIds -> Child \cup {NoChild}]
  BY <1>0, <1>2 DEF StateShape
<1>4. \A c \in ClientIds : children[c] = IF c = c0 THEN new ELSE s.children[c]
  BY <1>0 DEF StateShape
<1> HIDE DEF children
<1>5. StateShape(q) /\ q.children = children
  BY <1>1, <1>3, ChildrenShape
<1> QED BY <1>2, <1>4, <1>5 DEF Noted

LEMMA NotedTwice ==
  ASSUME NEW s, NEW r, NEW q, NEW clients, Noted(s, r, clients), Noted(r, q, clients)
  PROVE  Noted(s, q, clients)
BY DEF Noted

\* The cancels of a decision are noted on the children of their orders.
LEMMA CancelsNoted ==
  ASSUME NEW s, StateShape(s), NEW commands, Len(commands) \in Nat, NEW clients,
         \A i \in 1..Len(commands) :
           /\ commands[i] \in Cancels /\ commands[i].client \in clients
           /\ s.children[commands[i].client] \in Child
  PROVE  Noted(s, register_action(s, commands), clients)
<1>1. PICK f : /\ f[0] = s
               /\ \A i \in 1..Len(commands) : f[i] = register_command(f[i - 1], commands[i])
               /\ register_action(s, commands) = f[Len(commands)]
  BY RegisteredSteps
<1> DEFINE Good == {m \in Nat : m <= Len(commands) => Noted(s, f[m], clients)}
<1>2. 0 \in Good
  BY <1>1 DEF Noted
<1>3. ASSUME NEW m \in Nat, m \in Good PROVE m + 1 \in Good
  <2> SUFFICES ASSUME m + 1 <= Len(commands) PROVE Noted(s, f[m + 1], clients)
    OBVIOUS
  <2>1. Noted(s, f[m], clients)
    BY <1>3
  <2> DEFINE command == commands[m + 1]
  <2>2. /\ f[m + 1] = register_command(f[m], command)
        /\ command \in Cancels /\ command.client \in clients
        /\ s.children[command.client] \in Child
    BY <1>1
  <2> HIDE DEF command
  <2>3. f[m].children[command.client] \in Child
    <3>1. command.client \in ClientIds
      BY <2>2 DEF Cancels
    <3> QED BY <2>1, <2>2, <3>1 DEF Noted
  <2>4. Noted(f[m], f[m + 1], clients)
    BY <2>1, <2>2, <2>3, CancelNoted DEF Noted
  <2> QED BY <2>1, <2>4, NotedTwice
<1>4. Nat \subseteq Good
  <2> HIDE DEF Good
  <2> QED BY <1>2, <1>3, NaturalInduction
<1>5. Noted(s, f[Len(commands)], clients)
  <2>1. \A m \in Nat : m <= Len(commands) => Noted(s, f[m], clients)
    BY <1>4
  <2>2. \A n \in Nat : n <= n
    OBVIOUS
  <2> QED BY <2>1, <2>2, Zenon
<1> QED BY <1>1, <1>5

LEMMA RegisteredOne ==
  ASSUME NEW s, NEW command
  PROVE  register_action(s, <<command>>) = register_command(s, command)
<1>1. Len(<<command>>) = 1 /\ <<command>>[1] = command
  OBVIOUS
<1>2. PICK f : /\ f[0] = s
               /\ \A i \in 1..Len(<<command>>) : f[i] = register_command(f[i - 1], <<command>>[i])
               /\ register_action(s, <<command>>) = f[Len(<<command>>)]
  <2>1. Len(<<command>>) \in Nat
    BY <1>1
  <2> QED BY <2>1, RegisteredSteps
<1> QED BY <1>1, <1>2

\* The cancels that a decision sends are of the chosen children.
LEMMA CancelCommandsOf ==
  ASSUME NEW clients \in SUBSET ClientIds,
         NEW commands, commands = CancelCommands(clients),
         \A c \in clients : state.children[c] \in Child
  PROVE  /\ Len(commands) \in Nat
         /\ \A i \in 1..Len(commands) : commands[i] \in Cancels /\ commands[i].client \in clients
<1> DEFINE ids == SetToSeq(clients)
           n == Cardinality(clients)
<1>1. IsFiniteSet(clients)
  BY StateAssumption, FS_Subset
<1>2. n \in Nat /\ ExistsBijection(1..n, clients)
  BY <1>1, FS_CardinalityType
<1>3. \E f \in [1..n -> clients] : IsInjective(f)
  BY <1>2 DEF ExistsBijection, Bijection, Injection, IsInjective
<1>4. ids \in [1..n -> clients]
  BY <1>3 DEF SetToSeq
<1> HIDE DEF ids, n
<1>5. commands = [i \in 1..n |->
         [kind |-> "Cancel", client |-> ids[i],
          exchange_order_id |-> state.children[ids[i]].exchange_order_id]]
  BY <1>4 DEF CancelCommands, ids
<1>6. Len(commands) = n
  BY <1>2, <1>5
<1>7. ASSUME NEW i \in 1..n PROVE commands[i] \in Cancels /\ commands[i].client \in clients
  <2>1. ids[i] \in clients
    BY <1>4
  <2>2. state.children[ids[i]].exchange_order_id \in Nat
    BY <2>1 DEF Child
  <2> QED BY <1>5, <2>1, <2>2 DEF Cancels
<1> QED BY <1>2, <1>6, <1>7

LEMMA NewChildFacts ==
  ASSUME NEW quantity \in Nat, NEW child, child = NewChild(quantity)
  PROVE  /\ child \in Child /\ child # NoChild /\ child.state = "PendingNew"
         /\ child.exchange_order_id = NoExchangeId
<1>1. /\ child \in Child /\ child.state = "PendingNew"
      /\ child.exchange_order_id = NoExchangeId
  BY DEF NewChild, Child, NoExchangeId
<1> QED BY <1>1, StateAssumption

\* A submit is of a client that nobody has heard of.
LEMMA SubmitKeeps ==
  ASSUME IInv, NEW command \in Submits, ~knows_client_order_id(state, command.client),
         dispatch_validated_action(<<command>>),
         UNCHANGED <<exchange, clock, cursor, routed, takes>>
  PROVE  IInv'
<1> DEFINE c0 == command.client
           child == NewChild(command.quantity)
<1>0. c0 \in ClientIds /\ command.quantity \in Nat /\ command.kind = "Submit"
  BY DEF Submits
<1>1. KernelShape(kernel) /\ StateShape(state)
  BY DEF IInv, Shapes
<1>2. PICK timings \in [DOMAIN <<command>> -> action_timing(clock)] :
        /\ kernel' = ScheduledCommands(<<command>>, timings)
        /\ state' = IF kernel'.thrown THEN state ELSE register_action(state, <<command>>)
  BY DEF dispatch_validated_action
<1>3. /\ Keeps(kernel, kernel')
      /\ \/ kernel'.thrown /\ kernel'.queue = kernel.queue
         \/ /\ ~kernel'.thrown
            /\ \E task : /\ task.stage = ExchangeReceive /\ task.event.payload = command
                         /\ kernel'.queue = kernel.queue \cup {task}
  BY <1>1, <1>2, ScheduledOne
<1>4. CASE kernel'.thrown /\ kernel'.queue = kernel.queue
  <2>1. state' = state
    BY <1>2, <1>4
  <2>2. \A c \in ClientIds : Follows(c)
    BY <2>1 DEF Follows
  <2> QED BY <1>1, <1>3, <1>4, <2>1, <2>2, PostedKeeps
<1>5. CASE ~kernel'.thrown /\ \E task : /\ task.stage = ExchangeReceive /\ task.event.payload = command
                                        /\ kernel'.queue = kernel.queue \cup {task}
  <2>1. PICK task : /\ task.stage = ExchangeReceive /\ task.event.payload = command
                    /\ kernel'.queue = kernel.queue \cup {task}
    BY <1>5
  <2> DEFINE children == [state.children EXCEPT ![c0] = child]
  <2>2. state' = [state EXCEPT !.children = children]
    <3>1. state' = register_command(state, command)
      BY <1>2, <1>5, RegisteredOne
    <3> QED BY <1>0, <3>1 DEF register_command
  <2>3. /\ child \in Child /\ child # NoChild /\ child.state = "PendingNew"
        /\ child.exchange_order_id = NoExchangeId
    BY <1>0, NewChildFacts
  <2> HIDE DEF child
  <2>4. children \in [ClientIds -> Child \cup {NoChild}]
    BY <1>1, <2>3 DEF StateShape
  <2>5. \A c \in ClientIds : children[c] = IF c = c0 THEN child ELSE state.children[c]
    BY <1>1 DEF StateShape
  <2> HIDE DEF children
  <2>6. StateShape(state') /\ state'.children = children
    BY <1>1, <2>2, <2>4, ChildrenShape
  <2>7. Registered(c0)
    BY <1>0, <2>3, <2>5, <2>6 DEF Registered, Knows, knows_client_order_id
  <2>8. \A c \in ClientIds : Follows(c)
    BY <2>5, <2>6, <2>7 DEF Follows
  <2>9. Names(command) = {c0} /\ Opens(command) = {c0}
    BY <1>0 DEF Names, Opens
  <2>10. TaskSound(task) /\ task.stage # ObserverAvailable /\ Dispatched(task)
    BY <1>0, <2>1, <2>7, <2>9
       DEF TaskSound, IsCommand, Commands, Dispatched, ExchangeReceive, ObserverAvailable
  <2>11. \A t \in kernel'.queue \ kernel.queue : t = task
    BY <2>1
  <2> QED BY <1>3, <2>6, <2>8, <2>10, <2>11, PostedKeeps
<1> QED BY <1>3, <1>4, <1>5

\* The orders that the state holds for active are ones the exchange accepted.
LEMMA ActiveAccepted ==
  ASSUME IInv, NEW c \in acknowledged_active_orders(state)
  PROVE  /\ c \in ClientIds /\ Knows(c) /\ Has(c) /\ ~Reserved(c)
         /\ state.children[c] \in Child /\ state.children[c].state \in ActiveStates
<1>1. /\ c \in ClientIds /\ Knows(c) /\ state.children[c].state \in ActiveStates
      /\ state.children[c].exchange_order_id # NoExchangeId
  BY DEF acknowledged_active_orders, Known, acknowledged_active, Knows
<1>2. Has(c)
  BY <1>1 DEF IInv, IdsGiven
<1> QED BY <1>1, <1>2, ReservedFresh, KnownChild DEF Fresh, IInv, Shapes, Knows

\* Cancels are of orders that the exchange has accepted.  If scheduling one of
\* them throws, the ones before it are on their way and not registered.
LEMMA CancelsKeep ==
  ASSUME IInv, NEW clients \in SUBSET acknowledged_active_orders(state),
         dispatch_validated_action(CancelCommands(clients)),
         UNCHANGED <<exchange, clock, cursor, routed, takes>>
  PROVE  IInv'
<1> DEFINE commands == CancelCommands(clients)
<1>1. KernelShape(kernel) /\ StateShape(state)
  BY DEF IInv, Shapes
<1>2. clients \in SUBSET ClientIds /\ \A c \in clients : state.children[c] \in Child
  BY ActiveAccepted
<1>3. /\ Len(commands) \in Nat
      /\ \A i \in 1..Len(commands) : commands[i] \in Cancels /\ commands[i].client \in clients
  <2> HIDE DEF commands
  <2> QED BY <1>2, CancelCommandsOf DEF commands
<1>4. PICK timings \in [DOMAIN commands -> action_timing(clock)] :
        /\ kernel' = ScheduledCommands(commands, timings)
        /\ state' = IF kernel'.thrown THEN state ELSE register_action(state, commands)
  BY DEF dispatch_validated_action
<1> HIDE DEF commands
<1>5. Posts(kernel, kernel', ExchangeReceive, {commands[i] : i \in 1..Len(commands)})
  BY <1>1, <1>3, <1>4, ScheduledPosts
<1>6. Noted(state, state', clients)
  <2>1. Noted(state, state, clients)
    BY <1>1 DEF Noted
  <2>2. Noted(state, register_action(state, commands), clients)
    BY <1>1, <1>2, <1>3, CancelsNoted
  <2> QED BY <1>4, <2>1, <2>2
<1>7. ASSUME NEW c \in ClientIds PROVE Follows(c)
  <2>1. CASE /\ c \in clients /\ state'.children[c] \in Child
             /\ state'.children[c].exchange_order_id = state.children[c].exchange_order_id
             /\ state'.children[c].state = state.children[c].state
    <3>1. Knows(c) /\ Has(c) /\ ~Reserved(c) /\ state.children[c].state \in ActiveStates
      BY <2>1, ActiveAccepted
    <3>2. Knows(c)'
      BY <2>1, StateAssumption DEF Knows, knows_client_order_id
    <3> QED BY <2>1, <3>1, <3>2 DEF Follows, Updated
  <2> QED BY <1>6, <2>1 DEF Noted, Follows
<1>8. ASSUME NEW task \in kernel'.queue \ kernel.queue
      PROVE  /\ TaskSound(task) /\ task.stage # ObserverAvailable /\ Dispatched(task)
             /\ Opens(task.event.payload) = {}
  <2>1. task.stage = ExchangeReceive /\ task.event.payload \in Cancels
        /\ task.event.payload.client \in clients
    BY <1>3, <1>5 DEF Posts
  <2>2. Has(task.event.payload.client)
    BY <2>1, ActiveAccepted
  <2>3. task.event.payload.kind = "Cancel"
    BY <2>1 DEF Cancels
  <2>4. Names(task.event.payload) = {task.event.payload.client} /\ Opens(task.event.payload) = {}
    BY <2>3 DEF Names, Opens
  <2>5. Dispatched(task)
    BY <2>2, <2>4 DEF Dispatched
  <2> QED BY <2>1, <2>4, <2>5 DEF TaskSound, IsCommand, Commands, ExchangeReceive, ObserverAvailable
<1>9. Keeps(kernel, kernel') /\ StateShape(state')
  BY <1>5, <1>6 DEF Posts, Noted
<1> QED BY <1>7, <1>8, <1>9, PostedKeeps

\* A replacement is of an accepted order, by a client nobody has heard of.
LEMMA ReplaceKeeps ==
  ASSUME IInv, NEW command \in Replaces,
         command.client \in acknowledged_active_orders(state),
         ~knows_client_order_id(state, command.new_client),
         dispatch_validated_action(<<command>>),
         UNCHANGED <<exchange, clock, cursor, routed, takes>>
  PROVE  IInv'
<1> DEFINE c0 == command.client
           c1 == command.new_client
           child == NewChild(command.quantity)
           old == state.children[c0]
           new == [old EXCEPT !.replace_pending = TRUE]
<1>0. /\ c0 \in ClientIds /\ c1 \in ClientIds /\ command.quantity \in Nat
      /\ command.kind = "Replace"
  BY DEF Replaces
<1>1. KernelShape(kernel) /\ StateShape(state)
  BY DEF IInv, Shapes
<1>2. PICK timings \in [DOMAIN <<command>> -> action_timing(clock)] :
        /\ kernel' = ScheduledCommands(<<command>>, timings)
        /\ state' = IF kernel'.thrown THEN state ELSE register_action(state, <<command>>)
  BY DEF dispatch_validated_action
<1>3. /\ Keeps(kernel, kernel')
      /\ \/ kernel'.thrown /\ kernel'.queue = kernel.queue
         \/ /\ ~kernel'.thrown
            /\ \E task : /\ task.stage = ExchangeReceive /\ task.event.payload = command
                         /\ kernel'.queue = kernel.queue \cup {task}
  BY <1>1, <1>2, ScheduledOne
<1>4. CASE kernel'.thrown /\ kernel'.queue = kernel.queue
  <2>1. state' = state
    BY <1>2, <1>4
  <2>2. \A c \in ClientIds : Follows(c)
    BY <2>1 DEF Follows
  <2> QED BY <1>1, <1>3, <1>4, <2>1, <2>2, PostedKeeps
<1>5. CASE ~kernel'.thrown /\ \E task : /\ task.stage = ExchangeReceive /\ task.event.payload = command
                                        /\ kernel'.queue = kernel.queue \cup {task}
  <2>1. PICK task : /\ task.stage = ExchangeReceive /\ task.event.payload = command
                    /\ kernel'.queue = kernel.queue \cup {task}
    BY <1>5
  <2>0. /\ Knows(c0) /\ Has(c0) /\ ~Reserved(c0) /\ old \in Child /\ old.state \in ActiveStates
        /\ c0 # c1
    BY ActiveAccepted DEF Knows
  <2> DEFINE first == [state.children EXCEPT ![c0] = new]
             children == [first EXCEPT ![c1] = child]
  <2>2. state' = [state EXCEPT !.children = children]
    <3>1. state' = register_command(state, command)
      BY <1>2, <1>5, RegisteredOne
    <3>2. state' = [[state EXCEPT !.children[c0].replace_pending = TRUE] EXCEPT !.children[c1] = child]
      BY <1>0, <3>1 DEF register_command
    <3>3. [state EXCEPT !.children[c0].replace_pending = TRUE].children = first
      BY <1>1 DEF StateShape
    <3> HIDE DEF first, child
    <3> QED BY <3>2, <3>3 DEF StateShape
  <2>3. /\ child \in Child /\ child # NoChild /\ child.state = "PendingNew"
        /\ child.exchange_order_id = NoExchangeId
    BY <1>0, NewChildFacts
  <2>4. /\ new \in Child /\ new.exchange_order_id = old.exchange_order_id
        /\ new.state = old.state
    <3> HIDE DEF old
    <3> QED BY <2>0 DEF Child, old
  <2> HIDE DEF child, new
  <2>5. first \in [ClientIds -> Child \cup {NoChild}]
    BY <1>1, <2>4 DEF StateShape
  <2>6. \A c \in ClientIds : first[c] = IF c = c0 THEN new ELSE state.children[c]
    BY <1>1 DEF StateShape
  <2> HIDE DEF first
  <2>7. children \in [ClientIds -> Child \cup {NoChild}]
    BY <2>3, <2>5
  <2>8. \A c \in ClientIds : children[c] = IF c = c1 THEN child ELSE first[c]
    BY <2>5
  <2> HIDE DEF children
  <2>9. StateShape(state') /\ state'.children = children
    BY <1>1, <2>2, <2>7, ChildrenShape
  <2>10. Registered(c1)
    BY <1>0, <2>3, <2>8, <2>9 DEF Registered, Knows, knows_client_order_id
  <2>11. Updated(c0)
    <3>1. state'.children[c0] = new /\ new # NoChild
      BY <1>0, <2>0, <2>4, <2>6, <2>8, <2>9, StateAssumption
    <3>2. Knows(c0)'
      BY <3>1 DEF Knows, knows_client_order_id
    <3> QED BY <2>0, <2>4, <3>1, <3>2 DEF Updated
  <2>12. \A c \in ClientIds : Follows(c)
    BY <2>6, <2>8, <2>9, <2>10, <2>11 DEF Follows
  <2>13. Names(command) = {c0, c1} /\ Opens(command) = {c1}
    BY <1>0 DEF Names, Opens
  <2>14. TaskSound(task) /\ task.stage # ObserverAvailable /\ Dispatched(task)
    BY <1>0, <2>0, <2>1, <2>10, <2>13
       DEF TaskSound, IsCommand, Commands, Dispatched, ExchangeReceive, ObserverAvailable
  <2>15. \A t \in kernel'.queue \ kernel.queue : t = task
    BY <2>1
  <2> QED BY <1>3, <2>9, <2>12, <2>14, <2>15, PostedKeeps
<1> QED BY <1>3, <1>4, <1>5

\* Whole lots of what remains.
LEMMA FractionIsLots ==
  ASSUME NEW remaining \in Nat, NEW f \in Fractions
  PROVE  fraction_quantity(remaining, f) \in Nat
<1>1. f \in Nat \X Nat /\ f[1] \in 1..f[2]
  BY SystemAssumption
<1>2. remaining * f[1] \in Nat /\ f[2] \in Nat /\ f[2] > 0
  BY <1>1
<1>3. PICK product \in Nat : product = remaining * f[1]
  BY <1>2
<1>4. PICK d \in Nat \ {0} : d = f[2]
  BY <1>2
<1>5. product \div d \in Nat /\ product % d \in Nat
  BY <1>3, <1>4
<1> QED BY <1>3, <1>4, <1>5 DEF fraction_quantity

LEMMA QuantityIsLots ==
  ASSUME StateShape(state)
  PROVE  Remaining(state) \in Nat /\ ChildQuantities \subseteq Nat
<1>1. Remaining(state) \in Nat
  BY StateAssumption DEF Remaining, StateShape
<1>2. \A f \in Fractions : fraction_quantity(Remaining(state), f) \in Nat
  BY <1>1, FractionIsLots
<1> QED BY <1>1, <1>2 DEF ChildQuantities

\* A strategy decides.
LEMMA DecideKeeps ==
  ASSUME IInv, Decide
  PROVE  IInv'
<1>1. UNCHANGED <<exchange, clock, cursor, routed, attempts, takes>>
  BY DEF Decide
<1>2. StateShape(state) /\ ChildQuantities \subseteq Nat /\ StrategyIds \subseteq ClientIds
  BY QuantityIsLots, SystemAssumption DEF IInv, Shapes
<1>3. CASE StrategySubmit
  <2>1. PICK c \in StrategyIds, q \in ChildQuantities, tif \in {"GTC", "IOC"} :
          LET command == [kind |-> "Submit", client |-> c, tif |-> tif, quantity |-> q]
          IN  validate_submit(command) /\ dispatch_validated_action(<<command>>)
    BY <1>3 DEF StrategySubmit
  <2> DEFINE command == [kind |-> "Submit", client |-> c, tif |-> tif, quantity |-> q]
  <2>2. command \in Submits
    BY <1>2 DEF Submits
  <2>3. validate_submit(command) /\ dispatch_validated_action(<<command>>)
    BY <2>1
  <2> HIDE DEF command
  <2>4. ~knows_client_order_id(state, command.client)
    BY <2>3 DEF validate_submit
  <2> QED BY <1>1, <2>2, <2>3, <2>4, SubmitKeeps
<1>4. CASE StrategyCancel
  <2>1. PICK clients \in SUBSET StrategyIds :
          validate_cancel(clients) /\ dispatch_validated_action(CancelCommands(clients))
    BY <1>4 DEF StrategyCancel
  <2>2. clients \in SUBSET acknowledged_active_orders(state)
    BY <2>1 DEF validate_cancel
  <2> QED BY <1>1, <2>1, <2>2, CancelsKeep
<1>5. CASE StrategyReplace
  <2>1. PICK c \in StrategyIds, new \in StrategyIds, q \in ChildQuantities :
          LET command == [kind |-> "Replace", client |-> c, new_client |-> new, quantity |-> q,
                          exchange_order_id |-> state.children[c].exchange_order_id]
          IN  validate_replace(command) /\ dispatch_validated_action(<<command>>)
    BY <1>5 DEF StrategyReplace
  <2> DEFINE command == [kind |-> "Replace", client |-> c, new_client |-> new, quantity |-> q,
                         exchange_order_id |-> state.children[c].exchange_order_id]
  <2>2. validate_replace(command) /\ dispatch_validated_action(<<command>>)
    BY <2>1
  <2>3. command.client \in acknowledged_active_orders(state)
        /\ ~knows_client_order_id(state, command.new_client)
    <3> HIDE DEF command
    <3> QED BY <2>2 DEF validate_replace
  <2>4. state.children[c].exchange_order_id \in Nat
    BY <2>3, ActiveAccepted DEF Child
  <2>5. command \in Replaces
    BY <1>2, <2>4 DEF Replaces
  <2> HIDE DEF command
  <2> QED BY <1>1, <2>2, <2>3, <2>5, ReplaceKeeps
<1> QED BY <1>3, <1>4, <1>5 DEF Decide

\* A task that is no command of the loop comes into the queue.
LEMMA OtherPosted ==
  ASSUME IInv, NEW stage, NEW payload, Puts(Call(kernel), kernel', stage, payload),
         \/ stage = System /\ payload \in Completed
         \/ stage = ExchangeReceive /\ payload = [kind |-> "Take"],
         exchange' = exchange, cursor' = cursor, routed' = routed,
         StateShape(state'), state'.children = state.children
  PROVE  IInv'
<1> DEFINE r == Call(kernel)
<1>1. KernelShape(r) /\ r.queue = kernel.queue /\ Keeps(kernel, r)
  BY CallShape DEF IInv, Shapes
<1> HIDE DEF r
<1>2. Keeps(kernel, kernel')
  BY <1>1 DEF Puts, Keeps, r
<1>3. \A t \in kernel'.queue \ kernel.queue : t.stage = stage /\ t.event.payload = payload
  BY <1>1 DEF Puts, r
<1>4. Opens(payload) = {}
  BY DEF Opens, Completed
<1>5. ASSUME NEW t \in kernel'.queue \ kernel.queue
      PROVE  /\ TaskSound(t) /\ t.stage # ObserverAvailable
             /\ IsCommand(t) => Dispatched(t)
  <2>1. CASE stage = System /\ payload \in Completed
    BY <1>3, <2>1 DEF TaskSound, IsCommand, System, ObserverAvailable, ExchangeReceive, ExchangeProcess
  <2>2. CASE stage = ExchangeReceive /\ payload = [kind |-> "Take"]
    <3>1. Names(payload) = {} /\ payload.kind = "Take"
      BY <2>2 DEF Names, ChildEvents
    <3>2. Dispatched(t)
      BY <1>3, <1>4, <3>1 DEF Dispatched
    <3> QED BY <1>3, <2>2, <3>2 DEF TaskSound, IsCommand, ObserverAvailable, ExchangeReceive
  <2> QED BY <2>1, <2>2
<1>6. \A c \in ClientIds : Follows(c)
  BY DEF Follows
<1> QED BY <1>2, <1>3, <1>4, <1>5, <1>6, PostedKeeps

\* The terminal planner.
LEMMA PlanTerminalKeeps ==
  ASSUME IInv, PlanTerminal
  PROVE  IInv'
<1>1. UNCHANGED <<exchange, clock, cursor, routed, takes>>
  BY DEF PlanTerminal
<1>2. KernelShape(kernel) /\ StateShape(state) /\ Remaining(state) \in Nat
  BY QuantityIsLots DEF IInv, Shapes
<1>3. CASE CancelActiveChildren
  <2>1. dispatch_validated_action(CancelCommands(acknowledged_active_orders(state)))
    BY <1>3 DEF CancelActiveChildren
  <2>2. acknowledged_active_orders(state) \in SUBSET acknowledged_active_orders(state)
    OBVIOUS
  <2> QED BY <1>1, <2>1, <2>2, CancelsKeep
<1>4. CASE SubmitAggressiveResidual
  <2>1. PICK c \in ClientIds \ StrategyIds :
          LET command == [kind |-> "Submit", client |-> c, tif |-> "IOC",
                          quantity |-> Remaining(state)]
          IN  validate_submit(command) /\ dispatch_validated_action(<<command>>)
    BY <1>4 DEF SubmitAggressiveResidual
  <2> DEFINE command == [kind |-> "Submit", client |-> c, tif |-> "IOC",
                         quantity |-> Remaining(state)]
  <2>2. command \in Submits
    BY <1>2 DEF Submits
  <2>3. validate_submit(command) /\ dispatch_validated_action(<<command>>)
    BY <2>1
  <2> HIDE DEF command
  <2>4. ~knows_client_order_id(state, command.client)
    BY <2>3 DEF validate_submit
  <2> QED BY <1>1, <2>2, <2>3, <2>4, SubmitKeeps
<1>5. CASE ExplicitFallback
  <2> DEFINE payload == [kind |-> "TerminalCompletion", quantity |-> Remaining(state)]
  <2>1. kernel' = Generate(Call(kernel), payload, clock, System, NoTiming)
    BY <1>5 DEF ExplicitFallback, schedule_system_event
  <2>2. payload \in Completed
    BY <1>2 DEF Completed
  <2> HIDE DEF payload
  <2>3. KernelShape(Call(kernel))
    BY <1>2, CallShape
  <2>4. Puts(Call(kernel), kernel', System, payload)
    BY <2>1, <2>3, GeneratePuts
  <2>5. StateShape(state') /\ state'.children = state.children
    BY <1>2, <1>5 DEF ExplicitFallback, mark_terminal_completion_pending, StateShape
  <2> QED BY <1>1, <2>2, <2>4, <2>5, OtherPosted
<1> QED BY <1>3, <1>4, <1>5 DEF PlanTerminal

\* Another participant acts.
LEMMA OtherParticipantKeeps ==
  ASSUME IInv, OtherParticipant
  PROVE  IInv'
<1>1. UNCHANGED <<state, exchange, clock, cursor, routed, attempts>>
  BY DEF OtherParticipant
<1>2. PICK timing : kernel' = Generate(Call(kernel), [kind |-> "Take"], timing.receive,
                                       ExchangeReceive, timing)
  BY DEF OtherParticipant, schedule_command
<1>3. KernelShape(Call(kernel)) /\ StateShape(state)
  BY CallShape DEF IInv, Shapes
<1>4. Puts(Call(kernel), kernel', ExchangeReceive, [kind |-> "Take"])
  BY <1>2, <1>3, GeneratePuts
<1> QED BY <1>1, <1>3, <1>4, OtherPosted

\* Nothing that the invariant speaks of changes.
LEMMA StutterKeeps ==
  ASSUME IInv, UNCHANGED <<kernel, state, exchange, cursor, routed>>
  PROVE  IInv'
<1>1. Shapes'
  BY DEF IInv, Shapes
<1>2. Sent' = Sent /\ Told' = Told /\ Failed' = Failed /\ FailuresKept
  BY DEF Sent, Told, Failed, FailuresKept
<1>3. \A c \in ClientIds : Follows(c)
  BY DEF Follows
<1> QED BY <1>1, <1>2, <1>3, QuietKeeps

-----------------------------------------------------------------------------
(***************************************************************************)
(* What the exchange does with a command.                                  *)
(***************************************************************************)

LEMMA LotsOf ==
  /\ Lots(<<>>) = 0
  /\ \A a \in Nat : Lots(<<a>>) = a
  /\ \A a, b \in Nat : Lots(<<a, b>>) = a + b
<1>1. Lots(<<>>) = 0
  <2>1. DOMAIN <<>> = {}
    OBVIOUS
  <2> QED BY <2>1, SumOfNone DEF Lots, SumFunction
<1>2. ASSUME NEW f, f[1] \in Nat PROVE SumFunctionOnSet(f, {1}) = f[1]
  <2>1. SumFunctionOnSet(f, {} \cup {1}) = f[1] + SumFunctionOnSet(f, {})
    BY <1>2, SumWith, FS_EmptySet
  <2>2. {} \cup {1} = {1} /\ SumFunctionOnSet(f, {}) = 0
    BY SumOfNone
  <2> QED BY <1>2, <2>1, <2>2
<1>3. ASSUME NEW a \in Nat PROVE Lots(<<a>>) = a
  <2>1. DOMAIN <<a>> = {1} /\ <<a>>[1] = a
    OBVIOUS
  <2> QED BY <1>2, <2>1 DEF Lots, SumFunction
<1>4. ASSUME NEW a \in Nat, NEW b \in Nat PROVE Lots(<<a, b>>) = a + b
  <2> DEFINE f == <<a, b>>
  <2>1. DOMAIN f = {1} \cup {2} /\ f[1] = a /\ f[2] = b
    OBVIOUS
  <2> HIDE DEF f
  <2>2. IsFiniteSet({1}) /\ 2 \notin {1}
    BY FS_Singleton
  <2>3. \A x \in {1} \cup {2} : f[x] \in Int
    BY <2>1
  <2>4. SumFunctionOnSet(f, {1} \cup {2}) = f[2] + SumFunctionOnSet(f, {1})
    BY <2>2, <2>3, SumWith
  <2>5. SumFunctionOnSet(f, {1}) = f[1]
    BY <1>2, <2>1
  <2>6. Lots(f) = SumFunctionOnSet(f, {1} \cup {2})
    BY <2>1 DEF Lots, SumFunction
  <2> QED BY <2>1, <2>4, <2>5, <2>6 DEF f
<1> QED BY <1>1, <1>3, <1>4

LEMMA ShortSequences ==
  /\ \A a : /\ Len(<<a>>) = 1 /\ DOMAIN <<a>> = 1..1 /\ <<a>>[1] = a
            /\ SubSeq(<<a>>, 1, 1) = <<a>>
  /\ \A a, b : /\ Len(<<a, b>>) = 2 /\ DOMAIN <<a, b>> = 1..2
               /\ <<a, b>>[1] = a /\ <<a, b>>[2] = b
               /\ SubSeq(<<a, b>>, 1, 1) = <<a>> /\ SubSeq(<<a, b>>, 1, 2) = <<a, b>>
<1>1. ASSUME NEW a
      PROVE  /\ Len(<<a>>) = 1 /\ DOMAIN <<a>> = 1..1 /\ <<a>>[1] = a
             /\ SubSeq(<<a>>, 1, 1) = <<a>>
  <2>1. <<a>> \in Seq({a}) /\ Len(<<a>>) = 1 /\ DOMAIN <<a>> = 1..1 /\ <<a>>[1] = a
    OBVIOUS
  <2>2. SubSeq(<<a>>, 1, Len(<<a>>)) = <<a>>
    BY <2>1, SubSeqFull, Zenon
  <2> QED BY <2>1, <2>2, Zenon
<1>2. ASSUME NEW a, NEW b
      PROVE  /\ Len(<<a, b>>) = 2 /\ DOMAIN <<a, b>> = 1..2
             /\ <<a, b>>[1] = a /\ <<a, b>>[2] = b
             /\ SubSeq(<<a, b>>, 1, 1) = <<a>> /\ SubSeq(<<a, b>>, 1, 2) = <<a, b>>
  <2>1. /\ <<a, b>> \in Seq({a, b}) /\ Len(<<a, b>>) = 2 /\ DOMAIN <<a, b>> = 1..2
        /\ <<a, b>>[1] = a /\ <<a, b>>[2] = b
    OBVIOUS
  <2>2. SubSeq(<<a, b>>, 1, Len(<<a, b>>)) = <<a, b>>
    BY <2>1, SubSeqFull, Zenon
  <2> DEFINE s == <<a, b>>
             one == SubSeq(s, 1, 1)
             two == <<a>>
  <2>3. two \in Seq({a, b}) /\ Len(two) = 1 /\ two[1] = a
    OBVIOUS
  <2>4. one \in Seq({a, b}) /\ Len(one) = 1 /\ one[1] = a
    <3> HIDE DEF s
    <3>1. \A i \in 1..1 : s[i] \in {a, b}
      BY <2>1 DEF s
    <3>2. /\ one \in Seq({a, b}) /\ Len(one) = IF 1 <= 1 THEN 1 - 1 + 1 ELSE 0
          /\ \A i \in 1..(1 - 1 + 1) : one[i] = s[1 + i - 1]
      <4> HIDE DEF one
      <4> QED BY <3>1, SubSeqProperties DEF one
    <3> HIDE DEF one
    <3>3. one[1] = s[1 + 1 - 1]
      BY <3>2
    <3>4. s[1] = a
      BY <2>1 DEF s
    <3> QED BY <3>2, <3>3, <3>4
  <2> HIDE DEF one, two
  <2>5. one = two
    BY <2>3, <2>4, SeqEqual
  <2> QED BY <2>1, <2>2, <2>5, Zenon DEF one, two
<1> QED BY <1>1, <1>2, Zenon

\* The matches of a taker trade at most its quantity.
LEMMA MatchFacts ==
  ASSUME NEW quantity \in Nat, NEW sizes \in MatchSizes(quantity)
  PROVE  /\ Len(sizes) \in Nat /\ DOMAIN sizes = 1..Len(sizes)
         /\ Lots(sizes) \in 0..quantity
         /\ \A i \in 1..Len(sizes) :
              sizes[i] \in Nat /\ Lots(SubSeq(sizes, 1, i)) \in 0..Lots(sizes)
<1>1. CASE sizes = <<>>
  BY <1>1, LotsOf
<1>2. CASE \E a \in 1..quantity : sizes = <<a>>
  <2>1. PICK a \in 1..quantity : sizes = <<a>>
    BY <1>2
  <2>2. a \in Nat /\ a <= quantity
    OBVIOUS
  <2>3. Len(sizes) = 1 /\ DOMAIN sizes = 1..1 /\ sizes[1] = a /\ SubSeq(sizes, 1, 1) = <<a>>
    BY <2>1, ShortSequences
  <2>4. Lots(sizes) = a /\ Lots(SubSeq(sizes, 1, 1)) = a
    BY <2>1, <2>2, <2>3, LotsOf, Zenon
  <2> QED BY <2>2, <2>3, <2>4
<1>3. CASE \E a, b \in 1..quantity : a + b <= quantity /\ sizes = <<a, b>>
  <2>1. PICK a \in 1..quantity, b \in 1..quantity : a + b <= quantity /\ sizes = <<a, b>>
    BY <1>3
  <2>2. /\ Len(sizes) = 2 /\ DOMAIN sizes = 1..2 /\ sizes[1] = a /\ sizes[2] = b
        /\ SubSeq(sizes, 1, 1) = <<a>> /\ SubSeq(sizes, 1, 2) = <<a, b>>
    BY <2>1, ShortSequences
  <2>3. a \in Nat /\ b \in Nat
    OBVIOUS
  <2>4. /\ Lots(sizes) = a + b /\ Lots(SubSeq(sizes, 1, 1)) = a
        /\ Lots(SubSeq(sizes, 1, 2)) = a + b
    BY <2>1, <2>2, <2>3, LotsOf, Zenon
  <2>5. \A i \in 1..Len(sizes) : i = 1 \/ i = 2
    BY <2>2
  <2>6. a + b \in 0..quantity /\ a \in 0..(a + b) /\ a + b \in 0..(a + b)
    BY <2>1, <2>3
  <2> QED BY <2>2, <2>3, <2>4, <2>5, <2>6
<1> QED BY <1>1, <1>2, <1>3 DEF MatchSizes

\* An order after its matches; one that is used up is filled.
LEMMA MatchedFacts ==
  ASSUME NEW o \in Order, NEW lots, NEW sizes, lots = Lots(sizes), lots \in 0..o.leaves,
         NEW rests \in BOOLEAN, NEW m, m = Matched(o, sizes, rests)
  PROVE  /\ m \in Order
         /\ ~rests \/ lots = o.leaves => m.state \notin {"Live", "PartiallyFilled"}
<1>1. m = [o EXCEPT !.cum = o.cum + lots,
                    !.leaves = IF rests THEN o.leaves - lots ELSE 0,
                    !.state = IF o.leaves - lots = 0 THEN "Filled"
                              ELSE IF ~rests THEN "Cancelled"
                              ELSE IF o.cum + lots = 0 THEN "Live"
                              ELSE "PartiallyFilled"]
  BY DEF Matched
<1>2. /\ o.id \in Nat /\ o.quantity \in Nat /\ o.cum \in Nat /\ o.leaves \in Nat
      /\ o = [id |-> o.id, quantity |-> o.quantity, cum |-> o.cum, leaves |-> o.leaves,
              state |-> o.state]
  BY DEF Order
<1>3. lots \in Nat /\ o.leaves - lots \in Nat /\ o.cum + lots \in Nat
  BY <1>2
<1>4. m = [id |-> o.id, quantity |-> o.quantity, cum |-> o.cum + lots,
           leaves |-> IF rests THEN o.leaves - lots ELSE 0,
           state |-> IF o.leaves - lots = 0 THEN "Filled"
                     ELSE IF ~rests THEN "Cancelled"
                     ELSE IF o.cum + lots = 0 THEN "Live"
                     ELSE "PartiallyFilled"]
  BY <1>1, <1>2
<1>5. m \in Order
  BY <1>2, <1>3, <1>4 DEF Order, Terminals
<1>6. ~rests \/ lots = o.leaves => m.state \notin {"Live", "PartiallyFilled"}
  BY <1>2, <1>4
<1> QED BY <1>5, <1>6

LEMMA FillNumbers ==
  ASSUME NEW x \in Nat, NEW i \in Nat \ {0}, NEW cum \in Nat, NEW leaves \in Nat,
         NEW lots \in 0..leaves, NEW part \in 0..lots
  PROVE  /\ x + i - 1 \in Nat /\ cum + part \in Nat /\ leaves - part \in Nat
         /\ leaves - part = 0 => lots = leaves
OBVIOUS

\* The fills of an order are about its client, and one that uses it up says so.
LEMMA FillsFacts ==
  ASSUME exchange.next_execution_id \in Nat, NEW c \in ClientIds, NEW o \in Order,
         NEW sizes, Len(sizes) \in Nat, DOMAIN sizes = 1..Len(sizes),
         Lots(sizes) \in 0..o.leaves,
         \A i \in 1..Len(sizes) :
           sizes[i] \in Nat /\ Lots(SubSeq(sizes, 1, i)) \in 0..Lots(sizes)
  PROVE  Fills(c, o, sizes) \in
           Seq({p \in FillEvents : p.client = c /\ (p.leaves = 0 => Lots(sizes) = o.leaves)})
<1> DEFINE S == {p \in FillEvents : p.client = c /\ (p.leaves = 0 => Lots(sizes) = o.leaves)}
           fills == Fills(c, o, sizes)
<1>1. ASSUME NEW i \in 1..Len(sizes)
      PROVE  [kind |-> "Fill", client |-> c, exchange_order_id |-> o.id,
              execution |-> exchange.next_execution_id + i - 1, quantity |-> sizes[i],
              cum |-> o.cum + Lots(SubSeq(sizes, 1, i)),
              leaves |-> o.leaves - Lots(SubSeq(sizes, 1, i))] \in S
  <2>1. sizes[i] \in Nat /\ Lots(SubSeq(sizes, 1, i)) \in 0..Lots(sizes) /\ i \in Nat \ {0}
    OBVIOUS
  <2>2. o.leaves \in Nat /\ o.cum \in Nat /\ o.id \in Nat
    BY DEF Order
  <2> DEFINE part == Lots(SubSeq(sizes, 1, i))
             x == exchange.next_execution_id
  <2>3. /\ x + i - 1 \in Nat /\ o.cum + part \in Nat /\ o.leaves - part \in Nat
        /\ o.leaves - part = 0 => Lots(sizes) = o.leaves
    BY <2>1, <2>2, FillNumbers
  <2> HIDE DEF part, x
  <2> QED BY <2>1, <2>2, <2>3 DEF FillEvents, part, x
<1>2. fills = [i \in 1..Len(sizes) |->
          [kind |-> "Fill", client |-> c, exchange_order_id |-> o.id,
           execution |-> exchange.next_execution_id + i - 1, quantity |-> sizes[i],
           cum |-> o.cum + Lots(SubSeq(sizes, 1, i)),
           leaves |-> o.leaves - Lots(SubSeq(sizes, 1, i))]]
  BY DEF Fills
<1> HIDE DEF S, fills
<1>3. fills \in [1..Len(sizes) -> S]
  BY <1>1, <1>2
<1>4. fills \in Seq(S)
  BY <1>3
<1> QED BY <1>4 DEF S, fills

\* What processing a task does to the kernel: some replies come into the queue,
\* and a failure may have been recorded.
Processed(k, q, task, R, failures) ==
  /\ KernelShape(q) /\ q.delivered_events = k.delivered_events
  /\ \A u \in q.queue : \/ u \in k.queue \ {task}
                        \/ u.stage = ObserverAvailable /\ u.event.payload \in R
  /\ \/ q.failures = k.failures
     \/ \E failure : /\ q.failures = Append(k.failures, failure)
                     /\ failures = <<failure.current_state>>
                     /\ failure.command = task.event.payload

LEMMA ProcessAdds ==
  ASSUME NEW k, KernelShape(k), Listed(k.failures), NEW task, NEW R, NEW replies,
         Len(replies) \in Nat, \A i \in 1..Len(replies) : replies[i] \in R,
         NEW failures, failures = <<>> \/ \E s : failures = <<s>>,
         NEW q, q = process_exchange(k, task, replies, failures)
  PROVE  Processed(k, q, task, R, failures)
<1> DEFINE r == pop_next(k, task)
           e == Emissions(r, replies, task.timing.available)[Len(replies)]
           new == [i \in DOMAIN failures |->
                     [command |-> task.event.payload, available |-> task.timing.available,
                      current_state |-> failures[i]]]
<1>1. /\ KernelShape(r) /\ r.queue = k.queue \ {task}
      /\ r.delivered_events = k.delivered_events /\ r.failures = k.failures
  BY PopShape
<1>2. q = IF e.thrown THEN e ELSE [e EXCEPT !.failures = e.failures \o new]
  BY DEF process_exchange
<1> HIDE DEF r
<1>4. Posts(r, e, ObserverAvailable, {replies[i] : i \in 1..Len(replies)})
  BY <1>1, EmissionsAdd
<1> HIDE DEF e
<1>5. /\ KernelShape(e) /\ e.delivered_events = k.delivered_events /\ e.failures = k.failures
      /\ \A u \in e.queue : \/ u \in k.queue \ {task}
                            \/ u.stage = ObserverAvailable /\ u.event.payload \in R
  BY <1>1, <1>4 DEF Posts, Keeps
<1>6. CASE e.thrown
  BY <1>2, <1>5, <1>6 DEF Processed
<1>7. CASE ~e.thrown
  <2> DEFINE list == e.failures \o new
  <2>1. q = [e EXCEPT !.failures = list]
    BY <1>2, <1>7
  <2>2. \/ list = k.failures
        \/ \E failure : /\ list = Append(k.failures, failure)
                        /\ failures = <<failure.current_state>>
                        /\ failure.command = task.event.payload
    <3>0. PICK S : k.failures \in Seq(S)
      BY DEF Listed
    <3>1. CASE failures = <<>>
      <4>1. new = <<>>
        BY <3>1
      <4> HIDE DEF new
      <4> QED BY <1>5, <3>0, <4>1
    <3>2. CASE \E s : failures = <<s>>
      <4>1. PICK s : failures = <<s>>
        BY <3>2
      <4> DEFINE failure == [command |-> task.event.payload, available |-> task.timing.available,
                             current_state |-> s]
      <4>2. new = <<failure>>
        BY <4>1
      <4>3. failure.current_state = s /\ failure.command = task.event.payload
        OBVIOUS
      <4> HIDE DEF new, failure
      <4>4. k.failures \in Seq(S \cup {failure}) /\ <<failure>> \in Seq(S \cup {failure})
        BY <3>0
      <4>5. k.failures \o <<failure>> = Append(k.failures, failure)
        BY <4>4
      <4> QED BY <1>5, <4>1, <4>2, <4>3, <4>5
    <3> QED BY <3>1, <3>2
  <2> HIDE DEF list
  <2>3. /\ KernelShape(q) /\ q.delivered_events = e.delivered_events /\ q.queue = e.queue
        /\ q.failures = list
    BY <1>5, <2>1 DEF KernelShape
  <2> QED BY <1>5, <2>2, <2>3 DEF Processed
<1> QED BY <1>6, <1>7

\* The replies that are true of the exchange after the step, and about a client
\* of the command or about an accepted order.
TrueReplies(p) ==
  {r \in Replies : Truthful(r) /\ \A c \in Names(r) : c \in Names(p) \/ Has(c)}

\* A failure that is true of the exchange after the step.
Refuses(p, s, replies) ==
  /\ p \in Commands /\ s \in {NoState} \cup Terminals
  /\ IF p.kind = "Submit" THEN ~Has(p.client)'
     ELSE Has(p.client)' /\ (s # NoState => p.client \notin Live')
  /\ \A c \in Opens(p) : ~Has(c)'
  /\ p.kind = "Replace" => replies = <<>>

LEMMA ProcessKeeps ==
  ASSUME IInv, NEW task \in kernel.queue, task.stage = ExchangeProcess,
         NEW p, p = task.event.payload, NEW replies \in Seq(TrueReplies(p)), NEW failures,
         kernel' = process_exchange(kernel, task, replies, failures),
         UNCHANGED <<state, cursor, routed>>, ExchangeShape(exchange'),
         \A c : Has(c) => Has(c)',
         \A c : Has(c)' => Has(c) \/ c \in Opens(p),
         \A c \in Live' : c \in Live \/ c \in Opens(p),
         failures = <<>> \/ \E s : failures = <<s>> /\ Refuses(p, s, replies)
  PROVE  IInv'
<1> DEFINE all == {replies[i] : i \in 1..Len(replies)}
           d == kernel.failures
           e == kernel'.failures
           n == Len(d) + 1
<1>1. Shapes /\ KernelShape(kernel) /\ StateShape(state) /\ Listed(d)
  BY DEF IInv, Shapes
<1>2. Len(replies) \in Nat /\ \A i \in 1..Len(replies) : replies[i] \in all
  OBVIOUS
<1>3. all \subseteq TrueReplies(p)
  BY ElementOfSeq
<1>4. replies = <<>> => all = {}
  OBVIOUS
<1> HIDE DEF all
<1>5. failures = <<>> \/ \E s : failures = <<s>>
  OBVIOUS
<1>6. /\ KernelShape(kernel') /\ kernel'.delivered_events = kernel.delivered_events
      /\ \A u \in kernel'.queue : \/ u \in kernel.queue \ {task}
                                  \/ u.stage = ObserverAvailable /\ u.event.payload \in all
      /\ \/ e = d
         \/ \E failure : /\ e = Append(d, failure) /\ failures = <<failure.current_state>>
                         /\ failure.command = task.event.payload
  <2> DEFINE q == kernel'
  <2>1. q = process_exchange(kernel, task, replies, failures)
    OBVIOUS
  <2> HIDE DEF q
  <2>2. Processed(kernel, q, task, all, failures)
    BY <1>1, <1>2, <1>5, <2>1, ProcessAdds
  <2> QED BY <2>2 DEF q, Processed
<1>7. Len(d) \in Nat /\ \A i \in 1..Len(d) : FailureSound(d[i])
  BY <1>1, ListedAppend DEF Shapes
<1>8. PICK failure :
        \/ e = d
        \/ /\ e = Append(d, failure) /\ failure.command = p
           /\ Refuses(p, failure.current_state, replies)
  <2>1. CASE e = d
    BY <2>1
  <2>2. CASE \E failure : /\ e = Append(d, failure) /\ failures = <<failure.current_state>>
                          /\ failure.command = p
    <3>1. PICK failure : /\ e = Append(d, failure) /\ failures = <<failure.current_state>>
                         /\ failure.command = p
      BY <2>2
    <3>2. PICK s : failures = <<s>> /\ Refuses(p, s, replies)
      BY <3>1
    <3>3. s = failure.current_state
      BY <3>1, <3>2
    <3> QED BY <3>1, <3>2, <3>3
  <2> QED BY <1>6, <2>1, <2>2
<1>9. /\ Len(e) \in Nat /\ Listed(e) /\ \A i \in 1..Len(e) : FailureSound(e[i])
      /\ \A i \in 1..Len(d) : e[i] = d[i]
      /\ \/ Len(e) = Len(d)
         \/ Len(e) = n /\ e[n] = failure /\ failure.command = p
            /\ Refuses(p, failure.current_state, replies)
  <2>1. CASE e = d
    BY <1>1, <1>7, <2>1
  <2>2. CASE e = Append(d, failure) /\ failure.command = p
             /\ Refuses(p, failure.current_state, replies)
    <3>1. /\ Listed(e) /\ Len(e) = n /\ e[n] = failure /\ \A i \in 1..Len(d) : e[i] = d[i]
      BY <1>1, <2>2, ListedAppend
    <3>2. FailureSound(failure)
      BY <2>2 DEF FailureSound, Refuses
    <3>3. \A i \in 1..Len(e) : i \in 1..Len(d) \/ i = n
      <4> HIDE DEF d, e
      <4> QED BY <1>7, <3>1
    <3>4. \A i \in 1..Len(e) : FailureSound(e[i])
      <4> HIDE DEF d, e
      <4> QED BY <1>7, <3>1, <3>2, <3>3
    <3>5. Len(e) \in Nat
      <4> HIDE DEF d, e
      <4> QED BY <1>7, <3>1
    <3> QED BY <2>2, <3>1, <3>4, <3>5
  <2> QED BY <1>8, <2>1, <2>2
<1>10. routed \in 0..Len(d) /\ cursor \in 0..Len(kernel.delivered_events)
  BY <1>1 DEF Shapes
<1>11. \A u \in kernel'.queue : TaskSound(u)
  <2>1. \A u \in kernel.queue : TaskSound(u)
    BY <1>1 DEF Shapes
  <2>2. all \subseteq Replies
    BY <1>3 DEF TrueReplies
  <2> QED BY <1>6, <2>1, <2>2 DEF TaskSound
<1>12. Shapes'
  <2>1. routed \in 0..Len(e)
    <3> HIDE DEF d, e
    <3> QED BY <1>7, <1>9, <1>10
  <2>2. StateShape(state')
    BY <1>1
  <2> QED BY <1>1, <1>6, <1>9, <1>11, <2>1, <2>2 DEF Shapes
<1>13. /\ \A i \in Failed : i \in 1..Len(d)
       /\ Failed' \subseteq Failed \cup {n}
       /\ n \in Failed' => Len(e) = n
  <2> SUFFICES /\ \A i \in (routed + 1)..Len(d) : i \in 1..Len(d)
               /\ (routed + 1)..Len(e) \subseteq ((routed + 1)..Len(d)) \cup {n}
               /\ n \in (routed + 1)..Len(e) => Len(e) = n
    BY DEF Failed
  <2> HIDE DEF d, e
  <2> QED BY <1>7, <1>9, <1>10
<1>14. FailuresKept
  BY <1>9, <1>13 DEF FailuresKept
<1>15. Sent' \subseteq Sent \ {task} /\ task \in Sent
  BY <1>6 DEF Sent, IsCommand, ObserverAvailable, ExchangeReceive, ExchangeProcess
<1>16. Told' \subseteq Told \cup all
  BY <1>6 DEF Told
<1>17. \A r \in all : Truthful(r) /\ \A c \in Names(r) : c \in Names(p) \/ Has(c)
  BY <1>3 DEF TrueReplies
<1>18. n \in Failed' =>
           /\ e[n].command = p
           /\ IF p.kind = "Submit" THEN ~Has(p.client)'
              ELSE Has(p.client)' /\ (e[n].current_state # NoState => p.client \notin Live')
           /\ \A c \in Opens(p) : ~Has(c)'
           /\ p.kind = "Replace" => all = {}
  <2> SUFFICES ASSUME n \in Failed'
               PROVE  e[n] = failure /\ failure.command = p /\ Refuses(p, failure.current_state, replies)
    BY <1>4 DEF Refuses
  <2>1. Len(e) = n /\ n # Len(d)
    <3> HIDE DEF d, e
    <3> QED BY <1>7, <1>13
  <2> QED BY <1>9, <2>1
<1> HIDE DEF n
<1> QED BY <1>12, <1>13, <1>14, <1>15, <1>16, <1>17, <1>18, ProcessedKeeps

\* One order of the exchange has changed.
LEMMA OrderChanged ==
  ASSUME ExchangeShape(exchange), NEW c0 \in ClientIds, NEW m \in Order,
         exchange'.orders = [exchange.orders EXCEPT ![c0] = m]
  PROVE  /\ Has(c0)' /\ (c0 \in Live' <=> m.state \in {"Live", "PartiallyFilled"})
         /\ \A c : c # c0 => (Has(c)' <=> Has(c)) /\ (c \in Live' <=> c \in Live)
<1>1. \A c \in ClientIds : exchange'.orders[c] = IF c = c0 THEN m ELSE exchange.orders[c]
  BY DEF ExchangeShape
<1>2. m # NoOrder
  BY SystemAssumption
<1> QED BY <1>1, <1>2 DEF Has, Live

LEMMA WithOrderFacts ==
  ASSUME ExchangeShape(exchange), NEW c \in ClientIds, NEW m \in Order,
         NEW sizes, Len(sizes) \in Nat, NEW x, x = WithOrder(c, m, sizes)
  PROVE  ExchangeShape(x) /\ x.orders = [exchange.orders EXCEPT ![c] = m]
<1> DEFINE orders == [exchange.orders EXCEPT ![c] = m]
           a == exchange.next_exchange_order_id + 1
           b == exchange.next_execution_id + Len(sizes)
<1>1. x = [exchange EXCEPT !.orders = orders, !.next_exchange_order_id = a, !.next_execution_id = b]
  BY DEF WithOrder, ExchangeShape
<1>2. orders \in [ClientIds -> Order \cup {NoOrder}]
  BY DEF ExchangeShape
<1>3. a \in Nat \ {0} /\ b \in Nat
  BY DEF ExchangeShape
<1> HIDE DEF orders, a, b
<1>4. ExchangeShape(x) /\ x.orders = orders
  BY <1>1, <1>2, <1>3 DEF ExchangeShape
<1> QED BY <1>4 DEF orders

LEMMA NewOrderFacts ==
  ASSUME ExchangeShape(exchange), NEW quantity \in Nat, NEW o, o = NewExchangeOrder(quantity)
  PROVE  o \in Order /\ o.quantity = quantity /\ o.leaves = quantity
<1>1. exchange.next_exchange_order_id \in Nat
  BY DEF ExchangeShape
<1> QED BY <1>1 DEF NewExchangeOrder, Order

\* A command that opens an order finds no order of that client.
LEMMA OpensNew ==
  ASSUME IInv, NEW task \in Sent, NEW c \in Opens(task.event.payload)
  PROVE  ~Has(c) /\ c \notin Live
<1>1. ~Has(c)
  BY DEF IInv, OpeningAlone, Fresh
<1> QED BY <1>1 DEF Has, Live

\* A submit is refused, or opens its order and trades.
LEMMA SubmitProcessed ==
  ASSUME IInv, NEW task \in kernel.queue, task.stage = ExchangeProcess,
         NEW p \in Submits, p = task.event.payload, NEW outcome \in SubmitOutcomes(p),
         kernel' = process_exchange(kernel, task, outcome.replies, outcome.failures),
         exchange' = outcome.exchange, UNCHANGED <<state, cursor, routed>>
  PROVE  IInv'
<1> DEFINE c0 == p.client
           o == NewExchangeOrder(p.quantity)
           rests == p.tif = "GTC"
<1>1. /\ p.kind = "Submit" /\ c0 \in ClientIds /\ p.quantity \in Nat
      /\ Names(p) = {c0} /\ Opens(p) = {c0}
  BY DEF Submits, Names, Opens
<1>2. ExchangeShape(exchange) /\ task \in Sent
  BY DEF IInv, Shapes, Sent, IsCommand
<1>3. ~Has(c0) /\ c0 \notin Live
  BY <1>1, <1>2, OpensNew
<1>4. CASE outcome = Refused(<<[kind |-> "OrderRejected", client |-> c0]>>, NoState)
  <2> DEFINE r == [kind |-> "OrderRejected", client |-> c0]
  <2>1. outcome.exchange = exchange /\ outcome.replies = <<r>> /\ outcome.failures = <<NoState>>
    BY <1>4 DEF Refused
  <2>2. (\A c : Has(c)' <=> Has(c)) /\ Live' = Live
    BY <2>1 DEF Has, Live
  <2>3. r \in TrueReplies(p)
    <3>1. r \in Replies /\ Names(r) = {c0}
      BY <1>1 DEF Replies, Rejections, Names, ChildEvents
    <3>2. Truthful(r)
      BY <1>3, <2>2 DEF Truthful, Ends
    <3> QED BY <1>1, <3>1, <3>2 DEF TrueReplies
  <2> HIDE DEF r
  <2>4. outcome.replies \in Seq(TrueReplies(p))
    BY <2>1, <2>3
  <2>5. Refuses(p, NoState, outcome.replies)
    BY <1>1, <1>3, <2>2 DEF Refuses, Commands
  <2>6. \E s : outcome.failures = <<s>> /\ Refuses(p, s, outcome.replies)
    BY <2>1, <2>5
  <2> QED BY <1>2, <2>1, <2>2, <2>4, <2>6, ProcessKeeps
<1>5. ASSUME NEW sizes \in MatchSizes(p.quantity),
             outcome = [exchange |-> WithOrder(c0, Matched(o, sizes, rests), sizes),
                        replies |-> SubmitReplies(c0, o, sizes, rests), failures |-> <<>>]
      PROVE  IInv'
  <2> DEFINE m == Matched(o, sizes, rests)
             R == TrueReplies(p)
  <2>1. o \in Order /\ o.quantity = p.quantity /\ o.leaves = p.quantity
    BY <1>1, <1>2, NewOrderFacts
  <2> HIDE DEF o
  <2>2. /\ Len(sizes) \in Nat /\ DOMAIN sizes = 1..Len(sizes) /\ Lots(sizes) \in 0..o.leaves
        /\ \A i \in 1..Len(sizes) :
             sizes[i] \in Nat /\ Lots(SubSeq(sizes, 1, i)) \in 0..Lots(sizes)
    BY <1>1, <2>1, MatchFacts
  <2>3. /\ m \in Order
        /\ ~rests \/ Lots(sizes) = o.leaves => m.state \notin {"Live", "PartiallyFilled"}
    BY <2>1, <2>2, MatchedFacts
  <2>4. ExchangeShape(exchange') /\ exchange'.orders = [exchange.orders EXCEPT ![c0] = m]
    <3> HIDE DEF m
    <3>1. exchange' = WithOrder(c0, m, sizes)
      BY <1>5 DEF m
    <3> QED BY <1>1, <1>2, <2>2, <2>3, <3>1, WithOrderFacts
  <2>5. /\ Has(c0)' /\ (c0 \in Live' <=> m.state \in {"Live", "PartiallyFilled"})
        /\ \A c : c # c0 => (Has(c)' <=> Has(c)) /\ (c \in Live' <=> c \in Live)
    <3> HIDE DEF m
    <3> QED BY <1>1, <1>2, <2>3, <2>4, OrderChanged
  <2> HIDE DEF m
  <2>6. ASSUME NEW r \in Replies, r.kind # "OrderRejected", Names(r) = {c0},
               ~Ends(r, c0) \/ ~rests \/ Lots(sizes) = o.leaves
        PROVE  r \in R
    <3>1. \A c \in ClientIds : Ends(r, c) => c \in Names(r)
      BY DEF Ends, Names, ChildEvents
    <3>2. Truthful(r)
      BY <2>3, <2>5, <2>6, <3>1 DEF Truthful
    <3> QED BY <1>1, <2>6, <3>2 DEF TrueReplies
  <2> HIDE DEF R
  <2>7. [kind |-> "OrderAcknowledged", client |-> c0, exchange_order_id |-> o.id,
         quantity |-> o.quantity] \in R
    <3> DEFINE r == [kind |-> "OrderAcknowledged", client |-> c0, exchange_order_id |-> o.id,
                     quantity |-> o.quantity]
    <3>1. r \in Acks
      BY <1>1, <2>1 DEF Acks, Order
    <3>2. Names(r) = {c0} /\ ~Ends(r, c0) /\ r.kind # "OrderRejected"
      BY DEF Names, Ends, ChildEvents
    <3> HIDE DEF r
    <3> QED BY <2>6, <3>1, <3>2 DEF Replies, r
  <2>8. Fills(c0, o, sizes) \in Seq(R)
    <3> DEFINE S == {e \in FillEvents : e.client = c0 /\ (e.leaves = 0 => Lots(sizes) = o.leaves)}
    <3>1. Fills(c0, o, sizes) \in Seq(S)
      BY <1>1, <1>2, <2>1, <2>2, FillsFacts DEF ExchangeShape
    <3>2. ASSUME NEW r \in S PROVE r \in R
      <4>1. r.kind = "Fill" /\ r \in Replies /\ r.client = c0
        BY DEF FillEvents, Replies
      <4>2. Names(r) = {c0} /\ r.kind # "OrderRejected"
        BY <4>1 DEF Names, ChildEvents
      <4>3. Ends(r, c0) => Lots(sizes) = o.leaves
        BY <4>1 DEF Ends
      <4> QED BY <2>6, <4>1, <4>2, <4>3
    <3> HIDE DEF S
    <3> QED BY <3>1, <3>2
  <2>9. ~rests => [kind |-> "CancelAcknowledged", client |-> c0, exchange_order_id |-> o.id,
                   cum |-> Lots(sizes)] \in R
    <3> SUFFICES ASSUME ~rests
                 PROVE  [kind |-> "CancelAcknowledged", client |-> c0, exchange_order_id |-> o.id,
                         cum |-> Lots(sizes)] \in R
      OBVIOUS
    <3> DEFINE r == [kind |-> "CancelAcknowledged", client |-> c0, exchange_order_id |-> o.id,
                     cum |-> Lots(sizes)]
    <3>1. r \in CancelAcks
      BY <1>1, <2>1, <2>2 DEF CancelAcks, Order
    <3>2. Names(r) = {c0} /\ r.kind # "OrderRejected"
      BY DEF Names, ChildEvents
    <3> HIDE DEF r
    <3> QED BY <2>6, <3>1, <3>2 DEF Replies, r
  <2>10. outcome.replies \in Seq(R)
    <3> DEFINE ack == [kind |-> "OrderAcknowledged", client |-> c0, exchange_order_id |-> o.id,
                       quantity |-> o.quantity]
               cancelled == [kind |-> "CancelAcknowledged", client |-> c0,
                             exchange_order_id |-> o.id, cum |-> Lots(sizes)]
               fills == Fills(c0, o, sizes)
               last == IF rests \/ Lots(sizes) = o.quantity THEN <<>> ELSE <<cancelled>>
    <3>1. outcome.replies = <<ack>> \o fills \o last
      <4>1. outcome.replies = SubmitReplies(c0, o, sizes, rests)
        BY <1>5
      <4> QED BY <4>1, Zenon DEF SubmitReplies
    <3>2. <<ack>> \in Seq(R)
      <4> HIDE DEF ack
      <4> QED BY <2>7 DEF ack
    <3>3. last \in Seq(R)
      <4>1. CASE rests \/ Lots(sizes) = o.quantity
        BY <4>1
      <4>2. CASE ~(rests \/ Lots(sizes) = o.quantity)
        <5>1. last = <<cancelled>> /\ cancelled \in R
          BY <2>9, <4>2
        <5> HIDE DEF last, cancelled
        <5> QED BY <5>1
      <4> QED BY <4>1, <4>2
    <3> HIDE DEF ack, fills, last
    <3> QED BY <2>8, <3>1, <3>2, <3>3 DEF fills
  <2>11. outcome.failures = <<>>
    BY <1>5
  <2> QED BY <1>1, <1>2, <1>3, <2>4, <2>5, <2>10, <2>11, ProcessKeeps DEF R
<1> QED BY <1>4, <1>5 DEF SubmitOutcomes

LEMMA EndedFacts ==
  ASSUME ExchangeShape(exchange), NEW c \in ClientIds, Has(c), NEW ending \in Terminals,
         NEW x, x = Ended(c, ending), NEW m, m = x.orders[c]
  PROVE  /\ ExchangeShape(x) /\ x.orders = [exchange.orders EXCEPT ![c] = m]
         /\ m \in Order /\ m.state = ending
<1> DEFINE o == exchange.orders[c]
           n == [o EXCEPT !.leaves = 0, !.state = ending]
           orders == [exchange.orders EXCEPT ![c] = n]
<1>1. o \in Order
  BY DEF Has, ExchangeShape
<1>2. n \in Order /\ n.state = ending
  <2> HIDE DEF o
  <2> QED BY <1>1 DEF Order, Terminals
<1>3. x = [exchange EXCEPT !.orders = orders]
  BY DEF Ended, ExchangeShape
<1> HIDE DEF n
<1>4. orders \in [ClientIds -> Order \cup {NoOrder}] /\ orders[c] = n
  BY <1>2 DEF ExchangeShape
<1> HIDE DEF orders
<1>5. ExchangeShape(x) /\ x.orders = orders
  BY <1>3, <1>4 DEF ExchangeShape
<1> QED BY <1>2, <1>4, <1>5 DEF orders

\* The order a replacement ends.
LEMMA EndedOrder ==
  ASSUME ExchangeShape(exchange), NEW c \in ClientIds, Has(c)
  PROVE  /\ Ended(c, "Replaced").orders[c] \in Order
         /\ Ended(c, "Replaced").orders[c].state = "Replaced"
<1> DEFINE o == exchange.orders[c]
           n == [o EXCEPT !.leaves = 0, !.state = "Replaced"]
           orders == [exchange.orders EXCEPT ![c] = n]
<1>1. o \in Order
  BY DEF Has, ExchangeShape
<1>2. n \in Order /\ n.state = "Replaced"
  <2> HIDE DEF o
  <2> QED BY <1>1 DEF Order, Terminals
<1>3. Ended(c, "Replaced") = [exchange EXCEPT !.orders = orders]
  BY DEF Ended, ExchangeShape
<1> HIDE DEF n
<1>4. orders[c] = n
  BY DEF ExchangeShape
<1> HIDE DEF orders
<1>5. Ended(c, "Replaced").orders = orders
  BY <1>3 DEF ExchangeShape
<1>6. Ended(c, "Replaced").orders[c] = n
  BY <1>4, <1>5, Zenon
<1> QED BY <1>2, <1>6, Zenon

\* The order of a command that finds it over ended in a terminal state.
LEMMA OverFacts ==
  ASSUME ExchangeShape(exchange), NEW c, Has(c), c \notin Live
  PROVE  exchange.orders[c].state \in Terminals
<1>1. exchange.orders[c] \in Order
  BY DEF Has, ExchangeShape
<1> QED BY <1>1 DEF Has, Live, Order

\* Nothing happens at the exchange.
LEMMA RefusalProcessed ==
  ASSUME IInv, NEW task \in kernel.queue, task.stage = ExchangeProcess,
         NEW p \in Cancels \cup Replaces, p = task.event.payload,
         NEW s \in {NoState} \cup Terminals, s # NoState => p.client \notin Live,
         NEW outcome, outcome = Refused(<<>>, s),
         kernel' = process_exchange(kernel, task, outcome.replies, outcome.failures),
         exchange' = outcome.exchange, UNCHANGED <<state, cursor, routed>>
  PROVE  IInv'
<1>1. task \in Sent /\ ExchangeShape(exchange)
  BY DEF IInv, Shapes, Sent, IsCommand
<1>2. p \in Commands /\ p.kind \in {"Cancel", "Replace"}
  BY DEF Commands, Cancels, Replaces
<1>3. Has(p.client)
  BY <1>1, <1>2 DEF IInv, TargetsAccepted
<1>4. outcome.exchange = exchange /\ outcome.replies = <<>> /\ outcome.failures = <<s>>
  BY DEF Refused
<1>5. (\A c : Has(c)' <=> Has(c)) /\ Live' = Live
  BY <1>4 DEF Has, Live
<1>6. \A c \in Opens(p) : ~Has(c)
  BY <1>1, OpensNew
<1>7. Refuses(p, s, outcome.replies)
  BY <1>2, <1>3, <1>4, <1>5, <1>6 DEF Refuses
<1>8. outcome.replies \in Seq(TrueReplies(p))
  <2> DEFINE R == TrueReplies(p)
  <2> HIDE DEF R
  <2>1. outcome.replies \in Seq(R)
    BY <1>4, EmptySeq
  <2> QED BY <2>1 DEF R
<1>9. \E t : outcome.failures = <<t>> /\ Refuses(p, t, outcome.replies)
  BY <1>4, <1>7
<1> QED BY <1>1, <1>4, <1>5, <1>8, <1>9, ProcessKeeps

\* A cancel ends its order, or finds it over.
LEMMA CancelProcessed ==
  ASSUME IInv, NEW task \in kernel.queue, task.stage = ExchangeProcess,
         NEW p \in Cancels, p = task.event.payload, NEW outcome \in CancelOutcomes(p),
         kernel' = process_exchange(kernel, task, outcome.replies, outcome.failures),
         exchange' = outcome.exchange, UNCHANGED <<state, cursor, routed>>
  PROVE  IInv'
<1> DEFINE c0 == p.client
<1>1. /\ p.kind = "Cancel" /\ c0 \in ClientIds /\ p.exchange_order_id \in Nat
      /\ Names(p) = {c0} /\ Opens(p) = {}
  BY DEF Cancels, Names, Opens
<1>2. ExchangeShape(exchange) /\ task \in Sent
  BY DEF IInv, Shapes, Sent, IsCommand
<1>3. Has(c0)
  BY <1>1, <1>2 DEF IInv, TargetsAccepted
<1>4. CASE c0 \notin Live
  <2> DEFINE s == exchange.orders[c0].state
  <2>1. outcome = Refused(<<>>, s)
    <3>1. CancelOutcomes(p) = {Refused(<<>>, s)}
      BY <1>4, Zenon DEF CancelOutcomes
    <3> QED BY <3>1, Zenon
  <2>2. s \in {NoState} \cup Terminals
    BY <1>2, <1>3, <1>4, OverFacts
  <2>3. p \in Cancels \cup Replaces /\ p.client \notin Live
    BY <1>4
  <2> HIDE DEF s
  <2> QED BY <2>1, <2>2, <2>3, RefusalProcessed
<1>5. CASE c0 \in Live
  <2> DEFINE r == [kind |-> "CancelAcknowledged", client |-> c0,
                   exchange_order_id |-> p.exchange_order_id,
                   cum |-> exchange.orders[c0].cum]
             m == exchange'.orders[c0]
  <2>1. /\ outcome.exchange = Ended(c0, "Cancelled") /\ outcome.replies = <<r>>
        /\ outcome.failures = <<>>
    BY <1>5 DEF CancelOutcomes
  <2>2. /\ ExchangeShape(exchange') /\ exchange'.orders = [exchange.orders EXCEPT ![c0] = m]
        /\ m \in Order /\ m.state = "Cancelled"
    <3>1. "Cancelled" \in Terminals
      BY DEF Terminals
    <3>2. exchange' = Ended(c0, "Cancelled")
      BY <2>1
    <3> QED BY <1>1, <1>2, <1>3, <3>1, <3>2, EndedFacts
  <2> HIDE DEF m
  <2>3. /\ Has(c0)' /\ (c0 \in Live' <=> m.state \in {"Live", "PartiallyFilled"})
        /\ \A c : c # c0 => (Has(c)' <=> Has(c)) /\ (c \in Live' <=> c \in Live)
    BY <1>1, <1>2, <2>2, OrderChanged
  <2>4. r \in TrueReplies(p)
    <3>1. exchange.orders[c0].cum \in Nat
      BY <1>2, <1>3 DEF Has, ExchangeShape, Order
    <3>2. r \in Replies /\ Names(r) = {c0}
      BY <1>1, <3>1 DEF Replies, CancelAcks, Names, ChildEvents
    <3>3. \A c \in ClientIds : Ends(r, c) => c = c0
      BY DEF Ends
    <3>4. r.kind # "OrderRejected"
      OBVIOUS
    <3> HIDE DEF r
    <3>5. Truthful(r)
      BY <2>2, <2>3, <3>2, <3>3, <3>4 DEF Truthful
    <3> QED BY <1>1, <3>2, <3>5 DEF TrueReplies
  <2> HIDE DEF r
  <2>5. outcome.replies \in Seq(TrueReplies(p))
    BY <2>1, <2>4
  <2> QED BY <1>1, <1>2, <1>3, <2>1, <2>2, <2>3, <2>5, ProcessKeeps
<1> QED BY <1>4, <1>5

\* A replacement is refused, or ends its order and opens another.
LEMMA ReplaceProcessed ==
  ASSUME IInv, NEW task \in kernel.queue, task.stage = ExchangeProcess,
         NEW p \in Replaces, p = task.event.payload, NEW outcome \in ReplaceOutcomes(p),
         kernel' = process_exchange(kernel, task, outcome.replies, outcome.failures),
         exchange' = outcome.exchange, UNCHANGED <<state, cursor, routed>>
  PROVE  IInv'
<1> DEFINE c0 == p.client
           c1 == p.new_client
           o == NewExchangeOrder(p.quantity)
<1>1. /\ p.kind = "Replace" /\ c0 \in ClientIds /\ c1 \in ClientIds /\ p.quantity \in Nat
      /\ Names(p) = {c0, c1} /\ Opens(p) = {c1}
  BY DEF Replaces, Names, Opens
<1>2. ExchangeShape(exchange) /\ task \in Sent
  BY DEF IInv, Shapes, Sent, IsCommand
<1>3. Has(c0) /\ ~Has(c1) /\ c1 \notin Live /\ c0 # c1
  BY <1>1, <1>2, OpensNew DEF IInv, TargetsAccepted
<1>4. CASE c0 \notin Live
  <2> DEFINE s == exchange.orders[c0].state
  <2>1. outcome = Refused(<<>>, s)
    <3>1. ReplaceOutcomes(p) = {Refused(<<>>, s)}
      BY <1>4, Zenon DEF ReplaceOutcomes
    <3> QED BY <3>1, Zenon
  <2>2. s \in {NoState} \cup Terminals
    BY <1>2, <1>3, <1>4, OverFacts
  <2>3. p \in Cancels \cup Replaces /\ p.client \notin Live
    BY <1>4
  <2> HIDE DEF s
  <2> QED BY <2>1, <2>2, <2>3, RefusalProcessed
<1>5. CASE outcome = Refused(<<>>, NoState)
  BY <1>5, RefusalProcessed
<1>7. Ended(c0, "Replaced").orders[c0] \in Order /\ Ended(c0, "Replaced").orders[c0].state = "Replaced"
  BY <1>1, <1>2, <1>3, EndedOrder
<1>6. ASSUME NEW sizes \in MatchSizes(p.quantity),
             outcome = [exchange |-> [WithOrder(c1, Matched(o, sizes, TRUE), sizes)
                           EXCEPT !.orders[c0] = Ended(c0, "Replaced").orders[c0]],
                        replies |-> <<[kind |-> "ReplaceAcknowledged", client |-> c0,
                                       new_client |-> c1, exchange_order_id |-> o.id,
                                       quantity |-> p.quantity]>>
                                    \o Fills(c1, o, sizes),
                        failures |-> <<>>]
      PROVE  IInv'
  <2> DEFINE m == Matched(o, sizes, TRUE)
             ended == Ended(c0, "Replaced").orders[c0]
             R == TrueReplies(p)
             x == WithOrder(c1, m, sizes)
             ack == [kind |-> "ReplaceAcknowledged", client |-> c0, new_client |-> c1,
                     exchange_order_id |-> o.id, quantity |-> p.quantity]
             fills == Fills(c1, o, sizes)
  <2>0. outcome.replies = <<ack>> \o fills /\ outcome.failures = <<>>
    <3>1. \A a, b, c, x0 : x0 = [exchange |-> a, replies |-> b, failures |-> c]
            => x0.replies = b /\ x0.failures = c
      OBVIOUS
    <3> QED BY <1>6, <3>1, Zenon
  <2>1. o \in Order /\ o.quantity = p.quantity /\ o.leaves = p.quantity
    BY <1>1, <1>2, NewOrderFacts
  <2> HIDE DEF o
  <2>2. /\ Len(sizes) \in Nat /\ DOMAIN sizes = 1..Len(sizes) /\ Lots(sizes) \in 0..o.leaves
        /\ \A i \in 1..Len(sizes) :
             sizes[i] \in Nat /\ Lots(SubSeq(sizes, 1, i)) \in 0..Lots(sizes)
    BY <1>1, <2>1, MatchFacts
  <2>3. /\ m \in Order
        /\ Lots(sizes) = o.leaves => m.state \notin {"Live", "PartiallyFilled"}
    <3>1. TRUE \in BOOLEAN
      OBVIOUS
    <3> QED BY <2>1, <2>2, <3>1, MatchedFacts
  <2>4. ended \in Order /\ ended.state = "Replaced"
    BY <1>7
  <2>5. exchange' = [x EXCEPT !.orders[c0] = ended]
    BY <1>6
  <2> HIDE DEF m, ended
  <2>6. ExchangeShape(x) /\ x.orders = [exchange.orders EXCEPT ![c1] = m]
    BY <1>1, <1>2, <2>2, <2>3, WithOrderFacts
  <2> HIDE DEF x
  <2>7. /\ ExchangeShape(exchange')
        /\ \A c \in ClientIds : exchange'.orders[c] = IF c = c0 THEN ended
                                                      ELSE IF c = c1 THEN m
                                                      ELSE exchange.orders[c]
    <3> DEFINE orders == [x.orders EXCEPT ![c0] = ended]
    <3>1. exchange' = [x EXCEPT !.orders = orders]
      BY <2>5, <2>6 DEF ExchangeShape
    <3>2. orders \in [ClientIds -> Order \cup {NoOrder}]
      BY <1>1, <2>4, <2>6 DEF ExchangeShape
    <3>3. \A c \in ClientIds : orders[c] = IF c = c0 THEN ended
                                           ELSE IF c = c1 THEN m
                                           ELSE exchange.orders[c]
      BY <1>1, <1>2, <2>6 DEF ExchangeShape
    <3> HIDE DEF orders
    <3>4. ExchangeShape(exchange') /\ exchange'.orders = orders
      BY <2>6, <3>1, <3>2 DEF ExchangeShape
    <3> QED BY <3>3, <3>4
  <2>8. /\ Has(c0)' /\ Has(c1)' /\ c0 \notin Live'
        /\ c1 \in Live' => m.state \in {"Live", "PartiallyFilled"}
        /\ \A c : c \notin {c0, c1} => (Has(c)' <=> Has(c)) /\ (c \in Live' <=> c \in Live)
    <3>1. m # NoOrder /\ ended # NoOrder
      BY <2>3, <2>4, SystemAssumption
    <3> QED BY <1>1, <1>3, <2>4, <2>7, <3>1 DEF Has, Live
  <2>9. ack \in R
    <3>1. ack \in ReplaceAcks
      BY <1>1, <2>1 DEF ReplaceAcks, Order
    <3>2. Names(ack) = {c0, c1} /\ ack.kind # "OrderRejected"
      BY DEF Names
    <3>3. \A c \in ClientIds : Ends(ack, c) => c = c0
      BY DEF Ends
    <3> HIDE DEF ack
    <3>4. Truthful(ack)
      BY <2>8, <3>2, <3>3 DEF Truthful
    <3> QED BY <1>1, <3>1, <3>2, <3>4 DEF Replies, TrueReplies
  <2>10. fills \in Seq(R)
    <3> DEFINE S == {e \in FillEvents : e.client = c1 /\ (e.leaves = 0 => Lots(sizes) = o.leaves)}
    <3>1. Fills(c1, o, sizes) \in Seq(S)
      BY <1>1, <1>2, <2>1, <2>2, FillsFacts DEF ExchangeShape
    <3>2. ASSUME NEW r \in S PROVE r \in R
      <4>1. r.kind = "Fill" /\ r \in Replies /\ r.client = c1
        BY DEF FillEvents, Replies
      <4>2. Names(r) = {c1} /\ r.kind # "OrderRejected"
        BY <4>1 DEF Names, ChildEvents
      <4>3. \A c \in ClientIds : Ends(r, c) => c = c1 /\ Lots(sizes) = o.leaves
        BY <4>1 DEF Ends
      <4>4. Truthful(r)
        BY <2>3, <2>8, <4>2, <4>3 DEF Truthful
      <4> QED BY <1>1, <4>1, <4>2, <4>4 DEF TrueReplies
    <3> HIDE DEF S
    <3> QED BY <3>1, <3>2
  <2> HIDE DEF R
  <2>11. outcome.replies \in Seq(R) /\ outcome.failures = <<>>
    <3> HIDE DEF ack, fills
    <3>1. <<ack>> \in Seq(R)
      BY <2>9
    <3> QED BY <2>0, <2>10, <3>1
  <2>12. (\A c : Has(c) => Has(c)') /\ (\A c : Has(c)' => Has(c) \/ c \in Opens(p))
         /\ \A c \in Live' : c \in Live \/ c \in Opens(p)
    BY <1>1, <1>3, <2>8
  <2> QED BY <2>7, <2>11, <2>12, ProcessKeeps DEF R
<1> QED BY <1>4, <1>5, <1>6 DEF ReplaceOutcomes

\* Another participant's command trades with a resting order, or not.
LEMMA TakeProcessed ==
  ASSUME IInv, NEW task \in kernel.queue, task.stage = ExchangeProcess,
         NEW p, p = [kind |-> "Take"], p = task.event.payload, NEW outcome \in TakeOutcomes,
         kernel' = process_exchange(kernel, task, outcome.replies, outcome.failures),
         exchange' = outcome.exchange, UNCHANGED <<state, cursor, routed>>
  PROVE  IInv'
<1>1. Names(p) = {} /\ Opens(p) = {}
  BY DEF Names, Opens, ChildEvents
<1>2. ExchangeShape(exchange)
  BY DEF IInv, Shapes
<1>3. CASE outcome = [exchange |-> exchange, replies |-> <<>>, failures |-> <<>>]
  <2>1. outcome.exchange = exchange /\ outcome.replies = <<>> /\ outcome.failures = <<>>
    BY <1>3
  <2>2. (\A c : Has(c)' <=> Has(c)) /\ Live' = Live
    BY <2>1 DEF Has, Live
  <2>3. outcome.replies \in Seq(TrueReplies(p))
    BY <2>1
  <2> QED BY <1>2, <2>1, <2>2, <2>3, ProcessKeeps
<1>4. ASSUME NEW c0 \in Live, NEW q \in 1..exchange.orders[c0].leaves,
             outcome = [exchange |-> [exchange EXCEPT
                           !.orders[c0] = Matched(exchange.orders[c0], <<q>>, TRUE),
                           !.next_execution_id = @ + 1],
                        replies |-> Fills(c0, exchange.orders[c0], <<q>>),
                        failures |-> <<>>]
      PROVE  IInv'
  <2> DEFINE o == exchange.orders[c0]
             sizes == <<q>>
             m == Matched(o, sizes, TRUE)
             R == TrueReplies(p)
  <2>1. c0 \in ClientIds /\ Has(c0) /\ o \in Order /\ o.leaves \in Nat
    BY <1>2 DEF Live, Has, ExchangeShape, Order
  <2>2. sizes \in MatchSizes(o.leaves)
    BY DEF MatchSizes
  <2>3. /\ outcome.replies = Fills(c0, o, sizes) /\ outcome.failures = <<>>
        /\ outcome.exchange = [exchange EXCEPT !.orders[c0] = m,
                                               !.next_execution_id = exchange.next_execution_id + 1]
    BY <1>4
  <2> HIDE DEF o, sizes
  <2>4. /\ Len(sizes) \in Nat /\ DOMAIN sizes = 1..Len(sizes) /\ Lots(sizes) \in 0..o.leaves
        /\ \A i \in 1..Len(sizes) :
             sizes[i] \in Nat /\ Lots(SubSeq(sizes, 1, i)) \in 0..Lots(sizes)
    BY <2>1, <2>2, MatchFacts
  <2>5. /\ m \in Order
        /\ Lots(sizes) = o.leaves => m.state \notin {"Live", "PartiallyFilled"}
    <3>1. TRUE \in BOOLEAN
      OBVIOUS
    <3> QED BY <2>1, <2>4, <3>1, MatchedFacts
  <2> HIDE DEF m
  <2>6. ExchangeShape(exchange') /\ exchange'.orders = [exchange.orders EXCEPT ![c0] = m]
    <3> DEFINE orders == [exchange.orders EXCEPT ![c0] = m]
               b == exchange.next_execution_id + 1
    <3>1. exchange' = [exchange EXCEPT !.orders = orders, !.next_execution_id = b]
      BY <1>2, <2>3 DEF ExchangeShape
    <3>2. orders \in [ClientIds -> Order \cup {NoOrder}] /\ b \in Nat
      BY <1>2, <2>1, <2>5 DEF ExchangeShape
    <3> HIDE DEF orders, b
    <3>3. ExchangeShape(exchange') /\ exchange'.orders = orders
      BY <1>2, <3>1, <3>2 DEF ExchangeShape
    <3> QED BY <3>3 DEF orders
  <2>7. /\ Has(c0)' /\ (c0 \in Live' <=> m.state \in {"Live", "PartiallyFilled"})
        /\ \A c : c # c0 => (Has(c)' <=> Has(c)) /\ (c \in Live' <=> c \in Live)
    BY <1>2, <2>1, <2>5, <2>6, OrderChanged
  <2>8. outcome.replies \in Seq(R)
    <3> DEFINE S == {e \in FillEvents : e.client = c0 /\ (e.leaves = 0 => Lots(sizes) = o.leaves)}
    <3>1. outcome.replies \in Seq(S)
      BY <1>2, <2>1, <2>3, <2>4, FillsFacts DEF ExchangeShape
    <3>2. ASSUME NEW r \in S PROVE r \in R
      <4>1. r.kind = "Fill" /\ r \in Replies /\ r.client = c0
        BY DEF FillEvents, Replies
      <4>2. Names(r) = {c0} /\ r.kind # "OrderRejected"
        BY <4>1 DEF Names, ChildEvents
      <4>3. \A c \in ClientIds : Ends(r, c) => c = c0 /\ Lots(sizes) = o.leaves
        BY <4>1 DEF Ends
      <4>4. Truthful(r)
        BY <2>5, <2>7, <4>2, <4>3 DEF Truthful
      <4> QED BY <2>1, <4>1, <4>2, <4>4 DEF TrueReplies
    <3> HIDE DEF S, R
    <3> QED BY <3>1, <3>2
  <2> HIDE DEF R
  <2>9. (\A c : Has(c) => Has(c)') /\ (\A c : Has(c)' => Has(c)) /\ \A c \in Live' : c \in Live
    BY <2>1, <2>7
  <2> QED BY <2>3, <2>6, <2>8, <2>9, ProcessKeeps DEF R
<1>5. \/ outcome = [exchange |-> exchange, replies |-> <<>>, failures |-> <<>>]
      \/ \E c0 \in Live : \E q \in 1..exchange.orders[c0].leaves :
           outcome = [exchange |-> [exchange EXCEPT
                           !.orders[c0] = Matched(exchange.orders[c0], <<q>>, TRUE),
                           !.next_execution_id = @ + 1],
                      replies |-> Fills(c0, exchange.orders[c0], <<q>>),
                      failures |-> <<>>]
  BY Zenon DEF TakeOutcomes
<1> QED BY <1>3, <1>4, <1>5, Zenon

-----------------------------------------------------------------------------
(***************************************************************************)
(* The system.                                                             *)
(***************************************************************************)

\* A command that is processed.
LEMMA OutcomeKeeps ==
  ASSUME IInv, NEW task \in kernel.queue, task.stage = ExchangeProcess,
         NEW outcome \in Outcomes(task.event.payload),
         kernel' = process_exchange(kernel, task, outcome.replies, outcome.failures),
         exchange' = outcome.exchange, UNCHANGED <<state, cursor, routed>>
  PROVE  IInv'
<1> DEFINE p == task.event.payload
<1>1. p \in Commands \cup {[kind |-> "Take"]}
  <2>1. Shapes /\ task \in Sent
    BY DEF IInv, Sent, IsCommand
  <2> QED BY <2>1, SentNames
<1>2. outcome \in Outcomes(p) /\ p = task.event.payload
  OBVIOUS
<1> HIDE DEF p
<1>3. CASE p \in Submits
  <2>1. outcome \in SubmitOutcomes(p)
    BY <1>2, <1>3 DEF Outcomes, Submits
  <2> QED BY <1>2, <1>3, <2>1, SubmitProcessed
<1>4. CASE p \in Cancels
  <2>1. outcome \in CancelOutcomes(p)
    BY <1>2, <1>4 DEF Outcomes, Cancels
  <2> QED BY <1>2, <1>4, <2>1, CancelProcessed
<1>5. CASE p \in Replaces
  <2>1. outcome \in ReplaceOutcomes(p)
    BY <1>2, <1>5 DEF Outcomes, Replaces
  <2> QED BY <1>2, <1>5, <2>1, ReplaceProcessed
<1>6. CASE p = [kind |-> "Take"]
  <2>1. outcome \in TakeOutcomes
    BY <1>2, <1>6 DEF Outcomes
  <2> QED BY <1>2, <1>6, <2>1, TakeProcessed
<1> QED BY <1>1, <1>3, <1>4, <1>5, <1>6 DEF Commands

\* A task of the kernel: a command arrives or is processed, or an event is
\* delivered.
LEMMA DispatchKeeps ==
  ASSUME IInv, DispatchTask
  PROVE  IInv'
<1>1. PICK task \in kernel.queue :
        /\ \/ /\ task.stage # ExchangeProcess
              /\ kernel' = dispatch(kernel, task)
              /\ UNCHANGED exchange
           \/ /\ task.stage = ExchangeProcess
              /\ \E outcome \in Outcomes(task.event.payload) :
                   /\ kernel' = process_exchange(kernel, task, outcome.replies,
                                                 outcome.failures)
                   /\ exchange' = outcome.exchange
        /\ UNCHANGED <<state, clock, cursor, routed, attempts, takes>>
  BY DEF DispatchTask
<1>2. CASE task.stage = ExchangeProcess
  <2>1. PICK outcome \in Outcomes(task.event.payload) :
          /\ kernel' = process_exchange(kernel, task, outcome.replies, outcome.failures)
          /\ exchange' = outcome.exchange
    BY <1>1, <1>2
  <2>2. UNCHANGED <<state, cursor, routed>>
    BY <1>1
  <2> QED BY <1>2, <2>1, <2>2, OutcomeKeeps
<1>3. CASE task.stage # ExchangeProcess
  <2>1. /\ kernel' = dispatch(kernel, task)
        /\ UNCHANGED <<exchange, state, clock, cursor, routed, attempts, takes>>
    BY <1>1, <1>3
  <2>2. CASE task.stage = ExchangeReceive
    BY <2>1, <2>2, ReceiveKeeps
  <2>3. CASE task.stage # ExchangeReceive
    <3>1. task.stage \notin {ExchangeReceive, ExchangeProcess}
      BY <1>3, <2>3
    <3> QED BY <2>1, <3>1, DeliverKeeps
  <2> QED BY <2>2, <2>3
<1> QED BY <1>2, <1>3

\* At the start the state knows of no order, and nothing is under way.
LEMMA InitIInv == Init => IInv
<1> SUFFICES ASSUME Init
             PROVE  IInv
  OBVIOUS
<1>1. /\ kernel = [queue |-> {}, current_time |-> NoTime, next_task_id |-> 1,
                   next_event_id |-> 1, next_sequence |-> 1, event_ids |-> {},
                   delivered_events |-> <<>>, failures |-> <<>>, thrown |-> FALSE]
      /\ state = [children |-> [c \in ClientIds |-> NoChild], filled |-> 0,
                  terminal_applied |-> FALSE, terminal_pending |-> FALSE,
                  events |-> {}, executions |-> {}, issues |-> {}]
      /\ exchange = [orders |-> [c \in ClientIds |-> NoOrder],
                     next_exchange_order_id |-> 1, next_execution_id |-> 1]
      /\ cursor = 0 /\ routed = 0
  BY DEF Init, KernelInit, StateInit
<1>2. /\ kernel.queue = {} /\ kernel.delivered_events = <<>> /\ kernel.failures = <<>>
      /\ Len(kernel.delivered_events) = 0 /\ Len(kernel.failures) = 0
  BY <1>1
<1>3. \A c \in ClientIds : ~Knows(c) /\ ~Has(c)
  BY <1>1 DEF Knows, knows_client_order_id, Has
<1>4. Shapes
  <2>1. KernelShape(kernel)
    BY <1>1 DEF KernelShape
  <2>2. StateShape(state)
    BY <1>1, StateAssumption DEF StateShape
  <2>3. ExchangeShape(exchange)
    BY <1>1 DEF ExchangeShape
  <2>4. Listed(<<>>)
    <3>1. <<>> \in Seq({})
      OBVIOUS
    <3> QED BY <3>1 DEF Listed
  <2> QED BY <1>1, <1>2, <2>1, <2>2, <2>3, <2>4 DEF Shapes
<1>5. Sent = {} /\ Told = {} /\ Failed = {}
  BY <1>1, <1>2 DEF Sent, Told, Failed
<1>6. Live = {}
  BY <1>3 DEF Live, Has
<1>7. \A c \in ClientIds : SentAbout(c) = {} /\ ToldAbout(c) = {} /\ FailedAbout(c) = {}
  BY <1>5 DEF SentAbout, ToldAbout, FailedAbout
<1>8. UnknownUntouched /\ IdsGiven
  BY <1>3, <1>7 DEF UnknownUntouched, IdsGiven
<1>9. OpeningAlone /\ RefusalAlone /\ TargetsAccepted /\ FailuresTrue /\ EventsTrue
  BY <1>5 DEF OpeningAlone, RefusalAlone, TargetsAccepted, FailuresTrue, EventsTrue
<1>10. NoForgottenOrder
  BY <1>6 DEF NoForgottenOrder
<1> QED BY <1>4, <1>8, <1>9, <1>10 DEF IInv

LEMMA NextIInv == IInv /\ [Next]_vars => IInv'
<1> SUFFICES ASSUME IInv, [Next]_vars
             PROVE  IInv'
  OBVIOUS
<1>1. CASE DispatchTask
  BY <1>1, DispatchKeeps
<1>2. CASE ApplyDelivered
  BY <1>2, ApplyDeliveredKeeps
<1>3. CASE RouteFailure
  BY <1>3, RouteFailureKeeps
<1>4. CASE Decide
  BY <1>4, DecideKeeps
<1>5. CASE PlanTerminal
  BY <1>5, PlanTerminalKeeps
<1>6. CASE OtherParticipant
  BY <1>6, OtherParticipantKeeps
<1>7. CASE AdvanceClock
  <2>1. UNCHANGED <<kernel, state, exchange, cursor, routed>>
    BY <1>7 DEF AdvanceClock
  <2> QED BY <2>1, StutterKeeps
<1>8. CASE UNCHANGED vars
  <2>1. UNCHANGED <<kernel, state, exchange, cursor, routed>>
    BY <1>8 DEF vars
  <2> QED BY <2>1, StutterKeeps
<1> QED BY <1>1, <1>2, <1>3, <1>4, <1>5, <1>6, <1>7, <1>8 DEF Next

\* Every message between the loop and the exchange is what its recipient takes
\* it for: the command that opens an order is the only message about it, a
\* cancel or a replacement is of an order the exchange has accepted, and an
\* event or a failure that says an order is over is right whenever it arrives,
\* however the latencies order the messages and whatever other participants do
\* (simulation/kernel_exchange.cpp, policy/state.cpp, policy/action.cpp).
THEOREM SystemInvariance == Spec => []IInv
<1> QED BY InitIInv, NextIInv, PTL DEF Spec

\* An order that may trade at the exchange is one that the execution state holds
\* for pending or active, with replacements, with failures applied or not, and
\* for any latencies: the terminal planner never submits the residual beside an
\* order it has forgotten (policy/state.cpp, policy/terminal.cpp).
THEOREM NoOrderForgotten == Spec => []NoForgottenOrder
<1>1. IInv => NoForgottenOrder
  BY DEF IInv
<1> QED BY <1>1, SystemInvariance, PTL

-----------------------------------------------------------------------------
(***************************************************************************)
(* What the execution state has booked.  From here on: the invariant of    *)
(* ledger and children, and the steps that neither book nor trade.  The    *)
(* other steps and the theorems are in ExecutionLedger_proofs.             *)
(***************************************************************************)

-----------------------------------------------------------------------------
(***************************************************************************)
(* A child, its order at the exchange, and the events between them.        *)
(***************************************************************************)

\* What an event says of client c.
Opening(p, c) == \/ p.kind = "OrderAcknowledged" /\ p.client = c
                 \/ p.kind = "ReplaceAcknowledged" /\ p.new_client = c
Closing(p, c) == p.kind \in {"CancelAcknowledged", "ReplaceAcknowledged"} /\ p.client = c
Filling(p, c) == p.kind = "Fill" /\ p.client = c

Closed == {"Cancelled", "Replaced"}
Open   == {"Live", "PartiallyFilled"}

\* The lots of an order fit its state.
SoundOrder(o) ==
  /\ o \in Order /\ o.id # 0 /\ o.quantity # 0 /\ o.cum <= o.quantity
  /\ o.state # "Rejected"
  /\ o.state = "Live" => o.cum = 0
  /\ o.state = "PartiallyFilled" => o.cum # 0
  /\ o.state \in Open => o.cum < o.quantity /\ o.leaves = o.quantity - o.cum
  /\ o.state = "Filled" => o.cum = o.quantity
  /\ o.state \in Closed => o.cum < o.quantity
  /\ o.state \in Terminals => o.leaves = 0

\* Event e opens order o, and is the first of the events T.
OpensOrder(k, o, T, e) ==
  /\ e.payload.exchange_order_id = o.id /\ e.payload.quantity = o.quantity
  /\ k.exchange_order_id = NoExchangeId
  /\ \A f \in T : f # e => e.id < f.id

\* Event e fills order o: it continues what child k has, or the fill before it.
FillsOrder(c, k, o, T, e) ==
  /\ e.payload.exchange_order_id = o.id /\ e.payload.quantity # 0
  /\ e.payload.cum <= o.cum /\ e.payload.cum + e.payload.leaves = o.quantity
  /\ k.cum + e.payload.quantity <= e.payload.cum
  /\ \/ k.cum + e.payload.quantity = e.payload.cum
     \/ \E f \in T : /\ Filling(f.payload, c)
                     /\ f.payload.cum + e.payload.quantity = e.payload.cum
  /\ \A f \in T : Filling(f.payload, c) /\ e.id < f.id =>
                    e.payload.cum + f.payload.quantity <= f.payload.cum

\* Event e ends order o, and is the last of the events T.
ClosesOrder(o, T, e) ==
  /\ o.state \in Closed
  /\ e.payload.kind = "CancelAcknowledged" =>
       o.state = "Cancelled" /\ e.payload.exchange_order_id = o.id /\ e.payload.cum = o.cum
  /\ e.payload.kind = "ReplaceAcknowledged" => o.state = "Replaced"
  /\ \A f \in T : f # e => f.id < e.id

\* Event e is about what happened to order o, and comes at its place among the
\* events T about it.
TellsOf(c, k, o, T, e) ==
  /\ Opening(e.payload, c) \/ Closing(e.payload, c) \/ Filling(e.payload, c)
  /\ ~(Opening(e.payload, c) /\ Closing(e.payload, c))
  /\ Opening(e.payload, c) => OpensOrder(k, o, T, e)
  /\ Filling(e.payload, c) => FillsOrder(c, k, o, T, e)
  /\ Closing(e.payload, c) => ClosesOrder(o, T, e)

\* A child whose order is open as far as it knows.
FollowsOrder(k, o) ==
  /\ k.exchange_order_id = o.id
  /\ k.leaves = o.quantity - k.cum
  /\ k.state = IF k.leaves = 0 THEN "Filled"
               ELSE IF k.cum = 0 THEN "Live" ELSE "PartiallyFilled"

\* Child k of client c becomes what order o is once the events T are applied.
Tracks(c, k, o, T) ==
  /\ SoundOrder(o)
  /\ k.requested = o.quantity /\ k.cum <= o.cum
  /\ \A e \in T : TellsOf(c, k, o, T, e)
  /\ k.cum < o.cum => \E e \in T : Filling(e.payload, c) /\ e.payload.cum = o.cum
  /\ \/ /\ k = NewChild(o.quantity)
        /\ \E e \in T : Opening(e.payload, c)
        /\ o.state \in Closed => \E e \in T : Closing(e.payload, c)
     \/ /\ FollowsOrder(k, o)
        /\ o.state \in Closed => \E e \in T : Closing(e.payload, c)
     \/ /\ k.exchange_order_id = o.id /\ k.state = o.state /\ k.state \in Closed
        /\ k.cum = o.cum /\ k.leaves = 0 /\ T = {}

\* A child without an order.
Untraded(k, T) ==
  /\ k.exchange_order_id = NoExchangeId /\ k.cum = 0
  /\ ~k.cancel_pending /\ ~k.replace_pending
  /\ k.state \in {"PendingNew", "Rejected"} /\ k.leaves <= k.requested
  /\ k.state = "Rejected" => T = {}
  /\ \A e \in T : e.payload.kind = "OrderRejected"
  /\ \A e, f \in T : e = f

-----------------------------------------------------------------------------
(***************************************************************************)
(* What is under way.                                                      *)
(***************************************************************************)

ReplyDelay   == CHOOSE r \in ReplyDelays : TRUE
FixedReplies == \E r : ReplyDelays = {r}

EventTasks == {task \in kernel.queue : ~IsCommand(task)}
Waiting    == (cursor + 1)..Len(kernel.delivered_events)

\* Events that the state has not applied.
Awaited == {task.event : task \in EventTasks} \cup {kernel.delivered_events[i] : i \in Waiting}

\* Those among them that are about client c.
About(T, c) == {e \in T : c \in Names(e.payload)}

\* What the state holds of a child agrees with its order and the events about it;
\* a child that waits for its order waits for a message.
ChildSound(c) ==
  /\ state.children[c].requested \in 1..ParentQuantity
  /\ Has(c) => Tracks(c, state.children[c], exchange.orders[c], About(Awaited, c))
  /\ ~Has(c) =>
       /\ Untraded(state.children[c], About(Awaited, c))
       /\ state.children[c].state = "PendingNew" =>
            SentAbout(c) # {} \/ About(Awaited, c) # {} \/ FailedAbout(c) # {}

ChildrenSound == \A c \in ClientIds : Knows(c) => ChildSound(c)

\* The acknowledgement of an end that the loop did not ask for arrives with the
\* acknowledgement of the order.
Asked(c) == state.children[c].cancel_pending \/ state.children[c].replace_pending

EndsInTime ==
  \A e \in Awaited : \A c \in ClientIds : Closing(e.payload, c) =>
    \/ Asked(c) \/ e.available <= clock
    \/ /\ state.children[c].exchange_order_id = NoExchangeId
       /\ \A f \in Awaited : Opening(f.payload, c) => f.available = e.available

\* A cancel or replacement of c, by task, is the only command about it.
Targets(task, c) ==
  /\ Knows(c)
  /\ task.event.payload.exchange_order_id = state.children[c].exchange_order_id
  /\ state.children[c].exchange_order_id # NoExchangeId
  /\ SentAbout(c) = {task} /\ FailedAbout(c) = {}
  /\ exchange.orders[c].state \notin Closed

CommandSound(task) ==
  LET p == task.event.payload
  IN  /\ p.kind \in {"Submit", "Replace"} => p.quantity \in 1..ParentQuantity
      /\ \A c \in Opens(p) : state.children[c] = NewChild(p.quantity)
      /\ p.kind = "Cancel" => state.children[p.client].cancel_pending /\ Targets(task, p.client)
      /\ p.kind = "Replace" => state.children[p.client].replace_pending /\ Targets(task, p.client)

CommandsSound == \A task \in Sent : CommandSound(task)

\* A failure that resolves a child comes after the events about it.
FailureFits(i) ==
  LET failure == kernel.failures[i]
      c == failure.command.client
      k == state.children[c]
  IN  /\ failure.available \in Int
      /\ failure.command.kind = "Submit" \/ failure.current_state # NoState =>
           \A e \in About(Awaited, c) : e.available <= failure.available
      /\ failure.command.kind # "Submit" =>
           /\ Knows(c) /\ SentAbout(c) = {} /\ FailedAbout(c) = {i}
           /\ failure.command.kind = "Cancel" => k.cancel_pending
           /\ failure.command.kind = "Replace" => k.replace_pending
           /\ exchange.orders[c].state \notin Closed
           /\ failure.current_state # NoState =>
                failure.current_state = exchange.orders[c].state

FailuresFit == \A i \in Failed : FailureFits(i)

-----------------------------------------------------------------------------
(***************************************************************************)
(* Times and numbers.                                                      *)
(***************************************************************************)

\* A command travels the path that was drawn for it.
OnItsWay(task) ==
  /\ task.timing \in Timing /\ task.timing.receive <= task.timing.process
  /\ task.timing.available = task.timing.process + ReplyDelay
  /\ task.time = IF task.stage = ExchangeReceive THEN task.timing.receive
                 ELSE task.timing.process

ClockSound ==
  /\ clock \in Time /\ kernel.current_time \in Int /\ kernel.current_time <= clock
  /\ \A task \in kernel.queue : task.time \in Time /\ kernel.current_time <= task.time
  /\ \A task \in Sent : OnItsWay(task)
  /\ \A task \in EventTasks :
       /\ task.event.available = task.time
       /\ task.stage = ObserverAvailable => task.time <= kernel.current_time + ReplyDelay
       /\ task.stage = System => task.time <= clock
  /\ \A i \in Waiting : /\ kernel.delivered_events[i].available \in Int
                        /\ kernel.delivered_events[i].available <= kernel.current_time

Below(n, next) == n \in Nat /\ (next = 0 \/ n < next)

\* Task t was caused before task u, and arrives before it.
Precedes(t, u) ==
  t.event.id < u.event.id /\ t.time <= u.time /\ t.sequence < u.sequence

\* Events are numbered in the order in which they were caused, and arrive in it.
NumbersSound ==
  /\ kernel.next_event_id \in Nat /\ kernel.next_sequence \in Nat
  /\ \A task \in EventTasks : Below(task.sequence, kernel.next_sequence)
  /\ \A e \in Awaited : Below(e.id, kernel.next_event_id)
  /\ \A x \in state.events : Below(x, kernel.next_event_id)
  /\ \A x \in state.events : \A e \in Awaited : x < e.id
  /\ \A i, j \in Waiting : i < j => kernel.delivered_events[i].id < kernel.delivered_events[j].id
  /\ \A i \in Waiting : \A task \in EventTasks : kernel.delivered_events[i].id < task.event.id
  /\ \A t, u \in EventTasks : t = u \/ Precedes(t, u) \/ Precedes(u, t)
  /\ \A t \in EventTasks : t.stage = System => EventTasks = {t}

\* Executions are numbered, too.
ExecutionsSound ==
  /\ \A x \in state.executions : x \in Nat /\ x < exchange.next_execution_id
  /\ \A e \in Awaited : e.payload.kind = "Fill" =>
       /\ e.payload.execution < exchange.next_execution_id
       /\ e.payload.execution \notin state.executions
  /\ \A e, f \in Awaited :
       e.payload.kind = "Fill" /\ f.payload.kind = "Fill" /\ e # f =>
         e.payload.execution # f.payload.execution

-----------------------------------------------------------------------------
(***************************************************************************)
(* The ledger.                                                             *)
(***************************************************************************)

\* The lots booked on the children.
BookedLots(s) == [c \in ClientIds |->
                    IF knows_client_order_id(s, c) THEN s.children[c].cum ELSE 0]
Booked(s) == SumFunction(BookedLots(s))

\* Nothing can trade any more.
Over ==
  /\ Live = {} /\ \A task \in Sent : task.event.payload.kind = "Take"
  /\ \A c \in ClientIds : Knows(c) =>
       state.children[c].state \notin {"PendingNew"} \cup ActiveStates

\* The explicit completion at the horizon covers what the children have left.
LedgerSound ==
  /\ state.terminal_applied \in BOOLEAN /\ state.terminal_pending \in BOOLEAN
  /\ ~state.terminal_applied => state.filled = Booked(state)
  /\ ~state.terminal_applied /\ ~state.terminal_pending =>
       /\ Completions = {}
       /\ \A e \in Awaited : e.payload.kind # "TerminalCompletion"
  /\ state.terminal_pending =>
       /\ ~state.terminal_applied /\ Over
       /\ \E e \in Awaited :
            /\ Awaited = {e}
            /\ e.payload = [kind |-> "TerminalCompletion", quantity |-> Remaining(state)]
       /\ Completions \subseteq Waiting
  /\ state.terminal_applied =>
       /\ ~state.terminal_pending
       /\ Awaited = {} /\ Over /\ state.filled = ParentQuantity
       /\ \E i \in DOMAIN kernel.delivered_events :
            /\ Completions = {i}
            /\ kernel.delivered_events[i].payload.quantity = ParentQuantity - Booked(state)

JInv ==
  /\ ClockSound /\ NumbersSound /\ ExecutionsSound /\ CommandsSound /\ FailuresFit
  /\ ChildrenSound /\ EndsInTime /\ LedgerSound

\* A fill that no longer fits the parent is the first event to be refused; until
\* then everything is tracked.
Tracking ==
  /\ state.issues = {} => JInv
  /\ state.issues # {} => "parent_overfill" \in state.issues

-----------------------------------------------------------------------------
(***************************************************************************)
(* One child at a time.                                                    *)
(***************************************************************************)

\* A child that may still trade, or that a command is about.
Busy(k)    == k.state \in {"PendingNew"} \cup ActiveStates \/ k.cancel_pending
Engaged(c) == Knows(c) /\ Busy(state.children[c])

\* Nobody asks for a replacement.
NoReplacement == \A c \in ClientIds : Knows(c) => ~state.children[c].replace_pending

\* At most one child is engaged, and what it may still trade is left of the parent.
Alone == \A c, d \in ClientIds : Engaged(c) /\ Engaged(d) => c = d

FitsParent ==
  ~state.terminal_applied =>
    \A c \in ClientIds : Engaged(c) =>
      state.children[c].requested - state.children[c].cum <= Remaining(state)

Counters == attempts \in 0..maximum_aggressive_attempts /\ takes \in 0..MaxTakes

OneChild == state.issues = {} /\ NoReplacement /\ Alone /\ FitsParent /\ Counters

\* The step makes no child engaged, and no child trades.
Calmer(c) ==
  Knows(c)' =>
    /\ Knows(c) /\ (Engaged(c)' => Engaged(c))
    /\ state'.children[c].requested = state.children[c].requested
    /\ state'.children[c].cum = state.children[c].cum
    /\ state'.children[c].replace_pending => state.children[c].replace_pending
Calms ==
  /\ state'.filled = state.filled /\ state'.terminal_applied = state.terminal_applied
  /\ \A c \in ClientIds : Calmer(c)

\* It opens one.
OpensChild(c, q) ==
  /\ state'.filled = state.filled /\ state'.terminal_applied = state.terminal_applied
  /\ c \in ClientIds /\ state'.children[c] = NewChild(q)
  /\ \A d \in ClientIds \ {c} : state'.children[d] = state.children[d]

LEMMA SameCalmer ==
  ASSUME NEW c, state'.children[c] = state.children[c]
  PROVE  Calmer(c)
BY DEF Calmer, Knows, Engaged, knows_client_order_id

\* A child becomes another.
LEMMA OneCalmer ==
  ASSUME NEW c \in ClientIds, NEW k, k = state.children[c], NEW n, n = state'.children[c],
         Knows(c), n.requested = k.requested, n.cum = k.cum,
         n.replace_pending => k.replace_pending,
         Busy(n) => Busy(k)
  PROVE  Calmer(c)
BY DEF Calmer, Knows, Engaged, knows_client_order_id

-----------------------------------------------------------------------------
(***************************************************************************)
(* The exchange causes events about an order.                              *)
(***************************************************************************)

LEMMA EventKinds ==
  ASSUME NEW p, NEW c, Filling(p, c)
  PROVE  ~Opening(p, c) /\ ~Closing(p, c)
BY DEF Filling, Opening, Closing

\* An order is opened.
LEMMA TracksOpened ==
  ASSUME NEW c, NEW o, SoundOrder(o), o.state = "Live", NEW e,
         Opening(e.payload, c), ~Closing(e.payload, c),
         e.payload.exchange_order_id = o.id, e.payload.quantity = o.quantity
  PROVE  Tracks(c, NewChild(o.quantity), o, {e})
<1> DEFINE k == NewChild(o.quantity)
<1>1. /\ k.exchange_order_id = NoExchangeId /\ k.requested = o.quantity /\ k.cum = 0
      /\ o.cum = 0 /\ o.state \notin Closed
  BY DEF NewChild, SoundOrder, Closed
<1> HIDE DEF k
<1>2. ~Filling(e.payload, c)
  BY EventKinds
<1>3. TellsOf(c, k, o, {e}, e)
  BY <1>1, <1>2 DEF TellsOf, OpensOrder
<1> QED BY <1>1, <1>3 DEF Tracks, k

\* An open order trades.
LEMMA TracksFilled ==
  ASSUME NEW c, NEW k \in Child, NEW o, NEW T, Tracks(c, k, o, T), o.state \in Open,
         NEW e, e.id \in Nat, \A f \in T : f.id \in Nat /\ f.id < e.id,
         \A f \in T : f.payload \in Replies,
         e.payload \in FillEvents, e.payload.client = c, e.payload.exchange_order_id = o.id,
         e.payload.quantity # 0, e.payload.cum = o.cum + e.payload.quantity,
         e.payload.leaves = o.leaves - e.payload.quantity,
         NEW m \in Order, m.id = o.id, m.quantity = o.quantity,
         m.cum = e.payload.cum, m.leaves = e.payload.leaves,
         m.state = IF m.leaves = 0 THEN "Filled" ELSE "PartiallyFilled"
  PROVE  Tracks(c, k, m, T \cup {e})
<1> DEFINE q == e.payload.quantity
           U == T \cup {e}
<1>1. /\ o.id \in Nat /\ o.quantity \in Nat /\ o.cum \in Nat /\ o.leaves \in Nat
      /\ o.id # 0 /\ o.quantity # 0 /\ o.cum < o.quantity /\ o.leaves = o.quantity - o.cum
      /\ o.state \notin Closed
  BY DEF Tracks, SoundOrder, Order, Open, Closed
<1>2. q \in Nat \ {0} /\ m.leaves \in Nat /\ m.cum \in Nat /\ q <= o.leaves /\ k.cum \in Nat
  BY <1>1 DEF FillEvents, Order, Child
<1>3. SoundOrder(m)
  <2>1. m.cum = o.cum + q /\ m.leaves = o.leaves - q
    OBVIOUS
  <2>2. /\ m.cum # 0 /\ m.leaves = m.quantity - m.cum
        /\ m.leaves # 0 => m.cum < m.quantity
        /\ m.leaves = 0 => m.cum = m.quantity
        /\ m.cum <= m.quantity
    <3> HIDE DEF q
    <3> QED BY <1>1, <1>2, <2>1
  <2> HIDE DEF q
  <2> QED BY <1>1, <2>2 DEF SoundOrder, Open, Closed, Terminals
<1>4. Filling(e.payload, c) /\ ~Opening(e.payload, c) /\ ~Closing(e.payload, c)
  <2>1. Filling(e.payload, c)
    BY DEF Filling, FillEvents
  <2> QED BY <2>1, EventKinds
<1>5. k.requested = m.quantity /\ k.cum <= m.cum /\ k.cum <= o.cum
  BY <1>1, <1>2 DEF Tracks
<1>6. \A f \in T : ~Closing(f.payload, c)
  BY <1>1 DEF Tracks, TellsOf, ClosesOrder
<1>7. ASSUME NEW f \in T PROVE TellsOf(c, k, m, U, f)
  <2>0. TellsOf(c, k, o, T, f) /\ f.id < e.id /\ f.id \in Nat /\ f.payload \in Replies
    BY DEF Tracks
  <2>1. CASE Opening(f.payload, c)
    <3>1. ~Filling(f.payload, c)
      BY <2>1, EventKinds
    <3>2. OpensOrder(k, m, U, f)
      BY <2>0, <2>1 DEF TellsOf, OpensOrder
    <3> QED BY <1>6, <2>1, <3>1, <3>2 DEF TellsOf
  <2>2. CASE Filling(f.payload, c)
    <3>1. FillsOrder(c, k, o, T, f)
      BY <2>0, <2>2 DEF TellsOf
    <3>2. f.payload.cum \in Nat /\ f.payload.quantity \in Nat
      BY <2>0, <2>2 DEF Filling, Replies, Acks, Rejections, CancelAcks, FillEvents, ReplaceAcks
    <3>3. /\ f.payload.cum <= m.cum
          /\ f.payload.cum + e.payload.quantity <= e.payload.cum
      BY <1>1, <1>2, <3>1, <3>2 DEF FillsOrder
    <3>4. FillsOrder(c, k, m, U, f)
      BY <3>1, <3>3 DEF FillsOrder
    <3>5. ~Opening(f.payload, c) /\ ~Closing(f.payload, c)
      BY <2>2, EventKinds
    <3> QED BY <2>2, <3>4, <3>5 DEF TellsOf
  <2> QED BY <1>6, <2>0, <2>1, <2>2 DEF TellsOf
<1>8. TellsOf(c, k, m, U, e)
  <2>1. \A f \in U : ~(e.id < f.id)
    OBVIOUS
  <2>2. k.cum + q <= e.payload.cum /\ e.payload.cum + e.payload.leaves = o.quantity
    BY <1>1, <1>2, <1>5
  <2>3. \/ k.cum + q = e.payload.cum
        \/ \E f \in U : Filling(f.payload, c) /\ f.payload.cum + q = e.payload.cum
    <3>1. CASE k.cum = o.cum
      BY <3>1
    <3>2. CASE k.cum < o.cum
      <4>1. PICK f \in T : Filling(f.payload, c) /\ f.payload.cum = o.cum
        BY <3>2 DEF Tracks
      <4> QED BY <4>1
    <3> QED BY <1>1, <1>2, <1>5, <3>1, <3>2
  <2>4. FillsOrder(c, k, m, U, e)
    BY <1>1, <1>2, <2>1, <2>2, <2>3 DEF FillsOrder
  <2> QED BY <1>4, <2>4 DEF TellsOf
<1>9. \E f \in U : Filling(f.payload, c) /\ f.payload.cum = m.cum
  BY <1>4
<1>10. m.state \notin Closed
  BY DEF Closed
<1>11. \/ k = NewChild(m.quantity) /\ \E f \in U : Opening(f.payload, c)
       \/ FollowsOrder(k, m)
  <2>1. k.state \in Closed => k.state # o.state
    BY <1>1
  <2>2. CASE k = NewChild(o.quantity) /\ \E f \in T : Opening(f.payload, c)
    BY <2>2
  <2>3. CASE FollowsOrder(k, o)
    BY <2>3 DEF FollowsOrder
  <2> QED BY <2>1, <2>2, <2>3 DEF Tracks
<1> HIDE DEF U
<1>12. \A f \in U : TellsOf(c, k, m, U, f)
  BY <1>7, <1>8 DEF U
<1>13. Tracks(c, k, m, U)
  BY <1>3, <1>5, <1>9, <1>10, <1>11, <1>12 DEF Tracks
<1> QED BY <1>13 DEF U

\* An open order ends.
LEMMA TracksClosed ==
  ASSUME NEW c, NEW k, NEW o, NEW T, Tracks(c, k, o, T), o.state \in Open,
         NEW e, e.id \in Nat, \A f \in T : f.id \in Nat /\ f.id < e.id,
         Closing(e.payload, c), ~Opening(e.payload, c),
         NEW m \in Order, m.id = o.id, m.quantity = o.quantity, m.cum = o.cum, m.leaves = 0,
         \/ /\ e.payload.kind = "CancelAcknowledged" /\ m.state = "Cancelled"
            /\ e.payload.exchange_order_id = o.id /\ e.payload.cum = o.cum
         \/ e.payload.kind = "ReplaceAcknowledged" /\ m.state = "Replaced"
  PROVE  Tracks(c, k, m, T \cup {e})
<1> DEFINE U == T \cup {e}
<1>1. o.state \notin Closed /\ m.state \in Closed
  BY DEF Open, Closed
<1>2. SoundOrder(m)
  BY DEF Tracks, SoundOrder, Order, Open, Closed, Terminals
<1>3. ~Filling(e.payload, c)
  BY EventKinds
<1>4. \A f \in T : ~Closing(f.payload, c)
  BY <1>1 DEF Tracks, TellsOf, ClosesOrder
<1>5. ASSUME NEW f \in T PROVE TellsOf(c, k, m, U, f)
  <2>0. TellsOf(c, k, o, T, f) /\ f.id < e.id /\ f.id \in Nat
    BY DEF Tracks
  <2>1. Opening(f.payload, c) => OpensOrder(k, m, U, f)
    BY <2>0 DEF TellsOf, OpensOrder
  <2>2. Filling(f.payload, c) => FillsOrder(c, k, m, U, f)
    BY <1>3, <2>0 DEF TellsOf, FillsOrder
  <2> QED BY <1>4, <2>0, <2>1, <2>2 DEF TellsOf
<1>6. TellsOf(c, k, m, U, e)
  <2>1. ClosesOrder(m, U, e)
    BY <1>1 DEF ClosesOrder
  <2> QED BY <1>3, <2>1 DEF TellsOf
<1>7. \/ k = NewChild(m.quantity) /\ \E f \in U : Opening(f.payload, c)
      \/ FollowsOrder(k, m)
  <2>1. k.state \in Closed => k.state # o.state
    BY <1>1
  <2> QED BY <2>1 DEF Tracks, FollowsOrder
<1>8. \E f \in U : Closing(f.payload, c)
  OBVIOUS
<1>9. k.requested = m.quantity /\ k.cum <= m.cum
  BY DEF Tracks
<1>10. k.cum < m.cum => \E f \in U : Filling(f.payload, c) /\ f.payload.cum = m.cum
  BY DEF Tracks
<1> HIDE DEF U
<1>11. \A f \in U : TellsOf(c, k, m, U, f)
  BY <1>5, <1>6 DEF U
<1>12. Tracks(c, k, m, U)
  BY <1>2, <1>7, <1>8, <1>9, <1>10, <1>11 DEF Tracks
<1> QED BY <1>12 DEF U

-----------------------------------------------------------------------------
(***************************************************************************)
(* The state applies the first of the events about a child.                *)
(***************************************************************************)

\* A child with an exchange id follows its order, or has seen its end.
LEMMA TracksKnown ==
  ASSUME NEW c, NEW k, NEW o, NEW T, Tracks(c, k, o, T)
  PROVE  /\ o.id \in Nat \ {0} /\ o.quantity \in Nat \ {0} /\ o.cum \in 0..o.quantity
         /\ \/ k.exchange_order_id = NoExchangeId /\ k = NewChild(o.quantity)
               /\ k.cum = 0 /\ k.state = "PendingNew"
            \/ k.exchange_order_id = o.id
BY DEF Tracks, SoundOrder, Order, FollowsOrder, NewChild, NoExchangeId

LEMMA TracksAck ==
  ASSUME NEW c, NEW k, NEW o, NEW T, Tracks(c, k, o, T),
         NEW e \in T, Opening(e.payload, c), \A f \in T : f.id \in Nat,
         NEW n, n.exchange_order_id = e.payload.exchange_order_id,
         n.requested = e.payload.quantity, n.cum = 0,
         n.leaves = e.payload.quantity, n.state = "Live"
  PROVE  /\ k = NewChild(o.quantity) /\ k.cum = 0
         /\ e.payload.exchange_order_id = o.id /\ o.id # 0
         /\ e.payload.quantity = o.quantity
         /\ Tracks(c, n, o, T \ {e})
<1> DEFINE U == T \ {e}
<1>1. OpensOrder(k, o, T, e)
  BY DEF Tracks, TellsOf
<1>2. /\ o.id \in Nat \ {0} /\ o.quantity \in Nat \ {0} /\ o.cum \in 0..o.quantity
      /\ k.exchange_order_id = NoExchangeId /\ k = NewChild(o.quantity) /\ k.cum = 0
  BY <1>1, TracksKnown DEF OpensOrder, NoExchangeId
<1>3. n.requested = o.quantity /\ FollowsOrder(n, o)
  BY <1>1, <1>2 DEF OpensOrder, FollowsOrder
<1>4. \A f \in U : ~Opening(f.payload, c)
  <2> SUFFICES ASSUME NEW f \in U, Opening(f.payload, c) PROVE FALSE
    OBVIOUS
  <2>1. OpensOrder(k, o, T, f)
    BY DEF Tracks, TellsOf
  <2> QED BY <1>1, <2>1 DEF OpensOrder
<1>5. ASSUME NEW f \in U PROVE TellsOf(c, n, o, U, f)
  <2>0. TellsOf(c, k, o, T, f)
    BY DEF Tracks
  <2>1. Filling(f.payload, c) => FillsOrder(c, n, o, U, f)
    <3> SUFFICES ASSUME Filling(f.payload, c) PROVE FillsOrder(c, n, o, U, f)
      OBVIOUS
    <3>1. FillsOrder(c, k, o, T, f)
      BY <2>0 DEF TellsOf
    <3>2. ~Filling(e.payload, c)
      BY EventKinds
    <3> HIDE DEF U
    <3>3. \A g \in T : Filling(g.payload, c) => g \in U
      BY <3>2 DEF U
    <3>4. U \subseteq T
      BY DEF U
    <3> QED BY <1>2, <3>1, <3>3, <3>4 DEF FillsOrder
  <2>2. Closing(f.payload, c) => ClosesOrder(o, U, f)
    BY <2>0 DEF TellsOf, ClosesOrder
  <2> QED BY <1>4, <2>0, <2>1, <2>2 DEF TellsOf
<1>6. n.cum < o.cum => \E f \in U : Filling(f.payload, c) /\ f.payload.cum = o.cum
  <2> SUFFICES ASSUME n.cum < o.cum
               PROVE  \E f \in U : Filling(f.payload, c) /\ f.payload.cum = o.cum
    OBVIOUS
  <2>1. PICK f \in T : Filling(f.payload, c) /\ f.payload.cum = o.cum
    BY <1>2 DEF Tracks
  <2>2. f # e
    BY <2>1, EventKinds
  <2> QED BY <2>1, <2>2
<1>7. o.state \in Closed => \E f \in U : Closing(f.payload, c)
  <2> SUFFICES ASSUME o.state \in Closed PROVE \E f \in U : Closing(f.payload, c)
    OBVIOUS
  <2>1. PICK f \in T : Closing(f.payload, c)
    BY <1>2 DEF Tracks, FollowsOrder
  <2>2. TellsOf(c, k, o, T, e)
    BY DEF Tracks
  <2>3. f # e
    BY <2>1, <2>2 DEF TellsOf
  <2> QED BY <2>1, <2>3
<1>8. n.cum <= o.cum
  BY <1>2
<1>9. SoundOrder(o)
  BY DEF Tracks
<1> HIDE DEF U
<1>10. Tracks(c, n, o, U)
  BY <1>3, <1>5, <1>6, <1>7, <1>8, <1>9 DEF Tracks
<1> QED BY <1>1, <1>2, <1>10 DEF U, OpensOrder

FilledState(leaves) == IF leaves = 0 THEN "Filled" ELSE "PartiallyFilled"

\* Reply e is the first of the replies T.
FirstReply(e, T) ==
  \A f \in T : f.id \in Nat /\ f.payload \in Replies /\ (f # e => e.id < f.id)

\* Fill e comes first, and makes n of child k.
FillComes(c, k, T, e, n) ==
  /\ k \in Child /\ e \in T /\ e.payload \in FillEvents /\ e.payload.client = c
  /\ FirstReply(e, T)
  /\ n.exchange_order_id = e.payload.exchange_order_id
  /\ n.requested = k.requested /\ n.cum = e.payload.cum /\ n.leaves = e.payload.leaves
  /\ n.state = FilledState(e.payload.leaves)

\* It continues what the child has.
FillContinues(k, o, e) ==
  /\ k.exchange_order_id = o.id /\ e.payload.exchange_order_id = o.id
  /\ k.cum + e.payload.quantity = e.payload.cum
  /\ e.payload.cum + e.payload.leaves = k.requested
  /\ e.payload.quantity # 0 /\ k.state \in Open

LEMMA TracksFill ==
  ASSUME NEW c, NEW k, NEW o, NEW T, Tracks(c, k, o, T), NEW e, NEW n,
         FillComes(c, k, T, e, n)
  PROVE  FillContinues(k, o, e) /\ Tracks(c, n, o, T \ {e})
<1> USE DEF FillComes
<1>0. /\ \A f \in T : f.id \in Nat /\ f.payload \in Replies
      /\ \A f \in T : f # e => e.id < f.id
  BY DEF FirstReply
<1> USE <1>0
<1> DEFINE U == T \ {e}
           q == e.payload.quantity
<1>1. Filling(e.payload, c) /\ ~Opening(e.payload, c) /\ ~Closing(e.payload, c)
  <2>1. Filling(e.payload, c)
    BY DEF Filling, FillEvents
  <2> QED BY <2>1, EventKinds
<1>2. FillsOrder(c, k, o, T, e)
  BY <1>1 DEF Tracks, TellsOf
<1>3. /\ o.id \in Nat \ {0} /\ o.quantity \in Nat \ {0} /\ o.cum \in 0..o.quantity
      /\ k.cum \in Nat /\ q \in Nat \ {0} /\ e.payload.cum \in Nat /\ e.payload.leaves \in Nat
  BY <1>2, TracksKnown DEF Child, FillEvents, FillsOrder
<1>4. ASSUME NEW f \in T, Opening(f.payload, c) PROVE FALSE
  <2>1. OpensOrder(k, o, T, f)
    BY <1>4 DEF Tracks, TellsOf
  <2>2. f # e
    BY <1>1, <1>4
  <2> QED BY <2>1, <2>2 DEF OpensOrder
<1>5. FollowsOrder(k, o)
  BY <1>4 DEF Tracks
<1>6. ASSUME NEW f \in T, Filling(f.payload, c), f # e
      PROVE  /\ f.payload.cum \in Nat /\ f.payload.quantity \in Nat \ {0}
             /\ e.payload.cum + f.payload.quantity <= f.payload.cum
             /\ FillsOrder(c, k, o, T, f)
  <2>1. FillsOrder(c, k, o, T, f)
    BY <1>6 DEF Tracks, TellsOf
  <2>2. f.payload.cum \in Nat /\ f.payload.quantity \in Nat
    BY <1>6 DEF Filling, Replies, Acks, Rejections, CancelAcks, FillEvents, ReplaceAcks
  <2> QED BY <1>2, <1>6, <2>1, <2>2 DEF FillsOrder
<1>7. k.cum + q = e.payload.cum
  <2> SUFFICES ASSUME NEW f \in T, Filling(f.payload, c), f.payload.cum + q = e.payload.cum
               PROVE  FALSE
    BY <1>2 DEF FillsOrder
  <2>1. f # e
    BY <1>3
  <2> QED BY <1>3, <1>6, <2>1
<1>8. e.payload.cum + e.payload.leaves = k.requested /\ e.payload.cum <= o.cum
  BY <1>2 DEF Tracks, FillsOrder
<1>9. FollowsOrder(n, o)
  <2>1. n.exchange_order_id = o.id
    BY <1>2 DEF FillsOrder
  <2>2. n.leaves = o.quantity - n.cum /\ n.cum # 0
    BY <1>3, <1>7, <1>8 DEF Tracks
  <2> QED BY <2>1, <2>2 DEF FollowsOrder, FilledState
<1>10. ASSUME NEW f \in U PROVE TellsOf(c, n, o, U, f)
  <2>0. TellsOf(c, k, o, T, f) /\ f # e /\ f \in T
    BY DEF Tracks
  <2>1. Filling(f.payload, c) => FillsOrder(c, n, o, U, f)
    <3> SUFFICES ASSUME Filling(f.payload, c) PROVE FillsOrder(c, n, o, U, f)
      OBVIOUS
    <3>1. /\ f.payload.cum \in Nat /\ f.payload.quantity \in Nat \ {0}
          /\ e.payload.cum + f.payload.quantity <= f.payload.cum
          /\ FillsOrder(c, k, o, T, f)
      BY <1>6, <2>0
    <3>2. \/ n.cum + f.payload.quantity = f.payload.cum
          \/ \E g \in U : Filling(g.payload, c) /\ g.payload.cum + f.payload.quantity = f.payload.cum
      <4>1. CASE k.cum + f.payload.quantity = f.payload.cum
        BY <1>3, <1>7, <3>1, <4>1
      <4>2. CASE \E g \in T : Filling(g.payload, c) /\ g.payload.cum + f.payload.quantity = f.payload.cum
        <5>1. PICK g \in T : Filling(g.payload, c) /\ g.payload.cum + f.payload.quantity = f.payload.cum
          BY <4>2
        <5> QED BY <5>1
      <4> QED BY <3>1, <4>1, <4>2 DEF FillsOrder
    <3> HIDE DEF U
    <3>3. U \subseteq T
      BY DEF U
    <3> QED BY <3>1, <3>2, <3>3 DEF FillsOrder
  <2>2. Closing(f.payload, c) => ClosesOrder(o, U, f)
    BY <2>0 DEF TellsOf, ClosesOrder
  <2> QED BY <1>4, <2>0, <2>1, <2>2 DEF TellsOf
<1>11. n.cum < o.cum => \E f \in U : Filling(f.payload, c) /\ f.payload.cum = o.cum
  <2> SUFFICES ASSUME n.cum < o.cum
               PROVE  \E f \in U : Filling(f.payload, c) /\ f.payload.cum = o.cum
    OBVIOUS
  <2>1. PICK f \in T : Filling(f.payload, c) /\ f.payload.cum = o.cum
    BY <1>3, <1>7 DEF Tracks
  <2>2. f # e
    BY <1>3, <2>1
  <2> QED BY <2>1, <2>2
<1>12. o.state \in Closed => \E f \in U : Closing(f.payload, c)
  BY <1>1, <1>4 DEF Tracks
<1>13. SoundOrder(o) /\ n.requested = o.quantity
  BY DEF Tracks
<1>14. k.state \in Open
  <2>1. k.leaves # 0
    BY <1>3, <1>5, <1>7, <1>8 DEF FollowsOrder, Tracks
  <2> QED BY <1>5, <2>1 DEF FollowsOrder, Open
<1> HIDE DEF U
<1>15. Tracks(c, n, o, U)
  BY <1>8, <1>9, <1>10, <1>11, <1>12, <1>13 DEF Tracks
<1> QED BY <1>2, <1>3, <1>5, <1>7, <1>8, <1>14, <1>15 DEF U, FillsOrder, FollowsOrder, FillContinues

LEMMA TracksEnd ==
  ASSUME NEW c, NEW k \in Child, NEW o, NEW T, Tracks(c, k, o, T),
         NEW e \in T, Closing(e.payload, c), \A f \in T : f.id \in Nat,
         \A f \in T : f # e => e.id < f.id
  PROVE  /\ T = {e} /\ k.cum = o.cum /\ k.exchange_order_id = o.id /\ o.id # 0
         /\ k.state \in Open
         /\ e.payload.kind = "CancelAcknowledged" =>
              o.state = "Cancelled" /\ e.payload.exchange_order_id = o.id /\ e.payload.cum = o.cum
         /\ e.payload.kind = "ReplaceAcknowledged" => o.state = "Replaced"
         /\ k.requested = o.quantity /\ SoundOrder(o) /\ o.state \in Closed
<1>1. ClosesOrder(o, T, e) /\ ~Opening(e.payload, c) /\ ~Filling(e.payload, c)
  BY EventKinds DEF Tracks, TellsOf
<1>2. T = {e}
  BY <1>1 DEF ClosesOrder
<1>3. /\ o.id \in Nat \ {0} /\ o.quantity \in Nat \ {0} /\ o.cum \in 0..o.quantity
      /\ k.cum \in Nat
  BY TracksKnown DEF Child
<1>4. k.cum = o.cum
  BY <1>1, <1>2, <1>3 DEF Tracks
<1>5. FollowsOrder(k, o)
  BY <1>1, <1>2 DEF Tracks
<1>6. k.state \in Open
  <2>1. o.cum < o.quantity
    BY <1>1 DEF Tracks, SoundOrder, ClosesOrder
  <2> QED BY <1>3, <1>4, <1>5, <2>1 DEF FollowsOrder, Open
<1>7. k.requested = o.quantity /\ SoundOrder(o) /\ o.state \in Closed
  BY <1>1 DEF Tracks, ClosesOrder
<1> QED BY <1>1, <1>2, <1>3, <1>4, <1>5, <1>6, <1>7 DEF ClosesOrder, FollowsOrder

LEMMA TracksOver ==
  ASSUME NEW c, NEW o, SoundOrder(o), o.state \in Closed,
         NEW n, n.exchange_order_id = o.id, n.requested = o.quantity,
         n.cum = o.cum, n.leaves = 0, n.state = o.state
  PROVE  Tracks(c, n, o, {})
<1>1. o.cum \in Nat
  BY DEF SoundOrder, Order
<1>2. n.cum <= o.cum /\ ~(n.cum < o.cum)
  BY <1>1
<1> QED BY <1>2 DEF Tracks

\* The pending flags of a child with an exchange id do not matter.
LEMMA TracksFlags ==
  ASSUME NEW c, NEW k, NEW o, NEW T, Tracks(c, k, o, T), k.exchange_order_id # NoExchangeId,
         NEW n, n.exchange_order_id = k.exchange_order_id, n.requested = k.requested,
         n.cum = k.cum, n.leaves = k.leaves, n.state = k.state
  PROVE  Tracks(c, n, o, T)
<1>1. k # NewChild(o.quantity)
  BY DEF NewChild
<1>2. \A e \in T : TellsOf(c, n, o, T, e)
  BY DEF Tracks, TellsOf, OpensOrder, FillsOrder
<1> QED BY <1>1, <1>2 DEF Tracks, FollowsOrder

\* Once no event is left, the child is what its order is.
LEMMA TracksSettled ==
  ASSUME NEW c, NEW k \in Child, NEW o, Tracks(c, k, o, {})
  PROVE  /\ k.exchange_order_id = o.id /\ k.cum = o.cum /\ k.leaves = o.leaves
         /\ k.state = o.state
<1>1. o.cum \in Nat /\ k.cum \in Nat /\ o.leaves \in Nat /\ o.quantity \in Nat
  BY DEF Tracks, SoundOrder, Order, Child
<1>2. k.cum = o.cum
  BY <1>1 DEF Tracks
<1>3. CASE FollowsOrder(k, o) /\ o.state \notin Closed
  <2>1. o.state \in {"Live", "PartiallyFilled", "Filled"}
    BY <1>3 DEF Tracks, SoundOrder, Order, Terminals, Closed
  <2> QED BY <1>1, <1>2, <1>3, <2>1 DEF FollowsOrder, Tracks, SoundOrder, Open, Terminals
<1>4. CASE k.exchange_order_id = o.id /\ k.state = o.state /\ k.state \in Closed /\ k.leaves = 0
  BY <1>2, <1>4 DEF Tracks, SoundOrder, Closed, Terminals
<1> QED BY <1>3, <1>4 DEF Tracks

-----------------------------------------------------------------------------
(***************************************************************************)
(* What the kernel's calls put into the queue when they return.            *)
(***************************************************************************)

Counting(k) == KernelShape(k) /\ k.next_event_id \in Nat /\ k.next_sequence \in Nat

\* Kernel q is k with one more task, numbered after all others.
Made(k, q, task) ==
  /\ Keeps(k, q) /\ Counting(q) /\ ~q.thrown /\ q.current_time = k.current_time
  /\ q.queue = k.queue \cup {task}
  /\ task.event.id \in Nat /\ k.next_event_id # 0 /\ k.next_event_id <= task.event.id
  /\ Below(task.event.id, q.next_event_id)
  /\ task.sequence = k.next_sequence /\ k.next_sequence # 0
  /\ Below(task.sequence, q.next_sequence)
  /\ k.current_time <= task.time

\* What the caller chooses of a task.
Carries(task, payload, time, stage, timing) ==
  /\ task.stage = stage /\ task.time = time /\ task.timing = timing
  /\ task.event.payload = payload /\ task.event.available = time

LEMMA AfterBelow ==
  ASSUME NEW n \in Nat
  PROVE  After(n) \in Nat /\ Below(n, After(n))
BY KernelAssumption DEF After, Below

LEMMA GenerateThrown ==
  ASSUME NEW k, k.thrown, NEW payload, NEW available, NEW stage, NEW timing,
         NEW q, q = Generate(k, payload, available, stage, timing)
  PROVE  q = k
BY DEF Generate

LEMMA ScheduleMade ==
  ASSUME NEW k, KernelShape(k), NEW time, NEW stage, NEW sequence, NEW event, NEW timing,
         NEW q, q = schedule(k, time, stage, sequence, event, timing), ~q.thrown
  PROVE  \E task :
           /\ Keeps(k, q) /\ q.current_time = k.current_time
           /\ q.next_event_id = k.next_event_id /\ q.next_sequence = k.next_sequence
           /\ q.queue = k.queue \cup {task} /\ ~k.thrown /\ ~(time < k.current_time)
           /\ task.stage = stage /\ task.time = time /\ task.timing = timing
           /\ task.sequence = sequence /\ task.event = event
<1> DEFINE task == [id |-> k.next_task_id, time |-> time, stage |-> stage,
                    sequence |-> sequence, event |-> event, timing |-> timing]
<1>1. CASE k.thrown
  BY <1>1 DEF schedule
<1>2. CASE ~k.thrown /\ (sequence = 0 \/ k.next_task_id = 0 \/ time < k.current_time)
  <2>1. q = [k EXCEPT !.thrown = TRUE]
    BY <1>2 DEF schedule, Throw
  <2> QED BY <2>1 DEF KernelShape
<1>3. CASE ~k.thrown /\ ~(sequence = 0 \/ k.next_task_id = 0 \/ time < k.current_time)
  <2>1. q = [k EXCEPT !.next_task_id = After(k.next_task_id), !.queue = k.queue \cup {task}]
    BY <1>3 DEF schedule
  <2>2. /\ task.stage = stage /\ task.time = time /\ task.timing = timing
        /\ task.sequence = sequence /\ task.event = event
    OBVIOUS
  <2> HIDE DEF task
  <2>3. /\ Keeps(k, q) /\ q.thrown = k.thrown /\ q.queue = k.queue \cup {task}
        /\ q.current_time = k.current_time
        /\ q.next_event_id = k.next_event_id /\ q.next_sequence = k.next_sequence
    BY <2>1 DEF Keeps, KernelShape
  <2> QED BY <1>3, <2>2, <2>3
<1> QED BY <1>1, <1>2, <1>3

LEMMA GenerateMade ==
  ASSUME NEW k, Counting(k), k.current_time \in Int,
         NEW payload, NEW available \in Int, NEW stage, NEW timing,
         NEW q, q = Generate(k, payload, available, stage, timing), ~q.thrown
  PROVE  \E task : Made(k, q, task) /\ Carries(task, payload, available, stage, timing)
<1> DEFINE free == FreeEventIds(k)
           id == Min(free)
           event == [id |-> id, payload |-> payload, available |-> available]
           numbered == [k EXCEPT !.next_sequence = After(k.next_sequence)]
<1>0. KernelShape(k)
  BY DEF Counting
<1>1. CASE k.thrown
  BY <1>1 DEF Generate
<1>2. CASE ~k.thrown /\ k.next_sequence = 0
  <2>1. q = [k EXCEPT !.thrown = TRUE]
    BY <1>2 DEF Generate, Throw
  <2> QED BY <1>0, <2>1 DEF KernelShape
<1>3. CASE ~k.thrown /\ k.next_sequence # 0 /\ free = {}
  <2>1. q = [[numbered EXCEPT !.next_event_id = IF numbered.next_event_id = 0 THEN 0 ELSE Limit]
              EXCEPT !.thrown = TRUE]
    BY <1>3 DEF Generate, Throw
  <2> QED BY <1>0, <2>1 DEF KernelShape
<1>4. CASE ~k.thrown /\ k.next_sequence # 0 /\ free # {}
  <2> DEFINE n == After(k.next_sequence)
             a == k.event_ids \cup {id}
             b == After(id)
             other == [k EXCEPT !.next_sequence = n, !.event_ids = a, !.next_event_id = b]
  <2>1. q = schedule(other, available, stage, k.next_sequence, event, timing)
    <3>1. /\ numbered.event_ids = k.event_ids
          /\ [numbered EXCEPT !.event_ids = numbered.event_ids \cup {id}, !.next_event_id = b] = other
      BY <1>0 DEF KernelShape
    <3> QED BY <1>4, <3>1 DEF Generate
  <2>2. id \in free /\ free \subseteq k.next_event_id..Limit /\ k.next_event_id # 0
    <3>1. Limit \in Nat
      BY KernelAssumption
    <3>2. free \in SUBSET Nat /\ free \subseteq k.next_event_id..Limit /\ k.next_event_id # 0
      BY <1>4, <3>1 DEF FreeEventIds, Counting
    <3>3. PICK m \in free : \A l \in free : m <= l
      <4> HIDE DEF free
      <4> QED BY <1>4, <3>2, LeastNatural
    <3> HIDE DEF free
    <3>4. id \in free
      BY <3>3 DEF Min
    <3> QED BY <3>2, <3>4
  <2>3. id \in Nat /\ k.next_event_id <= id
    BY <2>2, KernelAssumption DEF Counting
  <2> HIDE DEF free, id
  <2>4. n \in Nat /\ Below(k.next_sequence, n) /\ b \in Nat /\ Below(id, b)
    BY <2>3, AfterBelow DEF Counting
  <2> HIDE DEF a, b, n
  <2>5. /\ KernelShape(other) /\ other.next_sequence = n /\ other.next_event_id = b
        /\ other.queue = k.queue /\ other.current_time = k.current_time
        /\ other.delivered_events = k.delivered_events /\ other.failures = k.failures
    <3>1. other = [queue |-> k.queue, current_time |-> k.current_time,
                   next_task_id |-> k.next_task_id, next_event_id |-> b, next_sequence |-> n,
                   event_ids |-> a, delivered_events |-> k.delivered_events,
                   failures |-> k.failures, thrown |-> k.thrown]
      <4> DEFINE one == [k EXCEPT !.next_sequence = n]
                 two == [one EXCEPT !.event_ids = a]
      <4>1. one = [queue |-> k.queue, current_time |-> k.current_time,
                   next_task_id |-> k.next_task_id, next_event_id |-> k.next_event_id,
                   next_sequence |-> n,
                   event_ids |-> k.event_ids, delivered_events |-> k.delivered_events,
                   failures |-> k.failures, thrown |-> k.thrown]
        BY <1>0 DEF KernelShape
      <4>3. other = [two EXCEPT !.next_event_id = b]
        BY DEF other
      <4> HIDE DEF one, other
      <4>2. two = [queue |-> k.queue, current_time |-> k.current_time,
                   next_task_id |-> k.next_task_id, next_event_id |-> k.next_event_id,
                   next_sequence |-> n,
                   event_ids |-> a, delivered_events |-> k.delivered_events,
                   failures |-> k.failures, thrown |-> k.thrown]
        BY <4>1
      <4> HIDE DEF two
      <4> QED BY <4>2, <4>3
    <3>2. k.thrown \in BOOLEAN
      BY <1>0 DEF KernelShape
    <3> HIDE DEF other
    <3> QED BY <3>1, <3>2 DEF KernelShape
  <2>6. event.payload = payload /\ event.available = available /\ event.id = id
    OBVIOUS
  <2> HIDE DEF other, event
  <2>7. PICK task :
          /\ Keeps(other, q) /\ q.current_time = other.current_time
          /\ q.next_event_id = other.next_event_id /\ q.next_sequence = other.next_sequence
          /\ q.queue = other.queue \cup {task} /\ ~(available < other.current_time)
          /\ task.stage = stage /\ task.time = available /\ task.timing = timing
          /\ task.sequence = k.next_sequence /\ task.event = event
    BY <2>1, <2>5, ScheduleMade
  <2>8. Keeps(k, q) /\ Counting(q) /\ k.current_time <= task.time
    BY <2>4, <2>5, <2>7 DEF Keeps, Counting
  <2>9. Made(k, q, task)
    BY <1>4, <2>2, <2>3, <2>4, <2>5, <2>6, <2>7, <2>8 DEF Made
  <2> QED BY <2>6, <2>7, <2>9 DEF Carries
<1> QED BY <1>1, <1>2, <1>3, <1>4

\* The counters of kernel q are those of k after n tasks have been numbered in
\* their order, after all others.
Numbered(k, q, t, n) ==
  /\ Counting(q)
  /\ \A x \in Nat : Below(x, k.next_event_id) => Below(x, q.next_event_id)
  /\ \A x \in Nat : Below(x, k.next_sequence) => Below(x, q.next_sequence)
  /\ \A i \in 1..n :
       /\ Below(t[i].event.id, q.next_event_id) /\ Below(t[i].sequence, q.next_sequence)
       /\ \A x \in Nat : Below(x, k.next_event_id) => x < t[i].event.id
       /\ \A x \in Nat : Below(x, k.next_sequence) => x < t[i].sequence
  /\ \A i, j \in 1..n : i < j => t[i].event.id < t[j].event.id /\ t[i].sequence < t[j].sequence

\* Kernel q is k with n more tasks.
Batch(k, q, t, n) ==
  /\ Keeps(k, q) /\ ~q.thrown /\ q.current_time = k.current_time
  /\ q.queue = k.queue \cup {t[i] : i \in 1..n}
  /\ \A i \in 1..n : k.current_time <= t[i].time
  /\ Numbered(k, q, t, n)

LEMMA BatchGrows ==
  ASSUME NEW k, NEW q, NEW t, NEW n \in Nat, Batch(k, q, t, n), NEW r, NEW task, Made(q, r, task),
         NEW u, u = [i \in 1..(n + 1) |-> IF i = n + 1 THEN task ELSE t[i]]
  PROVE  Batch(k, r, u, n + 1)
<1>1. u[n + 1] = task /\ \A i \in 1..n : u[i] = t[i]
  OBVIOUS
<1>2. \A i \in 1..(n + 1) : i = n + 1 \/ i \in 1..n
  OBVIOUS
<1>3. /\ Keeps(k, r) /\ Counting(r) /\ ~r.thrown /\ r.current_time = k.current_time
  BY DEF Batch, Numbered, Made, Keeps
<1>4. r.queue = k.queue \cup {u[i] : i \in 1..(n + 1)}
  <2>1. {u[i] : i \in 1..(n + 1)} = {t[i] : i \in 1..n} \cup {task}
    BY <1>1, <1>2
  <2> QED BY <2>1 DEF Batch, Made
<1>5. /\ q.next_event_id \in Nat /\ q.next_sequence \in Nat
      /\ r.next_event_id \in Nat /\ r.next_sequence \in Nat
  BY DEF Batch, Numbered, Made, Counting
<1>6. \A x \in Nat : Below(x, q.next_event_id) => x < task.event.id /\ Below(x, r.next_event_id)
  BY <1>5 DEF Made, Below
<1>7. \A x \in Nat : Below(x, q.next_sequence) => x < task.sequence /\ Below(x, r.next_sequence)
  BY <1>5 DEF Made, Below
<1>8. \A x \in Nat : Below(x, k.next_event_id) => Below(x, r.next_event_id) /\ x < task.event.id
  BY <1>6 DEF Batch, Numbered
<1>9. \A x \in Nat : Below(x, k.next_sequence) => Below(x, r.next_sequence) /\ x < task.sequence
  BY <1>7 DEF Batch, Numbered
<1>10. \A i \in 1..n : /\ t[i].event.id \in Nat /\ t[i].sequence \in Nat
                       /\ t[i].event.id < task.event.id /\ t[i].sequence < task.sequence
  BY <1>6, <1>7 DEF Batch, Numbered, Below
<1>11. ASSUME NEW i \in 1..(n + 1)
       PROVE  /\ Below(u[i].event.id, r.next_event_id) /\ Below(u[i].sequence, r.next_sequence)
              /\ \A x \in Nat : Below(x, k.next_event_id) => x < u[i].event.id
              /\ \A x \in Nat : Below(x, k.next_sequence) => x < u[i].sequence
              /\ k.current_time <= u[i].time
  <2>1. CASE i = n + 1
    BY <1>1, <1>8, <1>9, <2>1 DEF Made, Batch, Numbered
  <2>2. CASE i \in 1..n
    <3>1. u[i] = t[i]
      BY <1>1, <2>2
    <3> HIDE DEF Below
    <3>2. Below(t[i].event.id, q.next_event_id) /\ Below(t[i].sequence, q.next_sequence)
      BY <2>2 DEF Batch, Numbered
    <3>3. Below(t[i].event.id, r.next_event_id) /\ Below(t[i].sequence, r.next_sequence)
      BY <1>6, <1>7, <1>10, <2>2, <3>2
    <3> QED BY <2>2, <3>1, <3>3 DEF Batch, Numbered
  <2> QED BY <1>2, <2>1, <2>2
<1>12. ASSUME NEW i \in 1..(n + 1), NEW j \in 1..(n + 1), i < j
       PROVE  u[i].event.id < u[j].event.id /\ u[i].sequence < u[j].sequence
  <2>1. CASE j = n + 1
    <3>1. i \in 1..n
      BY <1>12, <2>1
    <3> QED BY <1>1, <1>10, <2>1, <3>1
  <2>2. CASE j \in 1..n
    <3>1. i \in 1..n
      BY <1>12, <2>2
    <3> QED BY <1>1, <1>12, <2>2, <3>1 DEF Batch, Numbered
  <2> QED BY <1>2, <2>1, <2>2
<1> QED BY <1>3, <1>4, <1>8, <1>9, <1>11, <1>12 DEF Batch, Numbered

\* Kernel q is k once each of the payloads has been scheduled.
Sends(k, q, t, n, payloads, times, stage, timings) ==
  /\ Batch(k, q, t, n)
  /\ \A i \in 1..n : Carries(t[i], payloads[i], times[i], stage, timings[i])

LEMMA GenerateAll ==
  ASSUME NEW k, Counting(k), k.current_time \in Int, ~k.thrown, NEW n \in Nat,
         NEW payloads, NEW times, \A i \in 1..n : times[i] \in Int, NEW stage, NEW timings,
         NEW f, f[0] = k,
         \A i \in 1..n : f[i] = Generate(f[i - 1], payloads[i], times[i], stage, timings[i]),
         ~f[n].thrown
  PROVE  \E t : Sends(k, f[n], t, n, payloads, times, stage, timings)
<1> DEFINE Done(m) == f[m].thrown \/ \E t : Sends(k, f[m], t, m, payloads, times, stage, timings)
           Good == {m \in Nat : m <= n => Done(m)}
<1>1. 0 \in Good
  <2>1. Batch(k, f[0], <<>>, 0)
    BY DEF Batch, Numbered, Keeps, Counting
  <2>2. Sends(k, f[0], <<>>, 0, payloads, times, stage, timings)
    BY <2>1 DEF Sends
  <2> QED BY <2>2
<1>2. ASSUME NEW m \in Nat, m \in Good PROVE m + 1 \in Good
  <2> SUFFICES ASSUME m + 1 <= n PROVE Done(m + 1)
    OBVIOUS
  <2>1. /\ f[m + 1] = Generate(f[m], payloads[m + 1], times[m + 1], stage, timings[m + 1])
        /\ times[m + 1] \in Int
    OBVIOUS
  <2>2. CASE f[m].thrown
    <3>1. f[m + 1] = f[m]
      BY <2>1, <2>2, GenerateThrown
    <3> QED BY <2>2, <3>1
  <2>3. CASE ~f[m].thrown /\ ~f[m + 1].thrown
    <3>1. PICK t : Sends(k, f[m], t, m, payloads, times, stage, timings)
      BY <1>2, <2>3
    <3>2. Counting(f[m]) /\ f[m].current_time \in Int
      BY <3>1 DEF Sends, Batch, Numbered
    <3>3. PICK task : /\ Made(f[m], f[m + 1], task)
                      /\ Carries(task, payloads[m + 1], times[m + 1], stage, timings[m + 1])
      BY <2>1, <2>3, <3>2, GenerateMade
    <3> DEFINE u == [i \in 1..(m + 1) |-> IF i = m + 1 THEN task ELSE t[i]]
    <3>4. u[m + 1] = task /\ \A i \in 1..m : u[i] = t[i]
      OBVIOUS
    <3>5. \A i \in 1..(m + 1) : i = m + 1 \/ i \in 1..m
      OBVIOUS
    <3>6. \E v : v = u
      OBVIOUS
    <3>7. PICK v : v = u
      BY <3>6
    <3>8. Batch(k, f[m + 1], v, m + 1)
      BY <3>1, <3>3, <3>7, BatchGrows DEF Sends
    <3> HIDE DEF u
    <3>9. Sends(k, f[m + 1], v, m + 1, payloads, times, stage, timings)
      BY <3>1, <3>3, <3>4, <3>5, <3>7, <3>8 DEF Sends
    <3> QED BY <3>9
  <2> QED BY <2>2, <2>3
<1>3. Nat \subseteq Good
  <2> HIDE DEF Good
  <2> QED BY <1>1, <1>2, NaturalInduction
<1>4. Done(n)
  <2>1. \A m \in Nat : m <= n => Done(m)
    <3> HIDE DEF Done
    <3> QED BY <1>3
  <2>2. \A i \in Nat : i <= i
    OBVIOUS
  <2> HIDE DEF Done
  <2> QED BY <2>1, <2>2, Zenon
<1> QED BY <1>4

-----------------------------------------------------------------------------
(***************************************************************************)
(* What the kernel's calls do when they return.                            *)
(***************************************************************************)

LEMMA CallCounts ==
  ASSUME NEW k, Counting(k), NEW q, q = Call(k)
  PROVE  /\ Counting(q) /\ ~q.thrown /\ q.queue = k.queue /\ q.current_time = k.current_time
         /\ q.delivered_events = k.delivered_events /\ q.failures = k.failures
         /\ q.next_event_id = k.next_event_id /\ q.next_sequence = k.next_sequence
BY DEF Call, KernelShape, Counting

\* A command has reached the exchange, and waits there as another task.
Received(k, q, task, moved) ==
  /\ Counting(q) /\ q.next_event_id = k.next_event_id /\ q.next_sequence = k.next_sequence
  /\ q.current_time = task.time
  /\ q.delivered_events = k.delivered_events /\ q.failures = k.failures
  /\ q.queue = (k.queue \ {task}) \cup {moved}
  /\ moved.stage = ExchangeProcess /\ moved.time = task.timing.process
  /\ moved.timing = task.timing /\ moved.event = task.event

LEMMA ReceiveMade ==
  ASSUME NEW k, Counting(k), NEW task, task.stage = ExchangeReceive,
         NEW q, q = dispatch(k, task), ~q.thrown
  PROVE  \E moved : Received(k, q, task, moved)
<1>0. PICK r : r = pop_next(k, task)
  OBVIOUS
<1>1. q = schedule(r, task.timing.process, ExchangeProcess, task.sequence, task.event, task.timing)
  BY <1>0 DEF dispatch
<1>2. /\ Counting(r) /\ r.queue = k.queue \ {task} /\ r.current_time = task.time
      /\ r.delivered_events = k.delivered_events /\ r.failures = k.failures
      /\ r.next_event_id = k.next_event_id /\ r.next_sequence = k.next_sequence
  BY <1>0 DEF pop_next, KernelShape, Counting
<1>3. KernelShape(r)
  BY <1>2 DEF Counting
<1>4. PICK moved :
        /\ Keeps(r, q) /\ q.current_time = r.current_time
        /\ q.next_event_id = r.next_event_id /\ q.next_sequence = r.next_sequence
        /\ q.queue = r.queue \cup {moved}
        /\ moved.stage = ExchangeProcess /\ moved.time = task.timing.process
        /\ moved.timing = task.timing /\ moved.event = task.event
  BY <1>1, <1>3, ScheduleMade
<1>5. Received(k, q, task, moved)
  BY <1>2, <1>4 DEF Received, Counting, Keeps
<1> QED BY <1>5

\* An event has been delivered.
Delivered(k, q, task) ==
  /\ Counting(q) /\ q.next_event_id = k.next_event_id /\ q.next_sequence = k.next_sequence
  /\ q.current_time = task.time /\ q.failures = k.failures
  /\ q.delivered_events = Append(k.delivered_events, task.event)
  /\ q.queue = k.queue \ {task}

LEMMA DeliverMade ==
  ASSUME NEW k, Counting(k), NEW task, task.stage # ExchangeReceive,
         NEW q, q = dispatch(k, task)
  PROVE  Delivered(k, q, task)
<1>0. PICK r : r = pop_next(k, task)
  OBVIOUS
<1> DEFINE list == Append(r.delivered_events, task.event)
<1>1. q = [r EXCEPT !.delivered_events = list]
  BY <1>0 DEF dispatch
<1>2. /\ Counting(r) /\ r.queue = k.queue \ {task} /\ r.current_time = task.time
      /\ r.delivered_events = k.delivered_events /\ r.failures = k.failures
      /\ r.next_event_id = k.next_event_id /\ r.next_sequence = k.next_sequence
  BY <1>0 DEF pop_next, KernelShape, Counting
<1>3. list = Append(k.delivered_events, task.event)
  BY <1>2
<1> HIDE DEF list
<1>4. /\ KernelShape(q) /\ q.next_event_id = r.next_event_id /\ q.next_sequence = r.next_sequence
      /\ q.current_time = r.current_time /\ q.failures = r.failures
      /\ q.delivered_events = list /\ q.queue = r.queue
  BY <1>1, <1>2 DEF KernelShape, Counting
<1> QED BY <1>2, <1>3, <1>4 DEF Delivered, Counting

\* The failure that process_exchange records of a command.
FailureOf(task, s) ==
  [command |-> task.event.payload, available |-> task.timing.available, current_state |-> s]

\* A command has been processed: its replies are tasks t, and a failure may have
\* been recorded.
Handled(k, q, task, t, replies, failures) ==
  /\ KernelShape(q) /\ q.current_time = task.time /\ q.delivered_events = k.delivered_events
  /\ \/ failures = <<>> /\ q.failures = k.failures
     \/ \E s : failures = <<s>> /\ q.failures = Append(k.failures, FailureOf(task, s))
  /\ q.queue = (k.queue \ {task}) \cup {t[i] : i \in 1..Len(replies)}
  /\ Numbered(k, q, t, Len(replies))
  /\ \A i \in 1..Len(replies) :
       Carries(t[i], replies[i], task.timing.available, ObserverAvailable, NoTiming)

LEMMA EmissionsMade ==
  ASSUME NEW k, Counting(k), k.current_time \in Int, ~k.thrown, NEW replies,
         Len(replies) \in Nat, NEW available \in Int,
         NEW q, q = Emissions(k, replies, available)[Len(replies)], ~q.thrown
  PROVE  \E t : Sends(k, q, t, Len(replies), replies, [i \in 1..Len(replies) |-> available],
                      ObserverAvailable, [i \in 1..Len(replies) |-> NoTiming])
<1>1. PICK g : Emits(g, k, replies, available, Len(replies))
  BY EmitsExists
<1> DEFINE f == CHOOSE f : Emits(f, k, replies, available, Len(replies))
           n == Len(replies)
           times == [i \in 1..n |-> available]
           timings == [i \in 1..n |-> NoTiming]
<1>2. Emits(f, k, replies, available, Len(replies)) /\ Emissions(k, replies, available) = f
  BY <1>1, Zenon DEF Emissions, Emits
<1> HIDE DEF f
<1>3. f[0] = k
  BY <1>2 DEF Emits
<1>4. \A i \in 1..n : f[i] = Generate(f[i - 1], replies[i], times[i], ObserverAvailable, timings[i])
  BY <1>2 DEF Emits
<1>5. (\A i \in 1..n : times[i] \in Int) /\ q = f[n] /\ n \in Nat
  BY <1>2
<1> HIDE DEF times, timings, n
<1>6. \E t : Sends(k, f[n], t, n, replies, times, ObserverAvailable, timings)
  BY <1>3, <1>4, <1>5, GenerateAll
<1> QED BY <1>5, <1>6 DEF times, timings, n

LEMMA ProcessMade ==
  ASSUME NEW k, Counting(k), Listed(k.failures), NEW task, task.time \in Int,
         task.timing.available \in Int, NEW replies, Len(replies) \in Nat,
         NEW failures, failures = <<>> \/ \E s : failures = <<s>>,
         NEW q, q = process_exchange(k, task, replies, failures), ~q.thrown
  PROVE  \E t : Handled(k, q, task, t, replies, failures)
<1>0. PICK r : r = pop_next(k, task)
  OBVIOUS
<1> DEFINE e == Emissions(r, replies, task.timing.available)[Len(replies)]
           new == [i \in DOMAIN failures |->
                     [command |-> task.event.payload, available |-> task.timing.available,
                      current_state |-> failures[i]]]
           list == e.failures \o new
           n == Len(replies)
<1>1. /\ Counting(r) /\ r.queue = k.queue \ {task} /\ r.current_time = task.time /\ ~r.thrown
      /\ r.delivered_events = k.delivered_events /\ r.failures = k.failures
      /\ r.next_event_id = k.next_event_id /\ r.next_sequence = k.next_sequence
  BY <1>0 DEF pop_next, KernelShape, Counting
<1>2. q = IF e.thrown THEN e ELSE [e EXCEPT !.failures = list]
  BY <1>0 DEF process_exchange
<1>3. ~e.thrown
  BY <1>2
<1>4. PICK t : Sends(r, e, t, n, replies, [i \in 1..n |-> task.timing.available],
                     ObserverAvailable, [i \in 1..n |-> NoTiming])
  <2> HIDE DEF e
  <2>1. e = Emissions(r, replies, task.timing.available)[Len(replies)]
    BY DEF e
  <2> QED BY <1>1, <1>3, <2>1, EmissionsMade
<1> HIDE DEF e
<1>5. /\ KernelShape(e) /\ e.delivered_events = k.delivered_events /\ e.failures = k.failures
      /\ e.current_time = task.time /\ e.queue = (k.queue \ {task}) \cup {t[i] : i \in 1..n}
      /\ Numbered(r, e, t, n)
  BY <1>1, <1>4 DEF Sends, Batch, Keeps
<1>6. \/ failures = <<>> /\ list = k.failures
      \/ \E s : failures = <<s>> /\ list = Append(k.failures, FailureOf(task, s))
  <2>0. PICK S : k.failures \in Seq(S)
    BY DEF Listed
  <2>1. CASE failures = <<>>
    <3>1. new = <<>>
      BY <2>1
    <3> HIDE DEF new
    <3> QED BY <1>5, <2>0, <2>1, <3>1
  <2>2. CASE \E s : failures = <<s>>
    <3>1. PICK s : failures = <<s>>
      BY <2>2
    <3> DEFINE failure == FailureOf(task, s)
    <3>2. new = <<failure>>
      BY <3>1 DEF FailureOf
    <3> HIDE DEF new, failure
    <3>3. k.failures \in Seq(S \cup {failure}) /\ <<failure>> \in Seq(S \cup {failure})
      BY <2>0
    <3>4. k.failures \o <<failure>> = Append(k.failures, failure)
      BY <3>3
    <3>5. list = Append(k.failures, failure)
      BY <1>5, <3>2, <3>4
    <3> QED BY <3>1, <3>5 DEF failure
  <2> QED BY <2>1, <2>2
<1> HIDE DEF list
<1>7. /\ KernelShape(q) /\ q.current_time = e.current_time /\ q.queue = e.queue
      /\ q.delivered_events = e.delivered_events /\ q.failures = list
      /\ q.next_event_id = e.next_event_id /\ q.next_sequence = e.next_sequence
  BY <1>2, <1>3, <1>5 DEF KernelShape
<1>8. Numbered(k, q, t, n)
  BY <1>1, <1>5, <1>7 DEF Numbered, Counting
<1>9. \A i \in 1..n : Carries(t[i], replies[i], task.timing.available, ObserverAvailable, NoTiming)
  BY <1>4 DEF Sends
<1>10. Handled(k, q, task, t, replies, failures)
  BY <1>5, <1>6, <1>7, <1>8, <1>9 DEF Handled
<1> QED BY <1>10

\* The commands of a decision have been scheduled.
LEMMA ScheduledMade ==
  ASSUME Counting(kernel), kernel.current_time \in Int, NEW commands, Len(commands) \in Nat,
         NEW timings, \A i \in 1..Len(commands) : timings[i].receive \in Int,
         NEW q, q = ScheduledCommands(commands, timings), ~q.thrown
  PROVE  \E t : Sends(kernel, q, t, Len(commands), commands,
                      [i \in 1..Len(commands) |-> timings[i].receive], ExchangeReceive, timings)
<1> DEFINE n == Len(commands)
           times == [i \in 1..n |-> timings[i].receive]
           k == Call(kernel)
<1>1. PICK f : /\ f[0] = Call(kernel)
               /\ \A i \in 1..Len(commands) :
                    f[i] = Generate(f[i - 1], commands[i], timings[i].receive, ExchangeReceive, timings[i])
               /\ ScheduledCommands(commands, timings) = f[Len(commands)]
  BY ScheduledSteps
<1>2. /\ Counting(k) /\ ~k.thrown /\ k.queue = kernel.queue
      /\ k.current_time = kernel.current_time
      /\ k.delivered_events = kernel.delivered_events /\ k.failures = kernel.failures
      /\ k.next_event_id = kernel.next_event_id /\ k.next_sequence = kernel.next_sequence
  BY CallCounts
<1>3. f[0] = k /\ q = f[n] /\ n \in Nat
  BY <1>1
<1>4. \A i \in 1..n : f[i] = Generate(f[i - 1], commands[i], times[i], ExchangeReceive, timings[i])
  BY <1>1
<1>5. \A i \in 1..n : times[i] \in Int
  OBVIOUS
<1> HIDE DEF n, times, k
<1>6. PICK t : Sends(k, f[n], t, n, commands, times, ExchangeReceive, timings)
  BY <1>2, <1>3, <1>4, <1>5, GenerateAll
<1>7. Sends(kernel, q, t, n, commands, times, ExchangeReceive, timings)
  BY <1>2, <1>3, <1>6 DEF Sends, Batch, Keeps, Numbered, Counting
<1> QED BY <1>7 DEF n, times

-----------------------------------------------------------------------------
(***************************************************************************)
(* Times and numbers stay sound.                                           *)
(***************************************************************************)

LEMMA FixedDelay ==
  ASSUME FixedReplies
  PROVE  ReplyDelay \in Nat /\ ReplyDelays = {ReplyDelay}
BY KernelAssumption DEF FixedReplies, ReplyDelay

LEMMA TimeIsNat ==
  Time \subseteq Nat
BY KernelAssumption DEF Time

LEMMA StagesDiffer ==
  /\ ExchangeReceive # ExchangeProcess /\ ObserverAvailable # System
  /\ ObserverAvailable \notin {ExchangeReceive, ExchangeProcess}
  /\ System \notin {ExchangeReceive, ExchangeProcess}
BY DEF ExchangeReceive, ExchangeProcess, ObserverAvailable, System

\* Times are numbers.
LEMMA TimesAreInts ==
  ASSUME ClockSound, FixedReplies
  PROVE  /\ kernel.current_time \in Int /\ clock \in Nat /\ ReplyDelay \in Nat
         /\ \A u \in kernel.queue : u.time \in Nat /\ kernel.current_time <= u.time
         /\ \A u \in EventTasks : u \in kernel.queue
<1>1. ReplyDelay \in Nat
  BY FixedDelay
<1>2. /\ kernel.current_time \in Int /\ clock \in Time
      /\ \A u \in kernel.queue : u.time \in Time /\ kernel.current_time <= u.time
  BY DEF ClockSound
<1>3. \A u \in EventTasks : u \in kernel.queue
  BY DEF EventTasks
<1> QED BY <1>1, <1>2, <1>3, TimeIsNat

\* The task at the top of the queue is the first in time.
LEMMA TopFirst ==
  ASSUME ClockSound, NEW task \in kernel.queue, IsTop(kernel, task)
  PROVE  \A u \in kernel.queue : task.time <= u.time
<1>1. \A u \in kernel.queue : u.time \in Nat
  <2>1. \A u \in kernel.queue : u.time \in Time
    BY DEF ClockSound
  <2> QED BY <2>1, TimeIsNat
<1>2. ASSUME NEW u \in kernel.queue, u # task PROVE task.time <= u.time
  <2>1. scheduled_task_less(task, u)
    BY <1>2 DEF IsTop
  <2> QED BY <1>1, <2>1 DEF scheduled_task_less
<1> QED BY <1>1, <1>2

\* Kernel and state agree on what has been applied when the events under way,
\* and the counters, are those of before.
LEMMA NumbersQuiet ==
  ASSUME NumbersSound, EventTasks' = EventTasks, Waiting' = Waiting,
         \A i \in Waiting : kernel'.delivered_events[i] = kernel.delivered_events[i],
         state'.events = state.events, NEW t, Numbered(kernel, kernel', t, 0)
  PROVE  Awaited' = Awaited /\ NumbersSound'
<1>1. Awaited' = Awaited
  BY DEF Awaited
<1>2. /\ \A x \in Nat : Below(x, kernel.next_event_id) => Below(x, kernel'.next_event_id)
      /\ \A x \in Nat : Below(x, kernel.next_sequence) => Below(x, kernel'.next_sequence)
      /\ kernel'.next_event_id \in Nat /\ kernel'.next_sequence \in Nat
  BY DEF Numbered, Counting
<1>3. /\ \A task \in EventTasks : Below(task.sequence, kernel'.next_sequence)
      /\ \A e \in Awaited : Below(e.id, kernel'.next_event_id)
      /\ \A x \in state.events : Below(x, kernel'.next_event_id)
  BY <1>2 DEF NumbersSound, Below
<1> QED BY <1>1, <1>2, <1>3 DEF NumbersSound

\* Tasks of events come into the queue, after all others.
LEMMA NumbersGrow ==
  ASSUME NumbersSound, NEW t, NEW n \in Nat, Numbered(kernel, kernel', t, n),
         EventTasks' = EventTasks \cup {t[i] : i \in 1..n}, Waiting' = Waiting,
         \A i \in Waiting : kernel'.delivered_events[i] = kernel.delivered_events[i],
         state'.events = state.events,
         NEW time \in Int, \A i \in 1..n : t[i].time = time,
         \A u \in EventTasks : u.time \in Int /\ u.time <= time,
         \A i \in 1..n : t[i].stage = System => n = 1 /\ EventTasks = {},
         n # 0 => \A u \in EventTasks : u.stage # System
  PROVE  Awaited' = Awaited \cup {t[i].event : i \in 1..n} /\ NumbersSound'
<1>1. Awaited' = Awaited \cup {t[i].event : i \in 1..n}
  BY DEF Awaited
<1>2. /\ \A x \in Nat : Below(x, kernel.next_event_id) => Below(x, kernel'.next_event_id)
      /\ \A x \in Nat : Below(x, kernel.next_sequence) => Below(x, kernel'.next_sequence)
      /\ kernel'.next_event_id \in Nat /\ kernel'.next_sequence \in Nat
      /\ \A i \in 1..n :
           /\ t[i].event.id \in Nat /\ t[i].sequence \in Nat
           /\ Below(t[i].event.id, kernel'.next_event_id)
           /\ Below(t[i].sequence, kernel'.next_sequence)
           /\ \A x \in Nat : Below(x, kernel.next_event_id) => x < t[i].event.id
           /\ \A x \in Nat : Below(x, kernel.next_sequence) => x < t[i].sequence
      /\ \A i, j \in 1..n : i < j => t[i].event.id < t[j].event.id /\ t[i].sequence < t[j].sequence
  BY DEF Numbered, Counting, Below
<1>3. /\ \A task \in EventTasks : task.sequence \in Nat /\ Below(task.sequence, kernel.next_sequence)
      /\ \A e \in Awaited : e.id \in Nat /\ Below(e.id, kernel.next_event_id)
      /\ \A x \in state.events : x \in Nat /\ Below(x, kernel.next_event_id)
  BY DEF NumbersSound, Below
<1>4. \A u \in EventTasks : u.event \in Awaited
  BY DEF Awaited
<1> HIDE DEF Below
<1>5. /\ \A task \in EventTasks' : Below(task.sequence, kernel'.next_sequence)
      /\ \A e \in Awaited' : Below(e.id, kernel'.next_event_id)
      /\ \A x \in state'.events : Below(x, kernel'.next_event_id)
  BY <1>1, <1>2, <1>3
<1>6. \A x \in state'.events : \A e \in Awaited' : x < e.id
  BY <1>1, <1>2, <1>3 DEF NumbersSound
<1>7. \A i \in Waiting' : \A task \in EventTasks' : kernel'.delivered_events[i].id < task.event.id
  <2>1. \A i \in Waiting : kernel.delivered_events[i] \in Awaited
    BY DEF Awaited
  <2> QED BY <1>2, <1>3, <2>1 DEF NumbersSound
<1>8. ASSUME NEW u \in EventTasks', NEW v \in EventTasks'
      PROVE  u = v \/ Precedes(u, v) \/ Precedes(v, u)
  <2>1. CASE u \in EventTasks /\ v \in EventTasks
    BY <2>1 DEF NumbersSound
  <2>2. ASSUME NEW w \in EventTasks, NEW i \in 1..n PROVE Precedes(w, t[i])
    BY <1>2, <1>3, <1>4, <2>2 DEF Precedes
  <2>3. ASSUME NEW i \in 1..n, NEW j \in 1..n, i < j PROVE Precedes(t[i], t[j])
    BY <1>2, <2>3 DEF Precedes
  <2>4. CASE u \in {t[i] : i \in 1..n} /\ v \in {t[i] : i \in 1..n}
    <3>1. PICK i \in 1..n, j \in 1..n : u = t[i] /\ v = t[j]
      BY <2>4
    <3>2. i = j \/ i < j \/ j < i
      OBVIOUS
    <3> QED BY <2>3, <3>1, <3>2
  <2> QED BY <2>1, <2>2, <2>4
<1>9. ASSUME NEW u \in EventTasks', u.stage = System PROVE EventTasks' = {u}
  <2>1. CASE u \in EventTasks
    <3>1. n = 0
      BY <1>9, <2>1
    <3>2. EventTasks' = EventTasks
      BY <3>1
    <3> QED BY <1>9, <2>1, <3>2 DEF NumbersSound
  <2>2. CASE u \notin EventTasks
    <3>1. PICK i \in 1..n : u = t[i]
      BY <2>2
    <3>2. n = 1 /\ EventTasks = {}
      BY <1>9, <3>1
    <3>3. \A j \in 1..n : j = 1
      BY <3>2
    <3> QED BY <3>1, <3>2, <3>3
  <2> QED BY <2>1, <2>2
<1>10. \A i, j \in Waiting' : i < j => kernel'.delivered_events[i].id < kernel'.delivered_events[j].id
  BY DEF NumbersSound
<1> QED BY <1>1, <1>2, <1>5, <1>6, <1>7, <1>8, <1>9, <1>10 DEF NumbersSound

\* A command reaches the exchange.
LEMMA ReceivedViews ==
  ASSUME NEW task \in kernel.queue, task.stage = ExchangeReceive, NEW moved,
         Received(kernel, kernel', task, moved), cursor' = cursor
  PROVE  /\ EventTasks' = EventTasks /\ Waiting' = Waiting /\ task \in Sent
         /\ Sent' = (Sent \ {task}) \cup {moved}
<1>1. IsCommand(task) /\ IsCommand(moved)
  BY DEF IsCommand, Received
<1>2. EventTasks' = EventTasks
  BY <1>1 DEF EventTasks, Received
<1>3. Sent' = (Sent \ {task}) \cup {moved} /\ task \in Sent
  BY <1>1 DEF Sent, Received
<1> QED BY <1>2, <1>3 DEF Waiting, Received

LEMMA ReceiveTimed ==
  ASSUME ClockSound, NumbersSound, FixedReplies, NEW task \in kernel.queue,
         IsTop(kernel, task), task.time <= clock, task.stage = ExchangeReceive, NEW moved,
         Received(kernel, kernel', task, moved), cursor' = cursor, clock' = clock,
         state' = state
  PROVE  Awaited' = Awaited /\ ClockSound' /\ NumbersSound'
<1>1. /\ EventTasks' = EventTasks /\ Waiting' = Waiting /\ task \in Sent
      /\ Sent' = (Sent \ {task}) \cup {moved}
  BY ReceivedViews
<1>2. \A u \in kernel.queue : task.time <= u.time
  BY TopFirst
<1>3. /\ kernel'.current_time = task.time /\ kernel'.queue = (kernel.queue \ {task}) \cup {moved}
      /\ kernel'.delivered_events = kernel.delivered_events
      /\ moved.time = task.timing.process /\ moved.timing = task.timing
      /\ moved.stage = ExchangeProcess
  BY DEF Received
<1>4. OnItsWay(task) /\ task.time \in Time /\ kernel.current_time <= task.time
  BY <1>1 DEF ClockSound
<1>5. moved.time \in Time /\ task.time <= moved.time /\ OnItsWay(moved)
  BY <1>3, <1>4, StagesDiffer DEF OnItsWay, Timing
<1>6. /\ task.time \in Int /\ kernel.current_time \in Int /\ ReplyDelay \in Int
      /\ clock \in Time /\ \A u \in EventTasks : u \in kernel.queue /\ u.time \in Int
  <2>1. clock \in Time
    BY DEF ClockSound
  <2> QED BY <2>1, TimesAreInts
<1>7. ClockSound'
  <2>1. \A u \in kernel'.queue : u.time \in Time /\ kernel'.current_time <= u.time
    BY <1>2, <1>3, <1>5 DEF ClockSound
  <2>2. \A u \in Sent' : OnItsWay(u)
    BY <1>1, <1>5 DEF ClockSound
  <2>3. \A u \in EventTasks' :
          /\ u.event.available = u.time
          /\ u.stage = ObserverAvailable => u.time <= kernel'.current_time + ReplyDelay
          /\ u.stage = System => u.time <= clock'
    BY <1>1, <1>3, <1>4, <1>6 DEF ClockSound
  <2>4. \A i \in Waiting' : /\ kernel'.delivered_events[i].available \in Int
                            /\ kernel'.delivered_events[i].available <= kernel'.current_time
    BY <1>1, <1>3, <1>4, <1>6 DEF ClockSound
  <2> QED BY <1>3, <1>6, <2>1, <2>2, <2>3, <2>4 DEF ClockSound
<1>8. Numbered(kernel, kernel', <<>>, 0)
  BY DEF Numbered, Received
<1> QED BY <1>1, <1>3, <1>7, <1>8, NumbersQuiet

\* An event is delivered.
LEMMA DeliveredViews ==
  ASSUME Shapes, NEW task \in kernel.queue, ~IsCommand(task),
         Delivered(kernel, kernel', task), cursor' = cursor
  PROVE  /\ task \in EventTasks /\ EventTasks' = EventTasks \ {task} /\ Sent' = Sent
         /\ Waiting' = Waiting \cup {Len(kernel.delivered_events) + 1}
         /\ Len(kernel.delivered_events) \in Nat /\ cursor \in 0..Len(kernel.delivered_events)
         /\ Waiting \subseteq 1..Len(kernel.delivered_events)
         /\ Len(kernel'.delivered_events) = Len(kernel.delivered_events) + 1
         /\ \A i \in 1..Len(kernel.delivered_events) :
              kernel'.delivered_events[i] = kernel.delivered_events[i]
         /\ kernel'.delivered_events[Len(kernel.delivered_events) + 1] = task.event
         /\ Awaited' = Awaited
<1> DEFINE d == kernel.delivered_events
           e == kernel'.delivered_events
           n == Len(kernel.delivered_events) + 1
<1>1. Listed(d) /\ e = Append(d, task.event) /\ cursor \in 0..Len(d)
  BY DEF Shapes, Delivered
<1>2. /\ Len(d) \in Nat /\ Len(e) = Len(d) + 1 /\ e[Len(d) + 1] = task.event
      /\ \A i \in 1..Len(d) : e[i] = d[i]
  BY <1>1, ListedAppend
<1>3. task \in EventTasks /\ EventTasks' = EventTasks \ {task} /\ Sent' = Sent
  BY DEF EventTasks, Sent, Delivered
<1>4. Waiting' = Waiting \cup {n} /\ Waiting \subseteq 1..Len(d) /\ n \notin Waiting
  BY <1>1, <1>2 DEF Waiting
<1>5. Awaited' = Awaited
  <2>1. {u.event : u \in EventTasks} = {u.event : u \in EventTasks'} \cup {task.event}
    BY <1>3
  <2>2. {e[i] : i \in Waiting'} = {d[i] : i \in Waiting} \cup {task.event}
    BY <1>2, <1>4
  <2> HIDE DEF d, e
  <2> QED BY <2>1, <2>2 DEF Awaited, d, e
<1> QED BY <1>1, <1>2, <1>3, <1>4, <1>5

LEMMA DeliverTimed ==
  ASSUME Shapes, ClockSound, NumbersSound, FixedReplies, NEW task \in kernel.queue,
         IsTop(kernel, task), task.time <= clock, ~IsCommand(task),
         Delivered(kernel, kernel', task), cursor' = cursor, clock' = clock, state' = state
  PROVE  ClockSound' /\ NumbersSound'
<1> DEFINE n == Len(kernel.delivered_events) + 1
<1>1. /\ task \in EventTasks /\ EventTasks' = EventTasks \ {task} /\ Sent' = Sent
      /\ Waiting' = Waiting \cup {n} /\ Waiting \subseteq 1..Len(kernel.delivered_events)
      /\ Len(kernel.delivered_events) \in Nat
      /\ \A i \in Waiting : kernel'.delivered_events[i] = kernel.delivered_events[i]
      /\ kernel'.delivered_events[n] = task.event
      /\ Awaited' = Awaited
  BY DeliveredViews
<1>2. \A u \in kernel.queue : task.time <= u.time
  BY TopFirst
<1>3. /\ kernel'.current_time = task.time /\ kernel'.queue = kernel.queue \ {task}
      /\ kernel'.next_event_id = kernel.next_event_id
      /\ kernel'.next_sequence = kernel.next_sequence
  BY DEF Delivered
<1>4. task.time \in Time /\ kernel.current_time <= task.time
  BY DEF ClockSound
<1>6. /\ task.time \in Int /\ kernel.current_time \in Int /\ ReplyDelay \in Int
      /\ clock \in Time /\ \A u \in EventTasks : u \in kernel.queue /\ u.time \in Int
  <2>1. clock \in Time
    BY DEF ClockSound
  <2> QED BY <2>1, TimesAreInts
<1>7. ClockSound'
  <2>1. \A u \in kernel'.queue : u.time \in Time /\ kernel'.current_time <= u.time
    BY <1>2, <1>3 DEF ClockSound
  <2>2. \A u \in Sent' : OnItsWay(u)
    BY <1>1 DEF ClockSound
  <2>3. \A u \in EventTasks' :
          /\ u.event.available = u.time
          /\ u.stage = ObserverAvailable => u.time <= kernel'.current_time + ReplyDelay
          /\ u.stage = System => u.time <= clock'
    BY <1>1, <1>3, <1>4, <1>6 DEF ClockSound
  <2>4. \A i \in Waiting' : /\ kernel'.delivered_events[i].available \in Int
                            /\ kernel'.delivered_events[i].available <= kernel'.current_time
    <3>1. task.event.available = task.time
      BY <1>1 DEF ClockSound
    <3> HIDE DEF n
    <3> QED BY <1>1, <1>3, <1>4, <1>6, <3>1 DEF ClockSound
  <2> QED BY <1>3, <1>6, <2>1, <2>2, <2>3, <2>4 DEF ClockSound
<1>8. ASSUME NEW u \in EventTasks' PROVE task.event.id < u.event.id
  <2>1. u \in EventTasks /\ u # task
    BY <1>1
  <2>2. CASE Precedes(task, u)
    BY <2>2 DEF Precedes
  <2>3. CASE Precedes(u, task)
    <3>1. u.time = task.time /\ u.sequence < task.sequence
      BY <1>2, <1>6, <2>1, <2>3 DEF Precedes
    <3>2. u.sequence \in Nat /\ task.sequence \in Nat
      BY <1>1, <2>1 DEF NumbersSound, Below
    <3>3. scheduled_task_less(task, u)
      BY <1>6, <2>1 DEF IsTop
    <3>4. u.stage = task.stage
      <4>1. u.stage \in {ObserverAvailable, System} /\ task.stage \in {ObserverAvailable, System}
        BY <1>6, <2>1 DEF Shapes, TaskSound, EventTasks
      <4>2. u.stage # System /\ task.stage # System
        BY <1>1, <2>1 DEF NumbersSound
      <4> QED BY <4>1, <4>2
    <3> QED BY <1>6, <3>1, <3>2, <3>3, <3>4
            DEF scheduled_task_less, ObserverAvailable, System, Shapes, TaskSound, EventTasks
  <2> QED BY <1>1, <2>1, <2>2, <2>3 DEF NumbersSound
<1>9. /\ \A i, j \in Waiting' : i < j => kernel'.delivered_events[i].id < kernel'.delivered_events[j].id
      /\ \A i \in Waiting' : \A u \in EventTasks' : kernel'.delivered_events[i].id < u.event.id
  <2>1. \A i \in Waiting : i < n
    BY <1>1
  <2>2. n \in Nat
    BY <1>1
  <2>3. \A i \in Waiting' : i = n \/ i \in Waiting
    BY <1>1
  <2>4. \A i \in Waiting : kernel.delivered_events[i].id < task.event.id
    BY <1>1 DEF NumbersSound
  <2> HIDE DEF n
  <2>5. ASSUME NEW i \in Waiting', NEW j \in Waiting', i < j
        PROVE  kernel'.delivered_events[i].id < kernel'.delivered_events[j].id
    <3>1. i \in Waiting
      BY <1>1, <2>1, <2>2, <2>3, <2>5
    <3> QED BY <1>1, <2>3, <2>4, <2>5, <3>1 DEF NumbersSound
  <2>6. \A i \in Waiting' : \A u \in EventTasks' : kernel'.delivered_events[i].id < u.event.id
    BY <1>1, <1>8, <2>3 DEF NumbersSound
  <2> QED BY <2>5, <2>6
<1>10. NumbersSound'
  <2>1. \A u \in EventTasks' : u \in EventTasks
    BY <1>1
  <2>2. \A u \in EventTasks' : u.stage = System => EventTasks' = {u}
    BY <1>1 DEF NumbersSound
  <2> QED BY <1>1, <1>3, <1>9, <2>1, <2>2 DEF NumbersSound
<1> QED BY <1>7, <1>10

-----------------------------------------------------------------------------
(***************************************************************************)
(* What a step does not touch stays sound.                                 *)
(***************************************************************************)

\* The child of client c, its order and the events about it stay what they are.
Kept(c) ==
  /\ state'.children[c] = state.children[c] /\ exchange'.orders[c] = exchange.orders[c]
  /\ About(Awaited, c)' = About(Awaited, c)

LEMMA ChildKept ==
  ASSUME NEW c \in ClientIds, ChildSound(c), Kept(c),
         SentAbout(c) # {} => SentAbout(c)' # {}, FailedAbout(c) # {} => FailedAbout(c)' # {}
  PROVE  ChildSound(c)'
<1>1. (Has(c)' <=> Has(c)) /\ exchange'.orders[c] = exchange.orders[c]
  BY DEF Has, Kept
<1>2. state'.children[c] = state.children[c] /\ About(Awaited, c)' = About(Awaited, c)
  BY DEF Kept
<1> QED BY <1>1, <1>2 DEF ChildSound

\* A command whose clients are left alone; it may have become another task.
LEMMA CommandKept ==
  ASSUME NEW task, CommandSound(task), NEW moved, moved.event = task.event,
         task.event.payload.kind \in {"Submit", "Cancel", "Replace", "Take"},
         \A c \in Names(task.event.payload) :
           /\ Kept(c) /\ FailedAbout(c)' \subseteq FailedAbout(c)
           /\ SentAbout(c) = {task} => SentAbout(c)' = {moved}
  PROVE  CommandSound(moved)'
<1> DEFINE p == task.event.payload
<1>1. ASSUME p.kind \in {"Cancel", "Replace"}, Targets(task, p.client)
      PROVE  Targets(moved, p.client)'
  <2>1. p.client \in Names(p)
    BY <1>1 DEF Names, ChildEvents
  <2>2. /\ Kept(p.client) /\ FailedAbout(p.client)' \subseteq FailedAbout(p.client)
        /\ SentAbout(p.client) = {task} => SentAbout(p.client)' = {moved}
    BY <2>1
  <2> QED BY <1>1, <2>2 DEF Targets, Kept, Knows, knows_client_order_id
<1>2. Opens(p) \subseteq Names(p)
  BY OpensNames
<1>3. p.kind \in {"Cancel", "Replace"} => p.client \in Names(p)
  BY DEF Names, ChildEvents
<1>4. \A c \in Names(p) : state'.children[c] = state.children[c]
  BY DEF Kept
<1>5. moved.event.payload = p
  OBVIOUS
<1>6. /\ p.kind \in {"Submit", "Replace"} => p.quantity \in 1..ParentQuantity
      /\ \A c \in Opens(p) : state.children[c] = NewChild(p.quantity)
      /\ p.kind = "Cancel" => state.children[p.client].cancel_pending /\ Targets(task, p.client)
      /\ p.kind = "Replace" => state.children[p.client].replace_pending /\ Targets(task, p.client)
  BY DEF CommandSound
<1> HIDE DEF p
<1> QED BY <1>1, <1>2, <1>3, <1>4, <1>5, <1>6 DEF CommandSound

\* A failure whose command's order is left alone.
LEMMA FailureKept ==
  ASSUME NEW i, FailureFits(i), kernel'.failures[i] = kernel.failures[i],
         NEW c, c = kernel.failures[i].command.client, Kept(c),
         SentAbout(c) = {} => SentAbout(c)' = {},
         FailedAbout(c) = {i} => FailedAbout(c)' = {i}
  PROVE  FailureFits(i)'
<1> DEFINE failure == kernel.failures[i]
<1>1. /\ state'.children[c] = state.children[c] /\ exchange'.orders[c] = exchange.orders[c]
      /\ About(Awaited, c)' = About(Awaited, c) /\ (Knows(c)' <=> Knows(c))
  BY DEF Kept, Knows, knows_client_order_id
<1>2. failure.command.kind = "Submit" \/ failure.current_state # NoState =>
        \A e \in About(Awaited, c) : e.available <= failure.available
  BY DEF FailureFits
<1>3. failure.command.kind # "Submit" =>
        /\ Knows(c) /\ SentAbout(c) = {} /\ FailedAbout(c) = {i}
        /\ failure.command.kind = "Cancel" => state.children[c].cancel_pending
        /\ failure.command.kind = "Replace" => state.children[c].replace_pending
        /\ exchange.orders[c].state \notin Closed
        /\ failure.current_state # NoState =>
             failure.current_state = exchange.orders[c].state
  BY DEF FailureFits
<1>4. kernel'.failures[i] = failure
  OBVIOUS
<1> HIDE DEF failure
<1>5. c = failure.command.client
  BY DEF failure
<1> QED BY <1>1, <1>2, <1>3, <1>4, <1>5 DEF FailureFits

\* Client c is left alone.
Untouched(c) == Kept(c) /\ SentAbout(c)' = SentAbout(c) /\ FailedAbout(c)' = FailedAbout(c)

\* The acknowledgements of the end of the order of client c come in time.
EndFits(c) ==
  \A e \in About(Awaited, c) : Closing(e.payload, c) =>
    \/ Asked(c) \/ e.available <= clock
    \/ /\ state.children[c].exchange_order_id = NoExchangeId
       /\ \A f \in About(Awaited, c) : Opening(f.payload, c) => f.available = e.available

LEMMA EventsAbout ==
  ASSUME NEW p, NEW c
  PROVE  Opening(p, c) \/ Closing(p, c) \/ Filling(p, c) => c \in Names(p)
BY DEF Opening, Closing, Filling, Names, ChildEvents

LEMMA EndsFit ==
  EndsInTime <=> \A c \in ClientIds : EndFits(c)
<1>1. \A c : \A e \in Awaited : Opening(e.payload, c) \/ Closing(e.payload, c) => e \in About(Awaited, c)
  BY EventsAbout DEF About
<1>2. \A c : About(Awaited, c) \subseteq Awaited
  BY DEF About
<1> QED BY <1>1, <1>2 DEF EndsInTime, EndFits

LEMMA AwaitedTimes ==
  ASSUME ClockSound, FixedReplies
  PROVE  \A e \in Awaited : e.available \in Int
<1>1. \A task \in EventTasks : task.event.available = task.time
  BY DEF ClockSound
<1>2. \A i \in Waiting : kernel.delivered_events[i].available \in Int
  BY DEF ClockSound
<1>3. \A task \in EventTasks : task.time \in Int
  BY TimesAreInts
<1> QED BY <1>1, <1>2, <1>3 DEF Awaited

\* A step that touches no clients but those of X: the others stay sound.
LEMMA Elsewhere ==
  ASSUME Shapes, ClockSound, FixedReplies, clock' \in Int, clock <= clock',
         CommandsSound, FailuresFit, ChildrenSound, EndsInTime,
         NEW X, \A c \in ClientIds \ X : Untouched(c),
         \A task \in Sent' :
           \/ task \in Sent /\ Names(task.event.payload) \cap X = {}
           \/ CommandSound(task)',
         \A i \in Failed' :
           \/ /\ i \in Failed /\ kernel'.failures[i] = kernel.failures[i]
              /\ kernel.failures[i].command.client \notin X
           \/ FailureFits(i)',
         \A c \in X \cap ClientIds : (Knows(c)' => ChildSound(c)') /\ EndFits(c)'
  PROVE  CommandsSound' /\ FailuresFit' /\ ChildrenSound' /\ EndsInTime'
<1>1. CommandsSound'
  <2>1. ASSUME NEW task \in Sent, task \in Sent', Names(task.event.payload) \cap X = {}
        PROVE  CommandSound(task)'
    <3>1. /\ task.event.payload \in Commands \cup {[kind |-> "Take"]}
          /\ Names(task.event.payload) \subseteq ClientIds
      BY SentNames
    <3>2. task.event.payload.kind \in {"Submit", "Cancel", "Replace", "Take"}
      BY <3>1, CommandNames
    <3>3. \A c \in Names(task.event.payload) : Untouched(c)
      BY <2>1, <3>1
    <3>4. CommandSound(task)
      BY DEF CommandsSound
    <3>5. \A c \in Names(task.event.payload) :
            /\ Kept(c) /\ FailedAbout(c)' \subseteq FailedAbout(c)
            /\ SentAbout(c) = {task} => SentAbout(c)' = {task}
      BY <3>3 DEF Untouched
    <3> QED BY <3>2, <3>4, <3>5, CommandKept
  <2> QED BY <2>1 DEF CommandsSound
<1>2. FailuresFit'
  <2>1. ASSUME NEW i \in Failed, kernel'.failures[i] = kernel.failures[i],
               kernel.failures[i].command.client \notin X
        PROVE  FailureFits(i)'
    <3>0. PICK c : c = kernel.failures[i].command.client
      OBVIOUS
    <3>1. c \in ClientIds
      <4>1. kernel.failures[i].command \in Commands
        BY FailedNames
      <4> QED BY <3>0, <4>1 DEF Commands, Submits, Cancels, Replaces
    <3>2. Untouched(c)
      BY <2>1, <3>0, <3>1
    <3>3. FailureFits(i)
      BY DEF FailuresFit
    <3>4. /\ Kept(c) /\ (SentAbout(c) = {} => SentAbout(c)' = {})
          /\ FailedAbout(c) = {i} => FailedAbout(c)' = {i}
      BY <3>2 DEF Untouched
    <3> QED BY <2>1, <3>0, <3>3, <3>4, FailureKept
  <2> QED BY <2>1 DEF FailuresFit
<1>3. ChildrenSound'
  <2>1. ASSUME NEW c \in ClientIds, c \notin X, Knows(c)' PROVE ChildSound(c)'
    <3>1. Untouched(c)
      BY <2>1
    <3>2. Kept(c) /\ SentAbout(c)' = SentAbout(c) /\ FailedAbout(c)' = FailedAbout(c)
      BY <3>1 DEF Untouched
    <3>3. Knows(c)
      BY <2>1, <3>2 DEF Kept, Knows, knows_client_order_id
    <3>4. ChildSound(c)
      BY <3>3 DEF ChildrenSound
    <3> QED BY <3>2, <3>4, ChildKept
  <2> QED BY <2>1 DEF ChildrenSound
<1>4. EndsInTime'
  <2>1. ASSUME NEW c \in ClientIds, c \notin X PROVE EndFits(c)'
    <3>1. Kept(c)
      BY <2>1 DEF Untouched
    <3>2. EndFits(c)
      BY EndsFit
    <3>3. \A e \in About(Awaited, c) : e.available \in Int
      BY AwaitedTimes DEF About
    <3>4. clock \in Int
      BY TimesAreInts
    <3>5. /\ state'.children[c] = state.children[c] /\ About(Awaited, c)' = About(Awaited, c)
      BY <3>1 DEF Kept
    <3> HIDE DEF EndFits
    <3> QED BY <3>2, <3>3, <3>4, <3>5 DEF EndFits, Asked
  <2>2. \A c \in ClientIds : EndFits(c)'
    BY <2>1
  <2>3. (EndsInTime <=> \A c \in ClientIds : EndFits(c))'
    BY EndsFit, PTL
  <2> QED BY <2>2, <2>3
<1> QED BY <1>1, <1>2, <1>3, <1>4

-----------------------------------------------------------------------------
(***************************************************************************)
(* The ledger when nothing is booked.                                      *)
(***************************************************************************)

\* The parent order is neither completed explicitly nor about to be.
Idle == ~state.terminal_applied /\ ~state.terminal_pending

LEMMA BookedSame ==
  ASSUME NEW s, NEW q,
         \A c \in ClientIds :
           \/ q.children[c] = s.children[c]
           \/ /\ q.children[c] = NoChild \/ q.children[c].cum = 0
              /\ s.children[c] = NoChild \/ s.children[c].cum = 0
           \/ /\ q.children[c] # NoChild /\ s.children[c] # NoChild
              /\ q.children[c].cum = s.children[c].cum
  PROVE  BookedLots(q) = BookedLots(s) /\ Booked(q) = Booked(s)
<1>1. \A c \in ClientIds : BookedLots(q)[c] = BookedLots(s)[c]
  BY DEF BookedLots, knows_client_order_id
<1>2. BookedLots(q) = BookedLots(s)
  BY <1>1 DEF BookedLots
<1> QED BY <1>2 DEF Booked

LEMMA LedgerIdle ==
  ASSUME state'.terminal_applied = FALSE, state'.terminal_pending = FALSE,
         state'.filled = Booked(state'), Completions' = {},
         \A e \in Awaited' : e.payload.kind # "TerminalCompletion"
  PROVE  LedgerSound'
BY DEF LedgerSound

LEMMA LedgerPending ==
  ASSUME state'.terminal_applied = FALSE, state'.terminal_pending = TRUE,
         state'.filled = Booked(state'), Over', Completions' \subseteq Waiting',
         NEW e, Awaited' = {e},
         e.payload = [kind |-> "TerminalCompletion", quantity |-> Remaining(state')]
  PROVE  LedgerSound'
<1>1. e \in Awaited'
  OBVIOUS
<1> QED BY <1>1 DEF LedgerSound

LEMMA LedgerKept ==
  ASSUME LedgerSound, state'.terminal_applied = state.terminal_applied,
         state'.terminal_pending = state.terminal_pending, state'.filled = state.filled,
         Booked(state') = Booked(state),
         kernel'.delivered_events = kernel.delivered_events, cursor' = cursor,
         Awaited' = Awaited, Over => Over'
  PROVE  LedgerSound'
<1>1. Completions' = Completions /\ Waiting' = Waiting
  BY DEF Completions, Waiting
<1>2. Remaining(state') = Remaining(state)
  BY DEF Remaining
<1> QED BY <1>1, <1>2 DEF LedgerSound

LEMMA OverKept ==
  ASSUME Over, Live' \subseteq Live,
         \A task \in Sent' : task \in Sent \/ task.event.payload.kind = "Take"
                             \/ \E u \in Sent : u.event = task.event,
         \A c \in ClientIds : Knows(c)' =>
           \/ Knows(c) /\ state'.children[c].state = state.children[c].state
           \/ state'.children[c].state \notin {"PendingNew"} \cup ActiveStates
  PROVE  Over'
<1>1. Live' = {}
  BY DEF Over
<1>2. \A task \in Sent' : task.event.payload.kind = "Take"
  BY DEF Over
<1>3. \A c \in ClientIds : Knows(c)' => state'.children[c].state \notin {"PendingNew"} \cup ActiveStates
  BY DEF Over
<1> QED BY <1>1, <1>2, <1>3 DEF Over

\* Once the explicit completion is on its way or applied, only other
\* participants' commands travel.
LEMMA IdleOrOver ==
  ASSUME LedgerSound
  PROVE  Idle \/ Over
BY DEF LedgerSound, Idle

-----------------------------------------------------------------------------
(***************************************************************************)
(* Steps that only move time and messages.                                 *)
(***************************************************************************)

LEMMA TouchedNames ==
  ASSUME NEW task, NEW c
  PROVE  task \in SentAbout(c) <=> task \in Sent /\ c \in Names(task.event.payload)
BY DEF SentAbout

\* Children, orders and failures, when nothing about them changes.
LEMMA QuietClients ==
  ASSUME Shapes, ClockSound, FixedReplies, clock' \in Int, clock <= clock',
         CommandsSound, FailuresFit, ChildrenSound, EndsInTime,
         state'.children = state.children, exchange'.orders = exchange.orders,
         \A c \in ClientIds : About(Awaited, c)' = About(Awaited, c),
         \A task \in Sent : task \in Sent' \/ task.event.payload.kind = "Take",
         \A task \in Sent' : task \in Sent \/ task.event.payload.kind = "Take",
         kernel'.failures = kernel.failures, routed' = routed
  PROVE  CommandsSound' /\ FailuresFit' /\ ChildrenSound' /\ EndsInTime'
<1>1. Failed' = Failed
  BY DEF Failed
<1>2. ASSUME NEW c \in ClientIds PROVE Untouched(c)
  <2>1. \A task : task.event.payload.kind = "Take" => c \notin Names(task.event.payload)
    BY DEF Names, ChildEvents
  <2>2. SentAbout(c)' = SentAbout(c)
    BY <2>1 DEF SentAbout
  <2>3. FailedAbout(c)' = FailedAbout(c)
    BY <1>1 DEF FailedAbout
  <2> QED BY <2>2, <2>3 DEF Untouched, Kept
<1>3. ASSUME NEW task \in Sent', task.event.payload.kind = "Take" PROVE CommandSound(task)'
  <2>1. Opens(task.event.payload) = {}
    BY <1>3 DEF Opens
  <2> QED BY <1>3, <2>1 DEF CommandSound
<1> DEFINE X == {}
<1>4. /\ \A c \in ClientIds \ X : Untouched(c)
      /\ \A task \in Sent' :
           \/ task \in Sent /\ Names(task.event.payload) \cap X = {}
           \/ CommandSound(task)'
      /\ \A i \in Failed' :
           \/ /\ i \in Failed /\ kernel'.failures[i] = kernel.failures[i]
              /\ kernel.failures[i].command.client \notin X
           \/ FailureFits(i)'
      /\ \A c \in X \cap ClientIds : (Knows(c)' => ChildSound(c)') /\ EndFits(c)'
  BY <1>1, <1>2, <1>3
<1> HIDE DEF X
<1> QED BY <1>4, Elsewhere

\* Time passes.
LEMMA ClockMoves ==
  ASSUME JInv, IInv, FixedReplies, AdvanceClock \/ UNCHANGED vars
  PROVE  JInv'
<1>1. /\ UNCHANGED <<kernel, state, exchange, cursor, routed>>
      /\ clock' = clock \/ (clock' = clock + 1 /\ clock < TimeLimit)
  BY DEF AdvanceClock, vars
<1>2. EventTasks' = EventTasks /\ Waiting' = Waiting /\ Awaited' = Awaited /\ Sent' = Sent
      /\ Live' = Live
  BY <1>1 DEF EventTasks, Waiting, Awaited, Sent, IsCommand, Live
<1>3. clock \in Int /\ clock' \in Time /\ clock' \in Int /\ clock <= clock'
  <2>1. clock \in Time
    BY DEF JInv, ClockSound
  <2>2. clock \in 0..TimeLimit
    BY <2>1 DEF Time
  <2> QED BY <1>1, <2>1, <2>2, KernelAssumption DEF Time
<1>4. ClockSound'
  <2>0. ClockSound /\ kernel.current_time \in Int
    BY DEF JInv, ClockSound
  <2>1. \A u \in EventTasks : u.stage = System => u.time <= clock'
    <3>1. \A u \in EventTasks : u.time \in Int
      BY <2>0, TimesAreInts
    <3> QED BY <1>3, <2>0, <3>1 DEF ClockSound
  <2>2. kernel.current_time <= clock'
    BY <1>3, <2>0 DEF ClockSound
  <2>3. \A task \in Sent : OnItsWay(task)'  <=> OnItsWay(task)
    BY DEF OnItsWay
  <2>4. \A task \in Sent' : OnItsWay(task)'
    BY <1>2, <2>0, <2>3 DEF ClockSound
  <2> QED BY <1>1, <1>2, <1>3, <2>0, <2>1, <2>2, <2>4 DEF ClockSound
<1>5. NumbersSound' /\ ExecutionsSound'
  BY <1>1, <1>2 DEF JInv, NumbersSound, ExecutionsSound
<1>6. CommandsSound' /\ FailuresFit' /\ ChildrenSound' /\ EndsInTime'
  BY <1>1, <1>2, <1>3, QuietClients DEF JInv, IInv, About
<1>7. Over => Over'
  BY <1>1, <1>2 DEF Over, Knows, knows_client_order_id
<1>8. LedgerSound'
  BY <1>1, <1>2, <1>7, LedgerKept DEF JInv, Booked, BookedLots
<1> QED BY <1>4, <1>5, <1>6, <1>8 DEF JInv

LEMMA KernelCounts ==
  ASSUME Shapes, NumbersSound
  PROVE  Counting(kernel)
BY DEF Shapes, NumbersSound, Counting

\* A command reaches the exchange.
LEMMA ReceiveStep ==
  ASSUME JInv, IInv, FixedReplies, NEW task \in kernel.queue, IsTop(kernel, task),
         task.time <= clock, task.stage = ExchangeReceive, kernel' = dispatch(kernel, task),
         ~kernel'.thrown, UNCHANGED <<state, exchange, clock, cursor, routed>>
  PROVE  JInv'
<1>0. /\ Shapes /\ ClockSound /\ NumbersSound /\ ExecutionsSound /\ CommandsSound /\ FailuresFit
      /\ ChildrenSound /\ EndsInTime /\ LedgerSound
  BY DEF IInv, JInv
<1>1. PICK moved : Received(kernel, kernel', task, moved)
  BY <1>0, KernelCounts, ReceiveMade
<1>2. Awaited' = Awaited /\ ClockSound' /\ NumbersSound'
  BY <1>0, <1>1, ReceiveTimed
<1>3. Sent' = (Sent \ {task}) \cup {moved} /\ task \in Sent
  BY <1>1, ReceivedViews
<1>4. /\ moved.event = task.event /\ kernel'.failures = kernel.failures
      /\ kernel'.delivered_events = kernel.delivered_events
  BY <1>1 DEF Received
<1>5. Failed' = Failed /\ \A c : FailedAbout(c)' = FailedAbout(c)
  BY <1>4 DEF Failed, FailedAbout
<1>6. \A c \in ClientIds : Kept(c)
  BY <1>2 DEF Kept, About
<1>7. ASSUME NEW c
      PROVE  SentAbout(c)' = IF task \in SentAbout(c) THEN (SentAbout(c) \ {task}) \cup {moved}
                             ELSE SentAbout(c)
  BY <1>3, <1>4 DEF SentAbout
<1> DEFINE X == Names(task.event.payload)
<1>8. \A c \in ClientIds \ X : Untouched(c)
  <2>1. \A c : c \notin X => task \notin SentAbout(c)
    BY DEF SentAbout
  <2> QED BY <1>5, <1>6, <1>7, <2>1 DEF Untouched
<1>9. ASSUME NEW u \in Sent, NEW v \in Sent', v.event = u.event, v = (IF u = task THEN moved ELSE u)
      PROVE  CommandSound(v)'
  <2>1. CommandSound(u)
    BY <1>0 DEF CommandsSound
  <2>2. /\ u.event.payload \in Commands \cup {[kind |-> "Take"]}
        /\ Names(u.event.payload) \subseteq ClientIds
    BY <1>0, SentNames
  <2>3. u.event.payload.kind \in {"Submit", "Cancel", "Replace", "Take"}
    BY <2>2, CommandNames
  <2>4. \A c : SentAbout(c) = {u} => SentAbout(c)' = {v}
    BY <1>7, <1>9
  <2>5. \A c \in Names(u.event.payload) :
           /\ Kept(c) /\ FailedAbout(c)' \subseteq FailedAbout(c)
           /\ SentAbout(c) = {u} => SentAbout(c)' = {v}
    BY <1>5, <1>6, <2>2, <2>4
  <2> QED BY <1>9, <2>1, <2>3, <2>5, CommandKept
<1>10. \A u \in Sent' : CommandSound(u)'
  BY <1>3, <1>4, <1>9
<1>11. ASSUME NEW i \in Failed' PROVE FailureFits(i)'
  <2>0. PICK c : c = kernel.failures[i].command.client
    OBVIOUS
  <2>1. c \in ClientIds
    <3>1. kernel.failures[i].command \in Commands
      BY <1>0, <1>5, FailedNames
    <3> QED BY <2>0, <3>1 DEF Commands, Submits, Cancels, Replaces
  <2>2. FailureFits(i)
    BY <1>0, <1>5 DEF FailuresFit
  <2>3. SentAbout(c) = {} => SentAbout(c)' = {}
    BY <1>7
  <2>4. Kept(c) /\ FailedAbout(c)' = FailedAbout(c)
    BY <1>5, <1>6, <2>1
  <2> QED BY <1>4, <2>0, <2>2, <2>3, <2>4, FailureKept
<1>12. ASSUME NEW c \in ClientIds, Knows(c)' PROVE ChildSound(c)'
  <2>1. ChildSound(c)
    BY <1>0, <1>12 DEF ChildrenSound, Knows, knows_client_order_id
  <2>2. SentAbout(c) # {} => SentAbout(c)' # {}
    BY <1>7
  <2> QED BY <1>5, <1>6, <2>1, <2>2, ChildKept
<1>13. CommandsSound' /\ FailuresFit' /\ ChildrenSound'
  BY <1>10, <1>11, <1>12 DEF CommandsSound, FailuresFit, ChildrenSound
<1>14. EndsInTime' /\ ExecutionsSound'
  BY <1>0, <1>2 DEF EndsInTime, Asked, ExecutionsSound
<1>15. LedgerSound'
  <2>1. Over => Over'
    BY <1>3, <1>4 DEF Over, Live, Knows, knows_client_order_id
  <2> QED BY <1>0, <1>2, <1>4, <2>1, LedgerKept
<1> QED BY <1>2, <1>13, <1>14, <1>15 DEF JInv

\* An event is delivered.
LEMMA DeliverStep ==
  ASSUME JInv, IInv, FixedReplies, NEW task \in kernel.queue, IsTop(kernel, task),
         task.time <= clock, ~IsCommand(task), kernel' = dispatch(kernel, task),
         UNCHANGED <<state, exchange, clock, cursor, routed>>
  PROVE  JInv'
<1>0. /\ Shapes /\ ClockSound /\ NumbersSound /\ ExecutionsSound /\ CommandsSound /\ FailuresFit
      /\ ChildrenSound /\ EndsInTime /\ LedgerSound
  BY DEF IInv, JInv
<1>1. Delivered(kernel, kernel', task)
  <2>1. task.stage # ExchangeReceive
    BY DEF IsCommand
  <2> QED BY <1>0, <2>1, KernelCounts, DeliverMade
<1> DEFINE n == Len(kernel.delivered_events) + 1
<1>2. /\ task \in EventTasks /\ Sent' = Sent /\ Awaited' = Awaited
      /\ Waiting' = Waiting \cup {n} /\ n \in Nat
      /\ Waiting \subseteq 1..Len(kernel.delivered_events) /\ Len(kernel.delivered_events) \in Nat
      /\ Len(kernel'.delivered_events) = n
      /\ \A i \in 1..Len(kernel.delivered_events) :
           kernel'.delivered_events[i] = kernel.delivered_events[i]
      /\ kernel'.delivered_events[n] = task.event
  BY <1>0, <1>1, DeliveredViews
<1>3. ClockSound' /\ NumbersSound'
  BY <1>0, <1>1, DeliverTimed
<1>4. kernel'.failures = kernel.failures
  BY <1>1 DEF Delivered
<1>5. CommandsSound' /\ FailuresFit' /\ ChildrenSound' /\ EndsInTime'
  <2>1. clock \in Int /\ clock' = clock
    BY <1>0, TimesAreInts
  <2>2. \A c \in ClientIds : About(Awaited, c)' = About(Awaited, c)
    BY <1>2 DEF About
  <2> QED BY <1>0, <1>2, <1>4, <2>1, <2>2, QuietClients
<1>6. ExecutionsSound'
  BY <1>0, <1>2 DEF ExecutionsSound
<1>7. task.event \in Awaited
  BY <1>2 DEF Awaited
<1>8. \A i \in Completions' : i \in Completions \/ (i = n /\ task.event.payload.kind = "TerminalCompletion")
  <2>1. Listed(kernel.delivered_events) /\ kernel'.delivered_events = Append(kernel.delivered_events, task.event)
    BY <1>0, <1>1 DEF Shapes, Delivered
  <2>2. /\ DOMAIN kernel.delivered_events = 1..Len(kernel.delivered_events)
        /\ DOMAIN kernel'.delivered_events = 1..n
    BY <2>1 DEF Listed
  <2>3. \A i \in 1..n : i = n \/ i \in 1..Len(kernel.delivered_events)
    BY <1>2
  <2> HIDE DEF n
  <2> QED BY <1>2, <2>2, <2>3 DEF Completions
<1>9. LedgerSound'
  <2> HIDE DEF n
  <2>1. CASE Idle
    <3>1. \A e \in Awaited : e.payload.kind # "TerminalCompletion"
      BY <1>0, <2>1 DEF LedgerSound, Idle
    <3>2. Completions' = {}
      BY <1>0, <1>7, <1>8, <2>1, <3>1 DEF LedgerSound, Idle
    <3>3. state.filled = Booked(state) /\ state'.filled = Booked(state')
      BY <1>0, <2>1 DEF LedgerSound, Idle
    <3>4. state'.terminal_applied = FALSE /\ state'.terminal_pending = FALSE
      BY <1>0, <2>1 DEF Idle, LedgerSound
    <3>5. \A e \in Awaited' : e.payload.kind # "TerminalCompletion"
      BY <1>2, <3>1
    <3> QED BY <3>2, <3>3, <3>4, <3>5, LedgerIdle
  <2>2. CASE state.terminal_pending
    <3>1. ~state.terminal_applied /\ Over /\ Completions \subseteq Waiting
      BY <1>0, <2>2 DEF LedgerSound
    <3>2. Completions' \subseteq Waiting'
      BY <1>2, <1>8, <3>1
    <3>3. Over'
      BY <1>2, <3>1 DEF Over, Live, Knows, knows_client_order_id
    <3>4. \E e \in Awaited' :
            /\ Awaited' = {e}
            /\ e.payload = [kind |-> "TerminalCompletion", quantity |-> Remaining(state')]
      BY <1>0, <1>2, <2>2 DEF LedgerSound
    <3>5. state.filled = Booked(state)
      BY <1>0, <3>1 DEF LedgerSound
    <3>6. /\ state'.terminal_applied = FALSE /\ state'.terminal_pending = TRUE
          /\ state'.filled = Booked(state')
      BY <1>0, <2>2, <3>1, <3>5 DEF LedgerSound
    <3> QED BY <3>2, <3>3, <3>4, <3>6, LedgerPending
  <2>3. ~state.terminal_applied
    BY <1>0, <1>7 DEF LedgerSound
  <2> QED BY <2>1, <2>2, <2>3 DEF Idle
<1> QED BY <1>3, <1>5, <1>6, <1>9 DEF JInv

-----------------------------------------------------------------------------
(***************************************************************************)
(* Decisions.                                                              *)
(***************************************************************************)

LEMMA NothingPending ==
  ASSUME pending_command_count(state) = 0
  PROVE  \A c \in ClientIds : Knows(c) => state.children[c].state # "PendingNew" /\ ~Asked(c)
<1> DEFINE A == {c \in Known(state) : state.children[c].state = "PendingNew"}
           B == {c \in Known(state) : state.children[c].cancel_pending}
           C == {c \in Known(state) : state.children[c].replace_pending}
<1>1. A \subseteq ClientIds /\ B \subseteq ClientIds /\ C \subseteq ClientIds
  BY DEF Known
<1>2. IsFiniteSet(A) /\ IsFiniteSet(B) /\ IsFiniteSet(C)
  BY <1>1, StateAssumption, FS_Subset
<1>3. Cardinality(A) \in Nat /\ Cardinality(B) \in Nat /\ Cardinality(C) \in Nat
  BY <1>2, FS_CardinalityType
<1>4. Cardinality(A) + Cardinality(B) + Cardinality(C) = 0
  BY DEF pending_command_count
<1>5. Cardinality(A) = 0 /\ Cardinality(B) = 0 /\ Cardinality(C) = 0
  <2> HIDE DEF A, B, C
  <2> QED BY <1>3, <1>4
<1>6. A = {} /\ B = {} /\ C = {}
  BY <1>2, <1>5, FS_EmptySet
<1> QED BY <1>6 DEF Known, Knows, Asked

\* Once the loop has applied what was delivered, the other events are still to come.
LEMMA IngestedMeans ==
  ASSUME Ingested, IInv, ClockSound, FixedReplies
  PROVE  /\ Waiting = {} /\ Awaited = {u.event : u \in EventTasks}
         /\ \A e \in Awaited : e.available > clock
         /\ \A u \in EventTasks : u.stage # System
<1>1. RunDone /\ cursor = Len(kernel.delivered_events) /\ cursor \in Int
  <2>1. Listed(kernel.delivered_events)
    BY DEF IInv, Shapes
  <2>2. Len(kernel.delivered_events) \in Nat
    BY <2>1 DEF Listed
  <2> QED BY <2>2 DEF Ingested
<1>2. Waiting = {}
  BY <1>1 DEF Waiting
<1>3. Awaited = {u.event : u \in EventTasks}
  BY <1>2 DEF Awaited
<1>4. \A u \in EventTasks : u.event.available = u.time /\ u.time > clock
  BY <1>1 DEF ClockSound, EventTasks, RunDone
<1>5. \A u \in EventTasks : u.stage # System
  <2>1. \A u \in EventTasks : u.stage = System => u.time <= clock
    BY DEF ClockSound
  <2>2. \A u \in EventTasks : u.time \in Int /\ clock \in Int
    BY TimesAreInts
  <2> QED BY <1>4, <2>1, <2>2
<1> QED BY <1>2, <1>3, <1>4, <1>5

\* When the loop decides, everything that happened until now is known.
LEMMA ReadyMeans ==
  ASSUME Ready, IInv, ClockSound, FixedReplies
  PROVE  /\ Waiting = {} /\ Awaited = {u.event : u \in EventTasks}
         /\ \A e \in Awaited : e.available > clock
         /\ \A u \in EventTasks : u.stage # System
BY IngestedMeans DEF Ready

LEMMA AwaitedReplies ==
  ASSUME Shapes
  PROVE  /\ \A u \in EventTasks : \/ u.stage = ObserverAvailable /\ u.event.payload \in Replies
                                  \/ u.stage = System /\ u.event.payload \in Completed
         /\ \A e \in Awaited : e.payload \in Replies \cup Completed
         /\ \A e \in Awaited : e.payload.kind # "TerminalCompletion" =>
              e.payload \in Replies /\ e.payload \in Told
         /\ \A u \in EventTasks : u.event.payload.kind = "TerminalCompletion" => u.stage = System
<1>1. \A u \in EventTasks : \/ u.stage = ObserverAvailable /\ u.event.payload \in Replies
                            \/ u.stage = System /\ u.event.payload \in Completed
  BY DEF Shapes, TaskSound, EventTasks
<1>2. \A i \in Waiting : kernel.delivered_events[i].payload \in Replies \cup Completed
  <2>1. Waiting \subseteq 1..Len(kernel.delivered_events)
    BY DEF Shapes, Waiting
  <2> QED BY <2>1 DEF Shapes
<1>3. \A p \in Completed : p.kind = "TerminalCompletion"
  BY DEF Completed
<1>4. \A p \in Replies : p.kind # "TerminalCompletion"
  BY DEF Replies, Acks, Rejections, CancelAcks, FillEvents, ReplaceAcks
<1>5. \A i \in Waiting : kernel.delivered_events[i].payload \in Told
  BY DEF Waiting, Told
<1>6. \A u \in EventTasks : u.stage = ObserverAvailable => u.event.payload \in Told
  BY DEF EventTasks, Told
<1>7. \A e \in Awaited : \/ \E u \in EventTasks : e = u.event
                         \/ \E i \in Waiting : e = kernel.delivered_events[i]
  BY DEF Awaited
<1> QED BY <1>1, <1>2, <1>3, <1>4, <1>5, <1>6, <1>7

LEMMA AboutTold ==
  ASSUME Shapes, NEW c, NEW e \in About(Awaited, c)
  PROVE  e.payload \in ToldAbout(c) /\ e.payload \in Replies /\ e \in Awaited
<1>1. e \in Awaited /\ c \in Names(e.payload)
  BY DEF About
<1>2. e.payload.kind # "TerminalCompletion"
  BY <1>1 DEF Names, ChildEvents
<1>3. e.payload \in Replies /\ e.payload \in Told
  BY <1>1, <1>2, AwaitedReplies
<1> QED BY <1>1, <1>3 DEF ToldAbout

\* Nothing is under way about a client that the state does not know.
LEMMA StrangersQuiet ==
  ASSUME IInv, NEW c \in ClientIds, ~Knows(c)
  PROVE  ~Has(c) /\ SentAbout(c) = {} /\ About(Awaited, c) = {} /\ FailedAbout(c) = {}
BY AboutTold DEF IInv, UnknownUntouched

\* An order that the state holds for active has not ended, unless the state has
\* asked for its end.
LEMMA ActiveOpen ==
  ASSUME JInv, IInv, FixedReplies, Ready, NEW c \in ClientIds, Knows(c), ~Asked(c),
         acknowledged_active(state.children[c])
  PROVE  /\ Has(c) /\ state.children[c].exchange_order_id # NoExchangeId
         /\ exchange.orders[c].state \notin Closed
         /\ Tracks(c, state.children[c], exchange.orders[c], About(Awaited, c))
<1> DEFINE k == state.children[c]
           o == exchange.orders[c]
           T == About(Awaited, c)
<1>1. k.exchange_order_id # NoExchangeId /\ k.state \in ActiveStates
  BY DEF acknowledged_active
<1>2. Has(c)
  BY <1>1 DEF IInv, IdsGiven
<1>3. Tracks(c, k, o, T)
  BY <1>2 DEF JInv, ChildrenSound, ChildSound
<1>4. ASSUME o.state \in Closed PROVE FALSE
  <2>1. k.state \notin Closed
    BY <1>1 DEF ActiveStates, Closed
  <2>2. k.exchange_order_id = o.id
    BY <1>1, <1>3, TracksKnown
  <2>3. k # NewChild(o.quantity)
    BY <1>1 DEF NewChild
  <2> HIDE DEF k, o
  <2>4. PICK e \in T : Closing(e.payload, c)
    BY <1>3, <1>4, <2>1, <2>3 DEF Tracks
  <2>5. e.available > clock /\ e \in Awaited /\ e.available \in Int
    <3>1. e \in Awaited
      BY DEF About
    <3> QED BY <3>1, ReadyMeans, AwaitedTimes DEF JInv
  <2>6. clock \in Int
    BY TimesAreInts DEF JInv
  <2>7. Asked(c) \/ e.available <= clock \/ k.exchange_order_id = NoExchangeId
    BY <2>4, <2>5 DEF JInv, EndsInTime, k
  <2> QED BY <1>1, <2>5, <2>6, <2>7
<1> QED BY <1>1, <1>2, <1>3, <1>4

\* When the loop decides with no command pending, the only messages about its
\* orders are events and the failures of submits.
LEMMA Calm ==
  ASSUME JInv, IInv, FixedReplies, Ready, pending_command_count(state) = 0
  PROVE  /\ \A task \in Sent : task.event.payload.kind = "Take"
         /\ \A c : SentAbout(c) = {}
         /\ \A i \in Failed : kernel.failures[i].command.kind = "Submit"
         /\ \A c : Has(c) => FailedAbout(c) = {}
<1>1. \A c \in ClientIds : Knows(c) => state.children[c].state # "PendingNew" /\ ~Asked(c)
  BY NothingPending
<1>2. ASSUME NEW task \in Sent PROVE task.event.payload.kind = "Take"
  <2> DEFINE p == task.event.payload
  <2>1. p \in Commands \cup {[kind |-> "Take"]} /\ Names(p) \subseteq ClientIds
    BY SentNames DEF IInv
  <2>2. /\ p.kind \in {"Submit", "Cancel", "Replace", "Take"}
        /\ p.kind # "Take" => p.client \in Names(p)
    BY <2>1, CommandNames
  <2>3. Opens(p) = {}
    <3>1. ASSUME NEW c \in Opens(p) PROVE FALSE
      <4>1. Fresh(c)
        BY DEF IInv, OpeningAlone
      <4>2. c \in ClientIds
        BY <2>1, OpensNames
      <4> QED BY <1>1, <4>1, <4>2 DEF Fresh
    <3> QED BY <3>1
  <2>4. p.kind \notin {"Submit", "Replace"}
    BY <2>3 DEF Opens
  <2>5. p.kind # "Cancel"
    <3>1. SUFFICES ASSUME p.kind = "Cancel" PROVE FALSE
      OBVIOUS
    <3>2. state.children[p.client].cancel_pending /\ Knows(p.client)
      BY <3>1 DEF JInv, CommandsSound, CommandSound, Targets
    <3>3. p.client \in ClientIds
      BY <2>1, <2>2, <3>1
    <3> HIDE DEF p
    <3> QED BY <1>1, <3>2, <3>3 DEF Asked
  <2> QED BY <2>2, <2>4, <2>5
<1>3. ASSUME NEW i \in Failed PROVE kernel.failures[i].command.kind = "Submit"
  <2>0. PICK p, c : p = kernel.failures[i].command /\ c = p.client
    OBVIOUS
  <2>1. p \in Commands
    BY <2>0, FailedNames DEF IInv
  <2>2. c \in ClientIds /\ p.kind \in {"Submit", "Cancel", "Replace"}
    BY <2>0, <2>1 DEF Commands, Submits, Cancels, Replaces
  <2>3. FailureFits(i)
    BY DEF JInv, FailuresFit
  <2>4. p.kind # "Submit" => Knows(c) /\ Asked(c)
    BY <2>0, <2>2, <2>3 DEF FailureFits, Asked
  <2> QED BY <1>1, <2>0, <2>2, <2>4
<1>4. \A c : SentAbout(c) = {}
  <2>1. \A task : task.event.payload.kind = "Take" => Names(task.event.payload) = {}
    BY DEF Names, ChildEvents
  <2> QED BY <1>2, <2>1 DEF SentAbout
<1>5. ASSUME NEW c, Has(c), NEW i \in FailedAbout(c) PROVE FALSE
  <2>1. i \in Failed /\ c \in Names(kernel.failures[i].command)
    BY DEF FailedAbout
  <2>2. kernel.failures[i].command.kind = "Submit"
    BY <1>3, <2>1
  <2>3. c = kernel.failures[i].command.client
    BY <2>1, <2>2 DEF Names
  <2>4. ~Has(c)
    BY <2>1, <2>2, <2>3 DEF IInv, FailuresTrue
  <2> QED BY <1>5, <2>4
<1> QED BY <1>2, <1>3, <1>4, <1>5

\* A decision is taken while the parent order is neither completed nor about to
\* be completed explicitly.
LEMMA DecisionIdle ==
  ASSUME JInv, IInv, FixedReplies, Ready, parent_status(state, clock) # "Completed"
  PROVE  Idle
<1>1. LedgerSound /\ StateShape(state) /\ Shapes
  BY DEF JInv, IInv, Shapes
<1>2. ~state.terminal_applied
  <2>1. Remaining(state) # 0
    BY DEF parent_status
  <2>2. ParentQuantity - ParentQuantity = 0
    BY StateAssumption
  <2> QED BY <1>1, <2>1, <2>2 DEF LedgerSound, Remaining
<1>3. ~state.terminal_pending
  <2>1. SUFFICES ASSUME state.terminal_pending PROVE FALSE
    OBVIOUS
  <2>2. PICK e \in Awaited : e.payload.kind = "TerminalCompletion"
    BY <1>1, <2>1 DEF LedgerSound
  <2>3. PICK u \in EventTasks : u.event = e
    BY ReadyMeans DEF JInv
  <2>4. u.stage = System
    BY <1>1, <2>2, <2>3, AwaitedReplies
  <2> QED BY <2>4, ReadyMeans DEF JInv
<1> QED BY <1>2, <1>3 DEF Idle

\* The path of a command that is sent now.
LEMMA PathTimes ==
  ASSUME FixedReplies, clock \in Nat, NEW timing \in action_timing(clock)
  PROVE  /\ timing \in Timing /\ timing.receive \in Time /\ timing.receive \in Int
         /\ timing.receive <= timing.process
         /\ timing.available = timing.process + ReplyDelay
<1>1. PICK o \in OutboundDelays, p \in ProcessingDelays, r \in ReplyDelays :
        timing = [receive |-> clock + o, process |-> clock + o + p,
                  available |-> clock + o + p + r]
  BY DEF action_timing
<1>2. timing.available <= TimeLimit
  BY DEF action_timing
<1>3. r = ReplyDelay
  BY FixedDelay
<1>4. o \in Nat /\ p \in Nat /\ r \in Nat
  BY KernelAssumption
<1>5. timing.receive = clock + o /\ timing.process = clock + o + p /\ timing.available = clock + o + p + r
  BY <1>1
<1>6. /\ clock + o \in 0..TimeLimit /\ clock + o + p \in 0..TimeLimit
      /\ clock + o + p + r \in 0..TimeLimit
  BY <1>2, <1>4, <1>5, KernelAssumption
<1>7. timing \in Timing
  BY <1>1, <1>6 DEF Timing, Time
<1> QED BY <1>3, <1>4, <1>5, <1>6, <1>7 DEF Time

\* Commands t set out from kernel k, which has what the kernel had.
SetOut(k, t, n) ==
  /\ Counting(k) /\ k.queue = kernel.queue /\ k.current_time = kernel.current_time
  /\ k.delivered_events = kernel.delivered_events /\ k.failures = kernel.failures
  /\ k.next_event_id = kernel.next_event_id /\ k.next_sequence = kernel.next_sequence
  /\ Batch(k, kernel', t, n)
  /\ \A i \in 1..n : /\ t[i].stage = ExchangeReceive /\ t[i].timing \in action_timing(clock)
                     /\ t[i].time = t[i].timing.receive

LEMMA SetOutSound ==
  ASSUME FixedReplies, ClockSound, NumbersSound, NEW k, NEW t, NEW n \in Nat, SetOut(k, t, n),
         UNCHANGED <<clock, cursor, routed>>, state'.events = state.events
  PROVE  /\ ClockSound' /\ NumbersSound' /\ EventTasks' = EventTasks /\ Awaited' = Awaited
         /\ Waiting' = Waiting /\ Sent' = Sent \cup {t[i] : i \in 1..n}
         /\ kernel'.delivered_events = kernel.delivered_events
         /\ kernel'.failures = kernel.failures /\ Failed' = Failed
         /\ \A i, j \in 1..n : t[i] = t[j] => i = j
<1>1. /\ kernel'.queue = kernel.queue \cup {t[i] : i \in 1..n}
      /\ kernel'.current_time = kernel.current_time
      /\ kernel'.delivered_events = kernel.delivered_events /\ kernel'.failures = kernel.failures
      /\ \A i \in 1..n : kernel.current_time <= t[i].time
      /\ Numbered(k, kernel', t, n)
  BY DEF SetOut, Batch, Keeps
<1>2. \A i \in 1..n : IsCommand(t[i])
  BY DEF SetOut, IsCommand
<1>3. /\ EventTasks' = EventTasks /\ Waiting' = Waiting /\ Failed' = Failed
      /\ Sent' = Sent \cup {t[i] : i \in 1..n}
  BY <1>1, <1>2 DEF EventTasks, Waiting, Failed, Sent
<1>4. clock \in Nat
  BY TimesAreInts
<1>5. \A i \in 1..n : OnItsWay(t[i]) /\ t[i].time \in Time
  BY <1>4, PathTimes DEF SetOut, OnItsWay
<1>6. ClockSound'
  <2>1. \A u \in kernel'.queue : u.time \in Time /\ kernel'.current_time <= u.time
    BY <1>1, <1>5 DEF ClockSound
  <2>2. \A u \in Sent' : OnItsWay(u)
    BY <1>3, <1>5 DEF ClockSound
  <2> QED BY <1>1, <1>3, <2>1, <2>2 DEF ClockSound
<1>7. Numbered(kernel, kernel', t, 0)
  <2>1. \A i \in 1..0 : FALSE
    OBVIOUS
  <2> QED BY <1>1, <2>1 DEF Numbered, SetOut
<1>8. Awaited' = Awaited /\ NumbersSound'
  BY <1>1, <1>3, <1>7, NumbersQuiet
<1>9. ASSUME NEW i \in 1..n, NEW j \in 1..n, t[i] = t[j] PROVE i = j
  <2>1. \A a, b \in 1..n : a < b => t[a].event.id < t[b].event.id
    BY <1>1 DEF Numbered
  <2>2. t[i].event.id \in Nat /\ t[j].event.id \in Nat
    BY <1>1 DEF Numbered, Below
  <2>3. ~(i < j) /\ ~(j < i)
    BY <1>9, <2>1, <2>2
  <2> QED BY <2>3
<1> QED BY <1>1, <1>3, <1>6, <1>8, <1>9

LEMMA MadeBatch ==
  ASSUME NEW k, Counting(k), ~k.thrown, NEW q, NEW task, Made(k, q, task)
  PROVE  Batch(k, q, [i \in 1..1 |-> task], 1)
<1>1. Batch(k, k, <<>>, 0)
  BY DEF Batch, Numbered, Keeps, Counting
<1>2. PICK u : u = [i \in 1..(0 + 1) |-> IF i = 0 + 1 THEN task ELSE <<>>[i]]
  OBVIOUS
<1>3. Batch(k, q, u, 0 + 1)
  BY <1>1, <1>2, BatchGrows
<1>4. u = [i \in 1..1 |-> task]
  BY <1>2
<1> QED BY <1>3, <1>4

LEMMA CalledKernel ==
  ASSUME Shapes, NumbersSound, ClockSound
  PROVE  LET k == Call(kernel)
         IN  /\ Counting(k) /\ ~k.thrown /\ k.current_time \in Int /\ k.queue = kernel.queue
             /\ k.current_time = kernel.current_time
             /\ k.delivered_events = kernel.delivered_events /\ k.failures = kernel.failures
             /\ k.next_event_id = kernel.next_event_id /\ k.next_sequence = kernel.next_sequence
<1>1. Counting(kernel) /\ kernel.current_time \in Int
  BY KernelCounts DEF ClockSound
<1> QED BY <1>1, CallCounts

\* Another participant sends a command.
LEMMA OtherStep ==
  ASSUME JInv, IInv, FixedReplies, OtherParticipant, ~kernel'.thrown
  PROVE  JInv'
<1>0. /\ Shapes /\ ClockSound /\ NumbersSound /\ ExecutionsSound /\ CommandsSound /\ FailuresFit
      /\ ChildrenSound /\ EndsInTime /\ LedgerSound
  BY DEF IInv, JInv
<1>1. PICK timing \in action_timing(clock) :
        kernel' = schedule_command(Call(kernel), [kind |-> "Take"], timing)
  BY DEF OtherParticipant
<1>2. UNCHANGED <<state, exchange, clock, cursor, routed>>
  BY DEF OtherParticipant
<1>3. PICK k : k = Call(kernel)
  OBVIOUS
<1>4. /\ Counting(k) /\ ~k.thrown /\ k.current_time \in Int /\ k.queue = kernel.queue
      /\ k.current_time = kernel.current_time
      /\ k.delivered_events = kernel.delivered_events /\ k.failures = kernel.failures
      /\ k.next_event_id = kernel.next_event_id /\ k.next_sequence = kernel.next_sequence
  BY <1>0, <1>3, CalledKernel
<1>5. clock \in Nat /\ timing.receive \in Int
  <2>1. clock \in Nat
    BY <1>0, TimesAreInts
  <2> QED BY <2>1, PathTimes
<1>6. kernel' = Generate(k, [kind |-> "Take"], timing.receive, ExchangeReceive, timing)
  BY <1>1, <1>3 DEF schedule_command
<1>7. PICK task : /\ Made(k, kernel', task)
                  /\ Carries(task, [kind |-> "Take"], timing.receive, ExchangeReceive, timing)
  BY <1>4, <1>5, <1>6, GenerateMade
<1> DEFINE t == [i \in 1..1 |-> task]
<1>8. SetOut(k, t, 1)
  <2>1. Batch(k, kernel', t, 1)
    BY <1>4, <1>7, MadeBatch
  <2>2. \A i \in 1..1 : t[i] = task
    OBVIOUS
  <2> HIDE DEF t
  <2> QED BY <1>4, <1>7, <2>1, <2>2 DEF SetOut, Carries
<1>9. {t[i] : i \in 1..1} = {task}
  OBVIOUS
<1> HIDE DEF t
<1>10. /\ ClockSound' /\ NumbersSound' /\ Awaited' = Awaited
       /\ Sent' = Sent \cup {task} /\ kernel'.failures = kernel.failures
       /\ kernel'.delivered_events = kernel.delivered_events
  BY <1>0, <1>2, <1>8, <1>9, SetOutSound
<1>11. task.event.payload.kind = "Take"
  BY <1>7 DEF Carries
<1>12. CommandsSound' /\ FailuresFit' /\ ChildrenSound' /\ EndsInTime'
  <2>1. clock \in Int /\ clock' = clock
    BY <1>2, <1>5
  <2>2. \A c \in ClientIds : About(Awaited, c)' = About(Awaited, c)
    BY <1>10 DEF About
  <2> QED BY <1>0, <1>2, <1>10, <1>11, <2>1, <2>2, QuietClients
<1>13. ExecutionsSound'
  BY <1>0, <1>2, <1>10 DEF ExecutionsSound
<1>14. LedgerSound'
  <2>1. Over => Over'
    BY <1>2, <1>10, <1>11 DEF Over, Live, Knows, knows_client_order_id
  <2> QED BY <1>0, <1>2, <1>10, <2>1, LedgerKept
<1> QED BY <1>10, <1>12, <1>13, <1>14 DEF JInv

\* Child n is child k with a command pending.
Marked(k, n, kind) ==
  /\ n.exchange_order_id = k.exchange_order_id /\ n.requested = k.requested
  /\ n.cum = k.cum /\ n.leaves = k.leaves /\ n.state = k.state
  /\ kind = "Cancel" => n.cancel_pending /\ n.replace_pending = k.replace_pending
  /\ kind = "Replace" => n.replace_pending

\* A decision opens orders of clients that nobody knows, and marks children whose
\* end it asks for.
Decided(t, n) ==
  /\ \A i \in 1..n :
       LET p == t[i].event.payload
       IN  /\ p \in Commands
           /\ \A c \in Opens(p) : /\ ~Knows(c) /\ p.quantity \in 1..ParentQuantity
                                  /\ state'.children[c] = NewChild(p.quantity)
           /\ p.kind \in {"Cancel", "Replace"} =>
                /\ p.client \in acknowledged_active_orders(state)
                /\ p.exchange_order_id = state.children[p.client].exchange_order_id
                /\ state'.children[p.client] # NoChild
                /\ Marked(state.children[p.client], state'.children[p.client], p.kind)
  /\ \A i, j \in 1..n :
       i # j => Names(t[i].event.payload) \cap Names(t[j].event.payload) = {}
  /\ \A c \in ClientIds : (\A i \in 1..n : c \notin Names(t[i].event.payload)) =>
                            state'.children[c] = state.children[c]

LEMMA MarkedClient ==
  ASSUME JInv, IInv, FixedReplies, Ready, pending_command_count(state) = 0,
         NEW c \in acknowledged_active_orders(state)
  PROVE  /\ c \in ClientIds /\ Knows(c) /\ Has(c) /\ FailedAbout(c) = {}
         /\ state.children[c].exchange_order_id # NoExchangeId
         /\ exchange.orders[c].state \notin Closed
         /\ Tracks(c, state.children[c], exchange.orders[c], About(Awaited, c))
         /\ state.children[c].requested \in 1..ParentQuantity
         /\ \A e \in About(Awaited, c) : ~Closing(e.payload, c)
<1>1. c \in ClientIds /\ Knows(c) /\ acknowledged_active(state.children[c])
  BY DEF acknowledged_active_orders, Known, Knows
<1>2. ~Asked(c)
  BY <1>1, NothingPending
<1>3. /\ Has(c) /\ state.children[c].exchange_order_id # NoExchangeId
      /\ exchange.orders[c].state \notin Closed
      /\ Tracks(c, state.children[c], exchange.orders[c], About(Awaited, c))
  BY <1>1, <1>2, ActiveOpen
<1>4. FailedAbout(c) = {}
  BY <1>3, Calm
<1>5. ChildSound(c)
  BY <1>1 DEF JInv, ChildrenSound
<1>6. \A e \in About(Awaited, c) : ~Closing(e.payload, c)
  BY <1>3 DEF Tracks, TellsOf, ClosesOrder
<1> QED BY <1>1, <1>3, <1>4, <1>5, <1>6 DEF ChildSound

LEMMA OpenedChild ==
  ASSUME NEW c, ~Has(c)', About(Awaited, c)' = {}, SentAbout(c)' # {},
         NEW q \in 1..ParentQuantity, state'.children[c] = NewChild(q)
  PROVE  ChildSound(c)' /\ Knows(c)' /\ EndFits(c)' /\ state'.children[c].cum = 0
<1>1. q \in Nat
  BY StateAssumption
<1>2. PICK k : k = NewChild(q)
  OBVIOUS
<1>3. k \in Child /\ k # NoChild /\ k.state = "PendingNew" /\ k.exchange_order_id = NoExchangeId
  BY <1>1, <1>2, NewChildFacts
<1>4. /\ k.cum = 0 /\ k.requested = q /\ k.leaves = q
      /\ k.cancel_pending = FALSE /\ k.replace_pending = FALSE
  BY <1>2 DEF NewChild
<1>5. Untraded(k, {})
  BY <1>1, <1>3, <1>4 DEF Untraded
<1>6. state'.children[c] = k
  BY <1>2
<1>7. ChildSound(c)'
  BY <1>4, <1>5, <1>6 DEF ChildSound
<1> QED BY <1>3, <1>4, <1>6, <1>7 DEF Knows, knows_client_order_id, EndFits

LEMMA DecidedSound ==
  ASSUME JInv, IInv, FixedReplies, Ready, pending_command_count(state) = 0,
         parent_status(state, clock) # "Completed", NEW t, NEW n \in Nat, SetOut(kernel, t, n),
         Decided(t, n), UNCHANGED <<exchange, clock, cursor, routed>>,
         state'.filled = state.filled, state'.terminal_applied = state.terminal_applied,
         state'.terminal_pending = state.terminal_pending, state'.events = state.events,
         state'.executions = state.executions
  PROVE  JInv'
<1>0. /\ Shapes /\ ClockSound /\ NumbersSound /\ ExecutionsSound /\ CommandsSound /\ FailuresFit
      /\ ChildrenSound /\ EndsInTime /\ LedgerSound
  BY DEF IInv, JInv
<1> DEFINE p(i) == t[i].event.payload
           X == UNION {Names(p(i)) : i \in 1..n}
<1>1. /\ ClockSound' /\ NumbersSound' /\ Awaited' = Awaited /\ Waiting' = Waiting
      /\ Sent' = Sent \cup {t[i] : i \in 1..n} /\ Failed' = Failed
      /\ kernel'.failures = kernel.failures
      /\ kernel'.delivered_events = kernel.delivered_events
      /\ \A i, j \in 1..n : t[i] = t[j] => i = j
  BY <1>0, SetOutSound
<1>2. /\ \A task \in Sent : task.event.payload.kind = "Take"
      /\ \A c : SentAbout(c) = {}
      /\ \A i \in Failed : kernel.failures[i].command.kind = "Submit"
  BY Calm
<1>3. \A c : Has(c)' <=> Has(c)
  BY DEF Has
<1>4. \A c : FailedAbout(c)' = FailedAbout(c) /\ About(Awaited, c)' = About(Awaited, c)
  BY <1>1 DEF FailedAbout, About
<1>5. \A c : SentAbout(c)' = {t[i] : i \in {j \in 1..n : c \in Names(p(j))}}
  <2>1. \A task \in Sent : Names(task.event.payload) = {}
    BY <1>2 DEF Names, ChildEvents
  <2> QED BY <1>1, <2>1 DEF SentAbout
<1>6. \A i \in 1..n : /\ p(i) \in Commands /\ Names(p(i)) \subseteq ClientIds
                      /\ Opens(p(i)) \subseteq Names(p(i))
                      /\ p(i).kind \in {"Submit", "Cancel", "Replace"}
                      /\ p(i).client \in Names(p(i))
                      /\ \A c \in Names(p(i)) : c \in Opens(p(i)) \/
                            (p(i).kind \in {"Cancel", "Replace"} /\ c = p(i).client)
  <2>1. ASSUME NEW x \in Commands
        PROVE  /\ Names(x) \subseteq ClientIds
               /\ Opens(x) \subseteq Names(x)
               /\ x.kind \in {"Submit", "Cancel", "Replace"}
               /\ x.client \in Names(x)
               /\ \A c \in Names(x) : c \in Opens(x) \/
                     (x.kind \in {"Cancel", "Replace"} /\ c = x.client)
    <3>1. x.kind \in {"Submit", "Cancel", "Replace"}
      BY DEF Commands, Submits, Cancels, Replaces
    <3>2. x \in Commands \cup {[kind |-> "Take"]}
      OBVIOUS
    <3>3. Names(x) \subseteq ClientIds /\ Opens(x) \subseteq Names(x) /\ x.client \in Names(x)
      BY <3>1, <3>2, CommandNames
    <3>4. \A c \in Names(x) : c \in Opens(x) \/ (x.kind \in {"Cancel", "Replace"} /\ c = x.client)
      BY <3>1 DEF Names, Opens, ChildEvents
    <3> QED BY <3>1, <3>3, <3>4
  <2>2. \A i \in 1..n : p(i) \in Commands
    BY DEF Decided
  <2> HIDE DEF p
  <2> QED BY <2>1, <2>2
<1>7. \A i \in 1..n : \A c \in Names(p(i)) : SentAbout(c)' = {t[i]}
  <2>1. ASSUME NEW i \in 1..n, NEW c \in Names(p(i)) PROVE SentAbout(c)' = {t[i]}
    <3>1. \A j \in 1..n : c \in Names(p(j)) <=> j = i
      BY <2>1 DEF Decided
    <3>2. {j \in 1..n : c \in Names(p(j))} = {i}
      BY <3>1
    <3> HIDE DEF p
    <3> QED BY <1>5, <3>2
  <2> QED BY <2>1
<1>8. \A i \in 1..n : \A c \in Opens(p(i)) :
        /\ ~Knows(c) /\ p(i).quantity \in 1..ParentQuantity
        /\ state'.children[c] = NewChild(p(i).quantity)
  BY DEF Decided
<1>9. \A i \in 1..n : p(i).kind \in {"Cancel", "Replace"} =>
        /\ p(i).client \in acknowledged_active_orders(state)
        /\ p(i).exchange_order_id = state.children[p(i).client].exchange_order_id
        /\ state'.children[p(i).client] # NoChild
        /\ Marked(state.children[p(i).client], state'.children[p(i).client], p(i).kind)
  BY DEF Decided
<1>10. \A c \in ClientIds : c \notin X => state'.children[c] = state.children[c]
  BY DEF Decided
<1> HIDE DEF p
<1>11. ASSUME NEW i \in 1..n, NEW c \in Opens(p(i))
       PROVE  ChildSound(c)' /\ Knows(c)' /\ EndFits(c)' /\ FailedAbout(c) = {}
              /\ state'.children[c].cum = 0
  <2>1. c \in Names(p(i)) /\ c \in ClientIds /\ ~Knows(c)
    BY <1>6, <1>8
  <2>2. ~Has(c) /\ About(Awaited, c) = {} /\ FailedAbout(c) = {}
    BY <2>1, StrangersQuiet
  <2>3. SentAbout(c)' # {}
    BY <1>7, <2>1
  <2> QED BY <1>3, <1>4, <1>8, <2>2, <2>3, OpenedChild
<1>12. ASSUME NEW i \in 1..n, p(i).kind \in {"Cancel", "Replace"}
       PROVE  \E c : /\ c = p(i).client /\ ChildSound(c)' /\ EndFits(c)' /\ FailedAbout(c) = {}
                     /\ Knows(c) /\ Knows(c)' /\ state'.children[c].cum = state.children[c].cum
                     /\ Targets(t[i], c)'
  <2>1. PICK c : c = p(i).client
    OBVIOUS
  <2>2. c \in acknowledged_active_orders(state)
    BY <1>9, <1>12, <2>1
  <2>3. /\ c \in ClientIds /\ Knows(c) /\ Has(c) /\ FailedAbout(c) = {}
        /\ state.children[c].exchange_order_id # NoExchangeId
        /\ exchange.orders[c].state \notin Closed
        /\ Tracks(c, state.children[c], exchange.orders[c], About(Awaited, c))
        /\ state.children[c].requested \in 1..ParentQuantity
        /\ \A e \in About(Awaited, c) : ~Closing(e.payload, c)
    BY <2>2, MarkedClient
  <2>4. /\ state'.children[c] # NoChild /\ Marked(state.children[c], state'.children[c], p(i).kind)
        /\ p(i).exchange_order_id = state.children[c].exchange_order_id
    BY <1>9, <1>12, <2>1
  <2>5. Tracks(c, state'.children[c], exchange.orders[c], About(Awaited, c))
    BY <2>3, <2>4, TracksFlags DEF Marked
  <2>6. Has(c)' /\ exchange'.orders[c] = exchange.orders[c]
    BY <1>3, <2>3
  <2>7. ChildSound(c)'
    BY <1>4, <2>3, <2>4, <2>5, <2>6 DEF ChildSound, Marked
  <2>8. EndFits(c)'
    BY <1>4, <2>3 DEF EndFits
  <2>9. Knows(c)'
    BY <2>4 DEF Knows, knows_client_order_id
  <2>10. SentAbout(c)' = {t[i]} /\ FailedAbout(c)' = {}
    BY <1>4, <1>6, <1>7, <2>1, <2>3
  <2>11. Targets(t[i], c)'
    BY <2>3, <2>4, <2>6, <2>9, <2>10 DEF Targets, Marked, p
  <2> QED BY <2>1, <2>3, <2>4, <2>7, <2>8, <2>9, <2>11 DEF Marked
<1>13. \A i \in 1..n : CommandSound(t[i])'
  <2>1. ASSUME NEW i \in 1..n PROVE CommandSound(t[i])'
    <3>1. PICK task : task = t[i] /\ task.event.payload = p(i)
      BY DEF p
    <3>2. p(i).kind \in {"Submit", "Replace"} => p(i).quantity \in 1..ParentQuantity
      BY <1>8 DEF Opens
    <3>3. ASSUME p(i).kind = "Cancel"
          PROVE  state'.children[p(i).client].cancel_pending /\ Targets(task, p(i).client)'
      BY <1>9, <1>12, <3>1, <3>3 DEF Marked
    <3>4. ASSUME p(i).kind = "Replace"
          PROVE  state'.children[p(i).client].replace_pending /\ Targets(task, p(i).client)'
      BY <1>9, <1>12, <3>1, <3>4 DEF Marked
    <3>5. CommandSound(task)'
      BY <1>8, <3>1, <3>2, <3>3, <3>4 DEF CommandSound
    <3> QED BY <3>1, <3>5
  <2> QED BY <2>1
<1>14. \A c \in ClientIds \ X : Untouched(c)
  <2>1. ASSUME NEW c \in ClientIds, c \notin X PROVE Untouched(c)
    <3>1. \A i \in 1..n : c \notin Names(p(i))
      BY <2>1
    <3>2. SentAbout(c)' = SentAbout(c)
      BY <1>2, <1>5, <3>1
    <3>3. Kept(c)
      BY <1>4, <1>10, <2>1 DEF Kept
    <3> QED BY <1>4, <3>2, <3>3 DEF Untouched
  <2> QED BY <2>1
<1>15. \A c \in X : /\ ChildSound(c)' /\ EndFits(c)' /\ FailedAbout(c) = {}
                    /\ \/ ~Knows(c) /\ state'.children[c].cum = 0
                       \/ /\ Knows(c) /\ Knows(c)'
                          /\ state'.children[c].cum = state.children[c].cum
  <2>1. ASSUME NEW c \in X
        PROVE  /\ ChildSound(c)' /\ EndFits(c)' /\ FailedAbout(c) = {}
               /\ \/ ~Knows(c) /\ state'.children[c].cum = 0
                  \/ /\ Knows(c) /\ Knows(c)'
                     /\ state'.children[c].cum = state.children[c].cum
    <3>1. PICK i \in 1..n : c \in Names(p(i))
      OBVIOUS
    <3>2. CASE c \in Opens(p(i))
      BY <1>8, <1>11, <3>2
    <3>3. CASE p(i).kind \in {"Cancel", "Replace"} /\ c = p(i).client
      BY <1>12, <3>3
    <3> QED BY <1>6, <3>1, <3>2, <3>3
  <2> QED BY <2>1
<1>16. CommandsSound' /\ FailuresFit' /\ ChildrenSound' /\ EndsInTime'
  <2>1. clock \in Int /\ clock' = clock
    BY <1>0, TimesAreInts
  <2>2. \A task \in Sent' :
           \/ task \in Sent /\ Names(task.event.payload) \cap X = {}
           \/ CommandSound(task)'
    <3>1. \A task \in Sent : Names(task.event.payload) = {}
      BY <1>2 DEF Names, ChildEvents
    <3> HIDE DEF X
    <3> QED BY <1>1, <1>13, <3>1
  <2>3. ASSUME NEW i \in Failed
        PROVE  /\ i \in Failed /\ kernel'.failures[i] = kernel.failures[i]
               /\ kernel.failures[i].command.client \notin X
    <3>1. PICK c : c = kernel.failures[i].command.client
      OBVIOUS
    <3>2. c \in Names(kernel.failures[i].command)
      BY <1>2, <3>1 DEF Names
    <3>3. i \in FailedAbout(c)
      BY <3>2 DEF FailedAbout
    <3> QED BY <1>1, <1>15, <3>1, <3>3
  <2>4. \A i \in Failed' :
           \/ /\ i \in Failed /\ kernel'.failures[i] = kernel.failures[i]
              /\ kernel.failures[i].command.client \notin X
           \/ FailureFits(i)'
    BY <1>1, <2>3
  <2>5. \A c \in X \cap ClientIds : (Knows(c)' => ChildSound(c)') /\ EndFits(c)'
    BY <1>15
  <2> HIDE DEF X
  <2> QED BY <1>0, <1>14, <2>1, <2>2, <2>4, <2>5, Elsewhere
<1>17. ExecutionsSound'
  BY <1>0, <1>1 DEF ExecutionsSound
<1>18. LedgerSound'
  <2>1. Idle
    BY DecisionIdle
  <2>2. /\ state.filled = Booked(state) /\ Completions = {}
        /\ \A e \in Awaited : e.payload.kind # "TerminalCompletion"
        /\ state.terminal_applied = FALSE /\ state.terminal_pending = FALSE
    BY <1>0, <2>1 DEF LedgerSound, Idle
  <2>3. Completions' = {}
    BY <1>1, <2>2 DEF Completions
  <2>4. Booked(state') = Booked(state)
    <3> HIDE DEF X
    <3>1. \A c \in ClientIds :
           \/ state'.children[c] = state.children[c]
           \/ /\ state'.children[c] = NoChild \/ state'.children[c].cum = 0
              /\ state.children[c] = NoChild \/ state.children[c].cum = 0
           \/ /\ state'.children[c] # NoChild /\ state.children[c] # NoChild
              /\ state'.children[c].cum = state.children[c].cum
      BY <1>10, <1>15 DEF Knows, knows_client_order_id
    <3> QED BY <3>1, BookedSame
  <2>5. \A e \in Awaited' : e.payload.kind # "TerminalCompletion"
    BY <1>1, <2>2
  <2>6. state'.terminal_applied = FALSE /\ state'.terminal_pending = FALSE /\ state'.filled = Booked(state')
    BY <2>2, <2>4
  <2> QED BY <2>3, <2>5, <2>6, LedgerIdle
<1> QED BY <1>1, <1>16, <1>17, <1>18 DEF JInv

LEMMA Division ==
  ASSUME NEW p \in Nat, NEW d \in Nat \ {0}
  PROVE  /\ p = d * (p \div d) + (p % d) /\ p \div d \in Nat
         /\ p % d \in Nat /\ p % d < d
<1>1. p = d * (p \div d) + (p % d)
  OBVIOUS
<1>2. p \div d \in Nat /\ p % d \in Nat /\ p % d < d
  OBVIOUS
<1> QED BY <1>1, <1>2

LEMMA ProductGrows ==
  ASSUME NEW q \in Nat, NEW r \in Nat, NEW d \in Nat, r <= q
  PROVE  d * r \in Nat /\ d * q \in Nat /\ d * r <= d * q
<1>1. PICK k \in Nat : q = r + k
  BY q - r \in Nat
<1>2. d * q = d * r + d * k
  BY <1>1
<1>3. d * k \in Nat /\ d * r \in Nat /\ d * q \in Nat
  BY <1>1
<1> QED BY <1>2, <1>3

\* Not more than what remains.
LEMMA FractionFits ==
  ASSUME NEW remaining \in Nat, NEW f \in Fractions
  PROVE  fraction_quantity(remaining, f) <= remaining
<1>1. f \in Nat \X Nat /\ f[1] \in 1..f[2]
  BY SystemAssumption
<1>2. PICK a \in Nat, d \in Nat \ {0} : a = f[1] /\ d = f[2] /\ a <= d
  BY <1>1
<1>3. PICK product \in Nat : product = remaining * a
  BY <1>2
<1>4. PICK q, m : q = product \div d /\ m = product % d
  OBVIOUS
<1>5. q \in Nat /\ m \in Nat /\ m < d /\ product = d * q + m
  BY <1>4, Division
<1>6. product <= d * remaining /\ d * remaining \in Nat
  <2>1. remaining * a <= remaining * d
    BY <1>2, ProductGrows
  <2>2. remaining * d = d * remaining
    BY <1>2
  <2> QED BY <1>2, <1>3, <2>1, <2>2, ProductGrows
<1>7. ASSUME q >= remaining, m # 0 \/ q > remaining PROVE FALSE
  <2>1. d * remaining <= d * q /\ d * q \in Nat
    BY <1>5, <1>7, ProductGrows
  <2>2. CASE m # 0
    BY <1>5, <1>6, <2>1, <2>2
  <2>3. CASE q > remaining
    <3>1. d * (remaining + 1) <= d * q
      BY <1>5, <2>3, ProductGrows
    <3>2. d * (remaining + 1) = d * remaining + d
      OBVIOUS
    <3> QED BY <1>5, <1>6, <2>1, <3>1, <3>2
  <2> QED BY <1>7, <2>2, <2>3
<1>8. fraction_quantity(remaining, f) =
        IF \/ Rounding = "Ceiling" /\ m # 0
           \/ Rounding = "Nearest" /\ m * 2 >= d
        THEN q + 1 ELSE q
  BY <1>2, <1>3, <1>4, Zenon DEF fraction_quantity
<1>9. m * 2 >= d => m # 0
  BY <1>5
<1> QED BY <1>5, <1>7, <1>8, <1>9

LEMMA QuantityFits ==
  ASSUME StateShape(state)
  PROVE  /\ Remaining(state) \in 0..ParentQuantity
         /\ \A q \in ChildQuantities : q \in 1..Remaining(state) /\ q \in 1..ParentQuantity
<1>1. Remaining(state) \in 0..ParentQuantity /\ ParentQuantity \in Nat
  BY StateAssumption DEF Remaining, StateShape
<1>2. \A f \in Fractions : /\ fraction_quantity(Remaining(state), f) \in Nat
                           /\ fraction_quantity(Remaining(state), f) <= Remaining(state)
  BY <1>1, FractionIsLots, FractionFits
<1>3. \A q \in ChildQuantities : q \in Nat \ {0} /\ q <= Remaining(state)
  BY <1>2 DEF ChildQuantities
<1> QED BY <1>1, <1>3

\* Each of the cancels has been noted on its child.
CancelsMarked(s, q, commands, m) ==
  /\ StateShape(q)
  /\ q.filled = s.filled /\ q.terminal_applied = s.terminal_applied
  /\ q.terminal_pending = s.terminal_pending /\ q.events = s.events
  /\ q.executions = s.executions /\ q.issues = s.issues
  /\ \A c \in ClientIds :
       IF \E i \in 1..m : commands[i].client = c
       THEN q.children[c] \in Child /\ Marked(s.children[c], q.children[c], "Cancel")
       ELSE q.children[c] = s.children[c]

LEMMA CancelMarks ==
  ASSUME NEW s, NEW commands, NEW m \in Nat, NEW r, CancelsMarked(s, r, commands, m),
         commands[m + 1] \in Cancels, s.children[commands[m + 1].client] \in Child,
         NEW q, q = register_command(r, commands[m + 1])
  PROVE  CancelsMarked(s, q, commands, m + 1)
<1>0. PICK c0 : c0 = commands[m + 1].client
  OBVIOUS
<1> DEFINE old == r.children[c0]
           new == [old EXCEPT !.cancel_pending = TRUE]
           children == [r.children EXCEPT ![c0] = new]
<1>1. c0 \in ClientIds /\ commands[m + 1].kind = "Cancel"
  BY <1>0 DEF Cancels
<1>2. q = [r EXCEPT !.children = children]
  BY <1>0, <1>1 DEF register_command
<1>3. /\ old \in Child /\ Marked(s.children[c0], old, "None")
      /\ old.replace_pending = s.children[c0].replace_pending
  <2>1. \/ old \in Child /\ Marked(s.children[c0], old, "Cancel")
        \/ old = s.children[c0]
    BY <1>1 DEF CancelsMarked
  <2> HIDE DEF old
  <2>2. Marked(s.children[c0], old, "None")
    BY <1>0, <2>1 DEF Marked
  <2>3. old.replace_pending = s.children[c0].replace_pending
    BY <1>0, <2>1 DEF Marked
  <2> QED BY <1>0, <2>1, <2>2, <2>3
<1>4. new \in Child /\ Marked(s.children[c0], new, "Cancel")
  <2> HIDE DEF old
  <2>1. /\ new.exchange_order_id = old.exchange_order_id /\ new.requested = old.requested
        /\ new.cum = old.cum /\ new.leaves = old.leaves /\ new.state = old.state
        /\ new.cancel_pending = TRUE /\ new.replace_pending = old.replace_pending
    BY <1>3 DEF Child
  <2>2. new \in Child
    BY <1>3 DEF Child
  <2> HIDE DEF new
  <2> QED BY <1>3, <2>1, <2>2 DEF Marked
<1> HIDE DEF new
<1>5. StateShape(r)
  BY DEF CancelsMarked
<1>6. children \in [ClientIds -> Child \cup {NoChild}]
  BY <1>4, <1>5 DEF StateShape
<1>7. \A c \in ClientIds : children[c] = IF c = c0 THEN new ELSE r.children[c]
  BY <1>5 DEF StateShape
<1> HIDE DEF children
<1>8. StateShape(q) /\ q.children = children
  BY <1>2, <1>5, <1>6, ChildrenShape
<1>9. /\ q.filled = r.filled /\ q.terminal_applied = r.terminal_applied
      /\ q.terminal_pending = r.terminal_pending /\ q.events = r.events
      /\ q.executions = r.executions /\ q.issues = r.issues
  BY <1>2, <1>5 DEF StateShape
<1>10. ASSUME NEW c \in ClientIds
       PROVE  IF \E i \in 1..(m + 1) : commands[i].client = c
              THEN q.children[c] \in Child /\ Marked(s.children[c], q.children[c], "Cancel")
              ELSE q.children[c] = s.children[c]
  <2>1. CASE c = c0
    <3>1. m + 1 \in 1..(m + 1)
      OBVIOUS
    <3> QED BY <1>0, <1>4, <1>7, <1>8, <2>1, <3>1
  <2>2. CASE c # c0
    <3>1. (\E i \in 1..(m + 1) : commands[i].client = c) <=> \E i \in 1..m : commands[i].client = c
      BY <1>0, <2>2
    <3>2. q.children[c] = r.children[c]
      BY <1>7, <1>8, <2>2
    <3> QED BY <3>1, <3>2 DEF CancelsMarked
  <2> QED BY <2>1, <2>2
<1> QED BY <1>8, <1>9, <1>10 DEF CancelsMarked

LEMMA AllCancelsMarked ==
  ASSUME NEW s, StateShape(s), NEW commands, Len(commands) \in Nat,
         \A i \in 1..Len(commands) : /\ commands[i] \in Cancels
                                     /\ s.children[commands[i].client] \in Child
  PROVE  CancelsMarked(s, register_action(s, commands), commands, Len(commands))
<1>1. PICK f : /\ f[0] = s
               /\ \A i \in 1..Len(commands) : f[i] = register_command(f[i - 1], commands[i])
               /\ register_action(s, commands) = f[Len(commands)]
  BY RegisteredSteps
<1> DEFINE Good == {m \in Nat : m <= Len(commands) => CancelsMarked(s, f[m], commands, m)}
<1>2. 0 \in Good
  <2>1. \A i \in 1..0 : FALSE
    OBVIOUS
  <2> QED BY <1>1, <2>1 DEF CancelsMarked
<1>3. ASSUME NEW m \in Nat, m \in Good PROVE m + 1 \in Good
  <2> SUFFICES ASSUME m + 1 <= Len(commands) PROVE CancelsMarked(s, f[m + 1], commands, m + 1)
    OBVIOUS
  <2>1. CancelsMarked(s, f[m], commands, m)
    BY <1>3
  <2>2. /\ f[m + 1] = register_command(f[m], commands[m + 1])
        /\ commands[m + 1] \in Cancels /\ s.children[commands[m + 1].client] \in Child
    BY <1>1
  <2> QED BY <2>1, <2>2, CancelMarks
<1>4. Nat \subseteq Good
  <2> HIDE DEF Good
  <2> QED BY <1>2, <1>3, NaturalInduction
<1>5. CancelsMarked(s, f[Len(commands)], commands, Len(commands))
  <2>1. \A m \in Nat : m <= Len(commands) => CancelsMarked(s, f[m], commands, m)
    BY <1>4
  <2>2. \A n \in Nat : n <= n
    OBVIOUS
  <2> QED BY <2>1, <2>2, Zenon
<1> QED BY <1>1, <1>5

\* The commands of a decision have set out, and have been registered.
LEMMA Dispatches ==
  ASSUME JInv, IInv, FixedReplies, NEW commands, NEW n \in Nat, Len(commands) = n,
         DOMAIN commands = 1..n, dispatch_validated_action(commands), ~kernel'.thrown
  PROVE  /\ state' = register_action(state, commands)
         /\ \E t : SetOut(kernel, t, n) /\ \A i \in 1..n : t[i].event.payload = commands[i]
<1>0. Shapes /\ ClockSound /\ NumbersSound
  BY DEF IInv, JInv
<1>1. PICK timings \in [1..n -> action_timing(clock)] :
        /\ kernel' = ScheduledCommands(commands, timings)
        /\ state' = IF kernel'.thrown THEN state ELSE register_action(state, commands)
  BY DEF dispatch_validated_action
<1>2. Counting(kernel) /\ kernel.current_time \in Int /\ clock \in Nat
  BY <1>0, KernelCounts, TimesAreInts
<1>3. \A i \in 1..n : timings[i] \in action_timing(clock) /\ timings[i].receive \in Int
  BY <1>1, <1>2, PathTimes
<1>4. PICK t : Sends(kernel, kernel', t, n, commands,
                     [i \in 1..n |-> timings[i].receive], ExchangeReceive, timings)
  <2>1. PICK q : q = kernel'
    OBVIOUS
  <2>2. q = ScheduledCommands(commands, timings) /\ ~q.thrown
    BY <1>1, <2>1
  <2>3. \E t : Sends(kernel, q, t, n, commands,
                     [i \in 1..n |-> timings[i].receive], ExchangeReceive, timings)
    BY <1>2, <1>3, <2>2, ScheduledMade
  <2> QED BY <2>1, <2>3
<1>5. \A i \in 1..n : /\ t[i].stage = ExchangeReceive /\ t[i].timing = timings[i]
                      /\ t[i].time = timings[i].receive /\ t[i].event.payload = commands[i]
  BY <1>4 DEF Sends, Carries
<1>6. SetOut(kernel, t, n)
  BY <1>2, <1>3, <1>4, <1>5 DEF SetOut, Sends
<1> QED BY <1>1, <1>5, <1>6

LEMMA CancelClients ==
  ASSUME NEW clients \in SUBSET ClientIds, NEW commands, commands = CancelCommands(clients)
  PROVE  /\ Len(commands) \in Nat /\ DOMAIN commands = 1..Len(commands)
         /\ \A i \in 1..Len(commands) :
              /\ commands[i].kind = "Cancel" /\ commands[i].client \in clients
              /\ commands[i].exchange_order_id =
                   state.children[commands[i].client].exchange_order_id
         /\ \A i, j \in 1..Len(commands) : commands[i].client = commands[j].client => i = j
<1> DEFINE ids == SetToSeq(clients)
           n == Cardinality(clients)
<1>1. IsFiniteSet(clients)
  BY StateAssumption, FS_Subset
<1>2. n \in Nat /\ ExistsBijection(1..n, clients)
  BY <1>1, FS_CardinalityType
<1>3. \E f \in [1..n -> clients] : IsInjective(f)
  BY <1>2 DEF ExistsBijection, Bijection, Injection, IsInjective
<1>4. ids \in [1..n -> clients] /\ IsInjective(ids)
  BY <1>3 DEF SetToSeq
<1> HIDE DEF ids, n
<1>5. commands = [i \in 1..n |->
         [kind |-> "Cancel", client |-> ids[i],
          exchange_order_id |-> state.children[ids[i]].exchange_order_id]]
  BY <1>4 DEF CancelCommands, ids
<1>6. Len(commands) = n /\ DOMAIN commands = 1..n
  BY <1>2, <1>5
<1>7. \A i, j \in 1..n : ids[i] = ids[j] => i = j
  BY <1>4 DEF IsInjective
<1> QED BY <1>2, <1>4, <1>5, <1>6, <1>7

\* The cancels of a decision.
LEMMA CancelsDecided ==
  ASSUME JInv, IInv, FixedReplies, Ready, pending_command_count(state) = 0,
         parent_status(state, clock) # "Completed",
         NEW clients \in SUBSET acknowledged_active_orders(state),
         dispatch_validated_action(CancelCommands(clients)), ~kernel'.thrown,
         UNCHANGED <<exchange, clock, cursor, routed>>
  PROVE  JInv' /\ state'.issues = state.issues /\ Calms
<1>1. clients \in SUBSET ClientIds /\ \A c \in clients : state.children[c] \in Child
  BY ActiveAccepted
<1>2. PICK commands : commands = CancelCommands(clients)
  OBVIOUS
<1>3. /\ Len(commands) \in Nat /\ DOMAIN commands = 1..Len(commands)
      /\ \A i \in 1..Len(commands) :
           /\ commands[i].kind = "Cancel" /\ commands[i].client \in clients
           /\ commands[i].exchange_order_id =
                state.children[commands[i].client].exchange_order_id
      /\ \A i, j \in 1..Len(commands) : commands[i].client = commands[j].client => i = j
  BY <1>1, <1>2, CancelClients
<1>4. \A i \in 1..Len(commands) : commands[i] \in Cancels
  BY <1>1, <1>2, CancelCommandsOf
<1>5. PICK n : n = Len(commands) /\ n \in Nat
  BY <1>3
<1>6. dispatch_validated_action(commands)
  BY <1>2
<1>7. PICK t : SetOut(kernel, t, n) /\ \A i \in 1..n : t[i].event.payload = commands[i]
  BY <1>3, <1>5, <1>6, Dispatches
<1>8. CancelsMarked(state, state', commands, n)
  <2>1. StateShape(state)
    BY DEF IInv, Shapes
  <2>2. CancelsMarked(state, register_action(state, commands), commands, Len(commands))
    BY <1>1, <1>3, <1>4, <2>1, AllCancelsMarked
  <2>3. state' = register_action(state, commands)
    BY <1>3, <1>5, <1>6, Dispatches
  <2> QED BY <1>5, <2>2, <2>3
<1>9. Decided(t, n)
  <2>1. \A i \in 1..n : /\ Names(commands[i]) = {commands[i].client} /\ Opens(commands[i]) = {}
                        /\ commands[i] \in Commands /\ commands[i].client \in ClientIds
    BY <1>1, <1>3, <1>4, <1>5 DEF Names, Opens, Commands
  <2>2. ASSUME NEW i \in 1..n
        PROVE  /\ state'.children[commands[i].client] # NoChild
               /\ Marked(state.children[commands[i].client], state'.children[commands[i].client],
                         "Cancel")
    <3>1. PICK c : c = commands[i].client
      OBVIOUS
    <3>2. state'.children[c] \in Child /\ Marked(state.children[c], state'.children[c], "Cancel")
      BY <1>8, <2>1, <3>1 DEF CancelsMarked
    <3> QED BY <3>1, <3>2, StateAssumption
  <2>3. \A i, j \in 1..n : i # j => Names(commands[i]) \cap Names(commands[j]) = {}
    BY <1>3, <1>5, <2>1
  <2>4. \A c \in ClientIds : (\A i \in 1..n : c \notin Names(commands[i])) =>
                              state'.children[c] = state.children[c]
    BY <1>8, <2>1 DEF CancelsMarked
  <2>5. ASSUME NEW i \in 1..n
        PROVE  LET p == t[i].event.payload
               IN  /\ p \in Commands
                   /\ \A c \in Opens(p) : /\ ~Knows(c) /\ p.quantity \in 1..ParentQuantity
                                          /\ state'.children[c] = NewChild(p.quantity)
                   /\ p.kind \in {"Cancel", "Replace"} =>
                        /\ p.client \in acknowledged_active_orders(state)
                        /\ p.exchange_order_id = state.children[p.client].exchange_order_id
                        /\ state'.children[p.client] # NoChild
                        /\ Marked(state.children[p.client], state'.children[p.client], p.kind)
    <3>1. t[i].event.payload = commands[i] /\ commands[i].kind = "Cancel"
      BY <1>3, <1>5, <1>7
    <3>2. commands[i].client \in acknowledged_active_orders(state)
      BY <1>3, <1>5
    <3> QED BY <1>3, <1>5, <2>1, <2>2, <3>1, <3>2
  <2>6. /\ \A i, j \in 1..n :
            i # j => Names(t[i].event.payload) \cap Names(t[j].event.payload) = {}
        /\ \A c \in ClientIds : (\A i \in 1..n : c \notin Names(t[i].event.payload)) =>
                            state'.children[c] = state.children[c]
    BY <1>7, <2>3, <2>4
  <2> QED BY <2>5, <2>6 DEF Decided
<1>10. /\ state'.filled = state.filled /\ state'.terminal_applied = state.terminal_applied
       /\ state'.terminal_pending = state.terminal_pending /\ state'.events = state.events
       /\ state'.executions = state.executions /\ state'.issues = state.issues
  BY <1>8 DEF CancelsMarked
<1>11. JInv'
  BY <1>5, <1>7, <1>9, <1>10, DecidedSound
<1>12. ASSUME NEW c \in ClientIds PROVE Calmer(c)
  <2>1. CASE \E i \in 1..n : commands[i].client = c
    <3>1. PICK k, m : k = state.children[c] /\ m = state'.children[c]
      OBVIOUS
    <3>2. Marked(k, m, "Cancel")
      BY <1>8, <2>1, <3>1 DEF CancelsMarked
    <3>3. c \in acknowledged_active_orders(state)
      BY <1>3, <1>5, <2>1
    <3>4. Knows(c) /\ Busy(k)
      BY <3>1, <3>3 DEF acknowledged_active_orders, acknowledged_active, Known, Knows, Busy
    <3> QED BY <3>1, <3>2, <3>4, OneCalmer DEF Marked
  <2>2. CASE ~\E i \in 1..n : commands[i].client = c
    BY <1>8, <2>2, SameCalmer DEF CancelsMarked
  <2> QED BY <2>1, <2>2
<1>13. Calms
  BY <1>10, <1>12 DEF Calms
<1> QED BY <1>10, <1>11, <1>13

LEMMA OneCommand ==
  ASSUME NEW command
  PROVE  Len(<<command>>) = 1 /\ DOMAIN <<command>> = 1..1 /\ <<command>>[1] = command
OBVIOUS

\* The submit of a decision.
LEMMA SubmitDecided ==
  ASSUME JInv, IInv, FixedReplies, Ready, pending_command_count(state) = 0,
         parent_status(state, clock) # "Completed", NEW command \in Submits,
         command.quantity \in 1..ParentQuantity, ~Knows(command.client),
         dispatch_validated_action(<<command>>), ~kernel'.thrown,
         UNCHANGED <<exchange, clock, cursor, routed>>
  PROVE  /\ JInv' /\ state'.issues = state.issues
         /\ OpensChild(command.client, command.quantity)
<1>0. PICK c0, q : c0 = command.client /\ q = command.quantity
  OBVIOUS
<1>a. PICK commands : commands = <<command>>
  OBVIOUS
<1>b. /\ Len(commands) = 1 /\ DOMAIN commands = 1..1 /\ commands[1] = command /\ 1 \in Nat
      /\ dispatch_validated_action(commands)
  BY <1>a, OneCommand
<1>c. /\ state' = register_action(state, commands)
      /\ \E t : SetOut(kernel, t, 1) /\ \A i \in 1..1 : t[i].event.payload = commands[i]
  BY <1>b, Dispatches
<1>1. PICK t : SetOut(kernel, t, 1) /\ \A i \in 1..1 : t[i].event.payload = commands[i]
  BY <1>c
<1>2. state' = register_command(state, command)
  BY <1>a, <1>c, RegisteredOne
<1>3. c0 \in ClientIds /\ command.kind = "Submit" /\ q \in 1..ParentQuantity /\ ~Knows(c0)
  BY <1>0 DEF Submits
<1>4. StateShape(state)
  BY DEF IInv, Shapes
<1>5. PICK new : new = NewChild(q)
  OBVIOUS
<1>6. state' = [state EXCEPT !.children[c0] = new]
  BY <1>0, <1>2, <1>3, <1>5 DEF register_command
<1>7. /\ \A c \in ClientIds : state'.children[c] = IF c = c0 THEN new ELSE state.children[c]
      /\ state'.filled = state.filled /\ state'.terminal_applied = state.terminal_applied
      /\ state'.terminal_pending = state.terminal_pending /\ state'.events = state.events
      /\ state'.executions = state.executions /\ state'.issues = state.issues
  BY <1>3, <1>4, <1>6 DEF StateShape
<1>8. t[1].event.payload = command
  BY <1>b, <1>1
<1>9. Names(command) = {c0} /\ Opens(command) = {c0} /\ command \in Commands
  BY <1>0, <1>3 DEF Names, Opens, Commands
<1>10. Decided(t, 1)
  <2>1. \A i \in 1..1 : t[i].event.payload = command
    BY <1>8
  <2>2. \A i, j \in 1..1 : i = j
    OBVIOUS
  <2>3. \A c \in ClientIds : (\A i \in 1..1 : c \notin Names(t[i].event.payload)) =>
                              state'.children[c] = state.children[c]
    BY <1>7, <1>9, <2>1
  <2>4. state'.children[c0] = NewChild(q)
    BY <1>3, <1>5, <1>7
  <2> QED BY <1>0, <1>3, <1>9, <2>1, <2>2, <2>3, <2>4 DEF Decided
<1>11. JInv'
  BY <1>1, <1>7, <1>10, DecidedSound
<1>12. OpensChild(c0, q)
  BY <1>3, <1>5, <1>7 DEF OpensChild
<1> QED BY <1>0, <1>7, <1>11, <1>12

\* The replacement of a decision.
LEMMA ReplaceDecided ==
  ASSUME JInv, IInv, FixedReplies, Ready, pending_command_count(state) = 0,
         parent_status(state, clock) # "Completed", NEW command \in Replaces,
         command.quantity \in 1..ParentQuantity, ~Knows(command.new_client),
         command.client \in acknowledged_active_orders(state),
         command.exchange_order_id = state.children[command.client].exchange_order_id,
         dispatch_validated_action(<<command>>), ~kernel'.thrown,
         UNCHANGED <<exchange, clock, cursor, routed>>
  PROVE  JInv' /\ state'.issues = state.issues
<1>0. PICK c0, d0, q : c0 = command.client /\ d0 = command.new_client /\ q = command.quantity
  OBVIOUS
<1>a. PICK commands : commands = <<command>>
  OBVIOUS
<1>b. /\ Len(commands) = 1 /\ DOMAIN commands = 1..1 /\ commands[1] = command /\ 1 \in Nat
      /\ dispatch_validated_action(commands)
  BY <1>a, OneCommand
<1>c. /\ state' = register_action(state, commands)
      /\ \E t : SetOut(kernel, t, 1) /\ \A i \in 1..1 : t[i].event.payload = commands[i]
  BY <1>b, Dispatches
<1>1. PICK t : SetOut(kernel, t, 1) /\ \A i \in 1..1 : t[i].event.payload = commands[i]
  BY <1>c
<1>2. state' = register_command(state, command)
  BY <1>a, <1>c, RegisteredOne
<1>3. /\ c0 \in ClientIds /\ d0 \in ClientIds /\ command.kind = "Replace"
      /\ q \in 1..ParentQuantity /\ ~Knows(d0) /\ Knows(c0) /\ c0 # d0
      /\ c0 \in acknowledged_active_orders(state) /\ state.children[c0] \in Child
  <2>1. Knows(c0) /\ state.children[c0] \in Child
    BY <1>0, ActiveAccepted
  <2> QED BY <1>0, <2>1 DEF Replaces
<1>4. StateShape(state)
  BY DEF IInv, Shapes
<1>5. PICK new : new = NewChild(q)
  OBVIOUS
<1>6. PICK old, marked : old = state.children[c0] /\ marked = [old EXCEPT !.replace_pending = TRUE]
  OBVIOUS
<1>7. marked \in Child /\ Marked(old, marked, "Replace")
  <2>1. old \in Child
    BY <1>3, <1>6
  <2>2. /\ marked.exchange_order_id = old.exchange_order_id /\ marked.requested = old.requested
        /\ marked.cum = old.cum /\ marked.leaves = old.leaves /\ marked.state = old.state
        /\ marked.replace_pending = TRUE
    BY <1>6, <2>1 DEF Child
  <2>3. marked \in Child
    BY <1>6, <2>1 DEF Child
  <2> QED BY <2>2, <2>3 DEF Marked
<1>8. state' = [state EXCEPT !.children = [[state.children EXCEPT ![c0] = marked]
                                           EXCEPT ![d0] = new]]
  <2>1. state' = [state EXCEPT !.children[c0].replace_pending = TRUE, !.children[d0] = new]
    BY <1>0, <1>2, <1>3, <1>5 DEF register_command
  <2> QED BY <1>4, <1>6, <2>1 DEF StateShape
<1>9. /\ \A c \in ClientIds : state'.children[c] = IF c = d0 THEN new
                                                   ELSE IF c = c0 THEN marked ELSE state.children[c]
      /\ state'.filled = state.filled /\ state'.terminal_applied = state.terminal_applied
      /\ state'.terminal_pending = state.terminal_pending /\ state'.events = state.events
      /\ state'.executions = state.executions /\ state'.issues = state.issues
  BY <1>3, <1>4, <1>8 DEF StateShape
<1>10. Names(command) = {c0, d0} /\ Opens(command) = {d0} /\ command \in Commands
  BY <1>0, <1>3 DEF Names, Opens, Commands
<1>11. Decided(t, 1)
  <2>1. \A i \in 1..1 : t[i].event.payload = command
    BY <1>b, <1>1
  <2>2. \A i, j \in 1..1 : i = j
    OBVIOUS
  <2>3. \A c \in ClientIds : (\A i \in 1..1 : c \notin Names(t[i].event.payload)) =>
                              state'.children[c] = state.children[c]
    BY <1>9, <1>10, <2>1
  <2>4. state'.children[d0] = NewChild(q) /\ state'.children[c0] = marked
    BY <1>3, <1>5, <1>9
  <2>5. marked # NoChild
    BY <1>7, StateAssumption
  <2> QED BY <1>0, <1>3, <1>6, <1>7, <1>10, <2>1, <2>2, <2>3, <2>4, <2>5 DEF Decided
<1> QED BY <1>1, <1>9, <1>11, DecidedSound

\* A strategy decides.
LEMMA DecideStep ==
  ASSUME JInv, IInv, FixedReplies, Decide, ~kernel'.thrown
  PROVE  JInv' /\ state'.issues = state.issues
<1>1. UNCHANGED <<exchange, clock, cursor, routed>> /\ Ready
  BY DEF Decide
<1>2. StateShape(state) /\ StrategyIds \subseteq ClientIds
  BY SystemAssumption DEF IInv, Shapes
<1>3. \A q \in ChildQuantities : q \in 1..ParentQuantity /\ q \in Nat
  <2>1. ParentQuantity \in Nat
    BY StateAssumption
  <2> QED BY <1>2, <2>1, QuantityFits
<1>4. CASE StrategySubmit
  <2>1. PICK c \in StrategyIds, q \in ChildQuantities, tif \in {"GTC", "IOC"} :
          LET command == [kind |-> "Submit", client |-> c, tif |-> tif, quantity |-> q]
          IN  validate_submit(command) /\ dispatch_validated_action(<<command>>)
    BY <1>4 DEF StrategySubmit
  <2>2. PICK command : command = [kind |-> "Submit", client |-> c, tif |-> tif, quantity |-> q]
    OBVIOUS
  <2>3. command \in Submits /\ command.quantity \in 1..ParentQuantity
    BY <1>2, <1>3, <2>2 DEF Submits
  <2>4. validate_submit(command) /\ dispatch_validated_action(<<command>>)
    BY <2>1, <2>2
  <2>5. /\ ~Knows(command.client) /\ pending_command_count(state) = 0
        /\ parent_status(state, clock) # "Completed"
    BY <2>4 DEF validate_submit, validate_common, Knows
  <2> QED BY <1>1, <2>3, <2>4, <2>5, SubmitDecided
<1>5. CASE StrategyCancel
  <2>1. PICK clients \in SUBSET StrategyIds :
          validate_cancel(clients) /\ dispatch_validated_action(CancelCommands(clients))
    BY <1>5 DEF StrategyCancel
  <2>2. /\ clients \in SUBSET acknowledged_active_orders(state)
        /\ pending_command_count(state) = 0 /\ parent_status(state, clock) # "Completed"
    BY <2>1 DEF validate_cancel, validate_common
  <2> QED BY <1>1, <2>1, <2>2, CancelsDecided
<1>6. CASE StrategyReplace
  <2>1. PICK c \in StrategyIds, new \in StrategyIds, q \in ChildQuantities :
          LET command == [kind |-> "Replace", client |-> c, new_client |-> new, quantity |-> q,
                          exchange_order_id |-> state.children[c].exchange_order_id]
          IN  validate_replace(command) /\ dispatch_validated_action(<<command>>)
    BY <1>6 DEF StrategyReplace
  <2>2. PICK command :
          command = [kind |-> "Replace", client |-> c, new_client |-> new, quantity |-> q,
                     exchange_order_id |-> state.children[c].exchange_order_id]
    OBVIOUS
  <2>3. validate_replace(command) /\ dispatch_validated_action(<<command>>)
    BY <2>1, <2>2
  <2>4. /\ command.client \in acknowledged_active_orders(state) /\ ~Knows(command.new_client)
        /\ pending_command_count(state) = 0 /\ parent_status(state, clock) # "Completed"
    BY <2>3 DEF validate_replace, validate_common, Knows
  <2>5. command.client = c /\ command.quantity \in 1..ParentQuantity
        /\ command.exchange_order_id = state.children[command.client].exchange_order_id
    BY <1>3, <2>2
  <2>6. state.children[c].exchange_order_id \in Nat
    BY <2>4, <2>5, ActiveAccepted DEF Child
  <2>7. command \in Replaces
    BY <1>2, <1>3, <2>2, <2>6 DEF Replaces
  <2> QED BY <1>1, <2>3, <2>4, <2>5, <2>7, ReplaceDecided
<1> QED BY <1>4, <1>5, <1>6 DEF Decide

\* A child that can no longer trade: nothing is told about it any more.
LEMMA EndedQuiet ==
  ASSUME Shapes, NEW c \in ClientIds, Knows(c), ChildSound(c),
         state.children[c].state \notin {"PendingNew"} \cup ActiveStates
  PROVE  About(Awaited, c) = {}
<1>1. PICK k, o, T : k = state.children[c] /\ o = exchange.orders[c] /\ T = About(Awaited, c)
  OBVIOUS
<1>2. k.state \notin {"PendingNew"} \cup ActiveStates
  BY <1>1
<1>3. CASE ~Has(c)
  <2>1. Untraded(k, T)
    BY <1>1, <1>3 DEF ChildSound
  <2> QED BY <1>1, <1>2, <2>1 DEF Untraded
<1>4. CASE Has(c)
  <2>1. Tracks(c, k, o, T)
    BY <1>1, <1>4 DEF ChildSound
  <2>2. o.id \in Nat \ {0} /\ o.quantity \in Nat \ {0} /\ o.cum \in 0..o.quantity
    BY <2>1, TracksKnown
  <2>3. k.state # "PendingNew" /\ k \in Child
    BY <1>1, <1>2, KnownChild DEF Shapes, Knows
  <2>4. CASE FollowsOrder(k, o) /\ (o.state \in Closed => \E e \in T : Closing(e.payload, c))
    <3>1. k.exchange_order_id = o.id /\ k.leaves = o.quantity - k.cum /\ k.leaves = 0
      BY <1>2, <2>4 DEF FollowsOrder, ActiveStates
    <3>2. k.cum = o.quantity /\ o.cum = o.quantity
      <4>1. k.cum \in Nat /\ k.cum <= o.cum
        BY <2>1, <2>3 DEF Child, Tracks
      <4> QED BY <2>2, <3>1, <4>1
    <3>3. o.state \notin Closed
      BY <2>1, <2>2, <3>2 DEF Tracks, SoundOrder
    <3>4. ASSUME NEW e \in T PROVE FALSE
      <4>1. TellsOf(c, k, o, T, e)
        BY <2>1 DEF Tracks
      <4>2. ~Opening(e.payload, c)
        BY <2>2, <3>1, <4>1 DEF TellsOf, OpensOrder, NoExchangeId
      <4>3. ~Closing(e.payload, c)
        BY <3>3, <4>1 DEF TellsOf, ClosesOrder
      <4>4. Filling(e.payload, c) /\ FillsOrder(c, k, o, T, e)
        BY <4>1, <4>2, <4>3 DEF TellsOf
      <4>5. e.payload \in Replies
        BY <1>1, AboutTold
      <4>6. e.payload \in FillEvents
        BY <4>4, <4>5 DEF Replies, Acks, Rejections, CancelAcks, ReplaceAcks, Filling
      <4>7. e.payload.quantity \in Nat /\ e.payload.cum \in Nat
        BY <4>6 DEF FillEvents
      <4>8. e.payload.quantity # 0 /\ e.payload.cum <= o.cum
            /\ k.cum + e.payload.quantity <= e.payload.cum
        BY <4>4 DEF FillsOrder
      <4> QED BY <2>2, <3>2, <4>7, <4>8
    <3> QED BY <1>1, <3>4
  <2>5. k # NewChild(o.quantity)
    BY <2>3 DEF NewChild
  <2> QED BY <1>1, <2>1, <2>4, <2>5 DEF Tracks
<1> QED BY <1>3, <1>4

\* With no order active and no command pending, nothing can trade any more.
LEMMA NothingLeft ==
  ASSUME JInv, IInv, FixedReplies, Ready, pending_command_count(state) = 0, Idle,
         acknowledged_active_orders(state) = {}
  PROVE  Over /\ Awaited = {}
<1>0. Shapes /\ ChildrenSound /\ LedgerSound
  BY DEF JInv, IInv
<1>1. \A c \in ClientIds : Knows(c) => state.children[c].state # "PendingNew" /\ ~Asked(c)
  BY NothingPending
<1>2. \A c \in ClientIds : Knows(c) => ~acknowledged_active(state.children[c])
  BY DEF acknowledged_active_orders, Known, Knows
<1>3. ASSUME NEW c \in ClientIds, Knows(c)
      PROVE  state.children[c].state \notin {"PendingNew"} \cup ActiveStates
  <2>1. PICK k, o : k = state.children[c] /\ o = exchange.orders[c]
    OBVIOUS
  <2>2. k.state # "PendingNew" /\ (k.exchange_order_id = NoExchangeId \/ k.state \notin ActiveStates)
    BY <1>1, <1>2, <1>3, <2>1 DEF acknowledged_active
  <2>3. ChildSound(c)
    BY <1>0, <1>3 DEF ChildrenSound
  <2>4. CASE ~Has(c)
    BY <2>1, <2>2, <2>3, <2>4 DEF ChildSound, Untraded, ActiveStates
  <2>5. CASE Has(c)
    <3>1. Tracks(c, k, o, About(Awaited, c))
      BY <2>1, <2>3, <2>5 DEF ChildSound
    <3>2. k.exchange_order_id # NoExchangeId
      BY <2>2, <3>1, TracksKnown DEF NoExchangeId
    <3> QED BY <2>1, <2>2, <3>2
  <2> QED BY <2>4, <2>5
<1>4. Live = {}
  <2>1. ASSUME NEW c \in Live PROVE FALSE
    <3>1. c \in ClientIds /\ Knows(c) /\ state.children[c].state \in {"PendingNew"} \cup ActiveStates
      BY DEF Live, IInv, NoForgottenOrder, Knows
    <3> QED BY <1>3, <3>1
  <2> QED BY <2>1
<1>5. \A task \in Sent : task.event.payload.kind = "Take"
  BY Calm
<1>6. ASSUME NEW e \in Awaited PROVE FALSE
  <2>1. e.payload.kind # "TerminalCompletion"
    BY <1>0 DEF LedgerSound, Idle
  <2>2. e.payload \in Replies
    BY <1>0, <2>1, AwaitedReplies
  <2>3. PICK c \in ClientIds : c \in Names(e.payload)
    <3>1. /\ e.payload.client \in ClientIds
          /\ e.payload.kind \in {"ReplaceAcknowledged"} \cup ChildEvents
      BY <2>2 DEF Replies, Acks, Rejections, CancelAcks, FillEvents, ReplaceAcks, ChildEvents
    <3>2. e.payload.client \in Names(e.payload)
      BY <3>1 DEF Names
    <3> QED BY <3>1, <3>2
  <2>4. e \in About(Awaited, c)
    BY <2>3 DEF About
  <2>5. Knows(c)
    BY <2>4, StrangersQuiet
  <2>6. About(Awaited, c) = {}
    BY <1>0, <1>3, <2>5, EndedQuiet DEF ChildrenSound
  <2> QED BY <2>4, <2>6
<1> QED BY <1>3, <1>4, <1>5, <1>6 DEF Over

\* The planner completes the parent order explicitly.
LEMMA FallbackStep ==
  ASSUME JInv, IInv, FixedReplies, Ready, pending_command_count(state) = 0, Idle,
         ExplicitFallback, ~kernel'.thrown, UNCHANGED <<exchange, clock, cursor, routed>>
  PROVE  JInv'
<1>0. /\ Shapes /\ ClockSound /\ NumbersSound /\ ExecutionsSound /\ CommandsSound /\ FailuresFit
      /\ ChildrenSound /\ EndsInTime /\ LedgerSound
  BY DEF IInv, JInv
<1>1. Over /\ Awaited = {}
  BY NothingLeft DEF ExplicitFallback
<1>2. PICK payload :
        /\ payload = [kind |-> "TerminalCompletion", quantity |-> Remaining(state)]
        /\ kernel' = schedule_system_event(Call(kernel), payload, clock)
  BY DEF ExplicitFallback
<1>3. /\ state'.children = state.children /\ state'.filled = state.filled
      /\ state'.terminal_applied = FALSE /\ state'.terminal_pending = TRUE
      /\ state'.events = state.events /\ state'.executions = state.executions
  <2>1. StateShape(state) /\ state' = [state EXCEPT !.terminal_pending = TRUE]
        /\ state.terminal_applied = FALSE
    BY <1>0 DEF ExplicitFallback, mark_terminal_completion_pending, Shapes, Idle, LedgerSound
  <2> QED BY <2>1 DEF StateShape
<1>4. PICK k : k = Call(kernel)
  OBVIOUS
<1>5. /\ Counting(k) /\ ~k.thrown /\ k.current_time \in Int /\ k.queue = kernel.queue
      /\ k.current_time = kernel.current_time
      /\ k.delivered_events = kernel.delivered_events /\ k.failures = kernel.failures
      /\ k.next_event_id = kernel.next_event_id /\ k.next_sequence = kernel.next_sequence
  BY <1>0, <1>4, CalledKernel
<1>6. clock \in Int /\ clock \in Time
  BY <1>0, TimesAreInts DEF ClockSound
<1>7. kernel' = Generate(k, payload, clock, System, NoTiming)
  BY <1>2, <1>4 DEF schedule_system_event
<1>8. PICK task : Made(k, kernel', task) /\ Carries(task, payload, clock, System, NoTiming)
  BY <1>5, <1>6, <1>7, GenerateMade
<1>9. PICK t : t = [i \in 1..1 |-> task]
  OBVIOUS
<1>10. /\ t[1] = task /\ (\A i \in 1..1 : t[i] = task) /\ {t[i] : i \in 1..1} = {task}
  BY <1>9
<1>11. Batch(k, kernel', t, 1)
  BY <1>5, <1>8, <1>9, MadeBatch
<1>12. /\ kernel'.queue = kernel.queue \cup {task} /\ kernel'.current_time = kernel.current_time
       /\ kernel'.delivered_events = kernel.delivered_events /\ kernel'.failures = kernel.failures
  BY <1>5, <1>8 DEF Made, Keeps
<1>13. /\ task.stage = System /\ task.time = clock /\ task.event.payload = payload
       /\ task.event.available = clock
  BY <1>8 DEF Carries
<1>14. /\ ~IsCommand(task) /\ EventTasks' = EventTasks \cup {task} /\ Sent' = Sent
       /\ Waiting' = Waiting /\ Failed' = Failed /\ Completions' = Completions
  <2>1. ~IsCommand(task)
    BY <1>13, StagesDiffer DEF IsCommand
  <2> QED BY <1>12, <2>1 DEF EventTasks, Sent, Waiting, Failed, Completions
<1>15. EventTasks = {} /\ Waiting = {}
  BY <1>1, ReadyMeans, <1>0 DEF Awaited
<1>16. Numbered(kernel, kernel', t, 1)
  BY <1>5, <1>11 DEF Batch, Numbered
<1>17. Awaited' = {task.event} /\ NumbersSound'
  <2>1. \A u \in EventTasks : FALSE
    BY <1>15
  <2>2. /\ EventTasks' = EventTasks \cup {t[i] : i \in 1..1}
        /\ \A i \in 1..1 : t[i].time = clock
        /\ \A i \in 1..1 : t[i].stage = System => 1 = 1 /\ EventTasks = {}
    BY <1>10, <1>13, <1>14, <1>15
  <2>3. \A i \in Waiting : kernel'.delivered_events[i] = kernel.delivered_events[i]
    BY <1>12
  <2>4. /\ Awaited' = Awaited \cup {t[i].event : i \in 1..1} /\ NumbersSound'
    BY <1>0, <1>3, <1>6, <1>14, <1>16, <2>1, <2>2, <2>3, NumbersGrow
  <2>5. {t[i].event : i \in 1..1} = {task.event}
    BY <1>10
  <2> QED BY <1>1, <2>4, <2>5
<1>18. ClockSound'
  <2>1. kernel.current_time <= clock
    BY <1>0 DEF ClockSound
  <2>2. \A u \in kernel'.queue : u.time \in Time /\ kernel'.current_time <= u.time
    BY <1>0, <1>6, <1>12, <1>13, <2>1 DEF ClockSound
  <2>3. \A u \in Sent' : OnItsWay(u)
    BY <1>0, <1>14 DEF ClockSound
  <2>4. \A u \in EventTasks' : u = task
    BY <1>14, <1>15
  <2>5. \A u \in EventTasks' :
          /\ u.event.available = u.time
          /\ u.stage = ObserverAvailable => u.time <= kernel'.current_time + ReplyDelay
          /\ u.stage = System => u.time <= clock'
    BY <1>6, <1>13, <2>4, StagesDiffer
  <2>6. \A u \in Sent' : OnItsWay(u)'
    BY <2>3 DEF OnItsWay
  <2> QED BY <1>0, <1>12, <1>14, <1>15, <2>2, <2>5, <2>6 DEF ClockSound
<1>19. CommandsSound' /\ FailuresFit' /\ ChildrenSound' /\ EndsInTime'
  <2>1. payload.kind = "TerminalCompletion"
    BY <1>2
  <2>2. Names(payload) = {}
    BY <2>1 DEF Names, ChildEvents
  <2>3. \A c \in ClientIds : About(Awaited, c)' = About(Awaited, c)
    BY <1>1, <1>13, <1>17, <2>2 DEF About
  <2>4. clock' \in Int /\ clock <= clock'
    BY <1>6
  <2> QED BY <1>0, <1>3, <1>12, <1>14, <2>3, <2>4, QuietClients
<1>20. ExecutionsSound'
  <2>1. payload.kind # "Fill"
    BY <1>2
  <2> QED BY <1>0, <1>3, <1>13, <1>17, <2>1 DEF ExecutionsSound
<1>21. LedgerSound'
  <2>1. Over'
    BY <1>1, <1>3, <1>14 DEF Over, Live, Knows, knows_client_order_id
  <2>2. Completions' \subseteq Waiting'
    BY <1>0, <1>14 DEF LedgerSound, Idle
  <2>3. state'.filled = Booked(state')
    BY <1>0, <1>3 DEF LedgerSound, Idle, Booked, BookedLots, knows_client_order_id
  <2>4. payload = [kind |-> "TerminalCompletion", quantity |-> Remaining(state')]
    BY <1>2, <1>3 DEF Remaining
  <2> QED BY <1>3, <1>13, <1>17, <2>1, <2>2, <2>3, <2>4, LedgerPending
<1> QED BY <1>17, <1>18, <1>19, <1>20, <1>21 DEF JInv

\* The terminal planner.
LEMMA PlanStep ==
  ASSUME JInv, IInv, FixedReplies, PlanTerminal, ~kernel'.thrown
  PROVE  JInv' /\ state'.issues = state.issues
<1>1. /\ UNCHANGED <<exchange, clock, cursor, routed>> /\ Ready
      /\ pending_command_count(state) = 0
      /\ parent_status(state, clock) = "TerminalCompletionPending"
  BY DEF PlanTerminal
<1>2. parent_status(state, clock) # "Completed"
  BY <1>1
<1>3. StateShape(state)
  BY DEF IInv, Shapes
<1>4. CASE CancelActiveChildren
  <2>1. dispatch_validated_action(CancelCommands(acknowledged_active_orders(state)))
    BY <1>4 DEF CancelActiveChildren
  <2>2. acknowledged_active_orders(state) \in SUBSET acknowledged_active_orders(state)
    OBVIOUS
  <2> QED BY <1>1, <1>2, <2>1, <2>2, CancelsDecided
<1>5. CASE SubmitAggressiveResidual
  <2>1. PICK c \in ClientIds \ StrategyIds :
          LET command == [kind |-> "Submit", client |-> c, tif |-> "IOC",
                          quantity |-> Remaining(state)]
          IN  validate_submit(command) /\ dispatch_validated_action(<<command>>)
    BY <1>5 DEF SubmitAggressiveResidual
  <2>2. PICK command : command = [kind |-> "Submit", client |-> c, tif |-> "IOC",
                                  quantity |-> Remaining(state)]
    OBVIOUS
  <2>3. Remaining(state) # 0 /\ Remaining(state) \in 0..ParentQuantity /\ ParentQuantity \in Nat
    BY <1>2, <1>3, QuantityFits, StateAssumption DEF parent_status
  <2>4. command \in Submits /\ command.quantity \in 1..ParentQuantity
    <3>1. Remaining(state) \in Nat /\ Remaining(state) \in 1..ParentQuantity
      BY <2>3
    <3> QED BY <2>2, <3>1 DEF Submits
  <2>5. validate_submit(command) /\ dispatch_validated_action(<<command>>)
    BY <2>1, <2>2
  <2>6. ~Knows(command.client)
    BY <2>5 DEF validate_submit, Knows
  <2> QED BY <1>1, <1>2, <2>4, <2>5, <2>6, SubmitDecided
<1>6. CASE ExplicitFallback
  <2>1. Idle
    BY <1>1, <1>2, DecisionIdle
  <2>2. state'.issues = state.issues
    BY <1>3, <1>6 DEF ExplicitFallback, mark_terminal_completion_pending, StateShape
  <2> QED BY <1>1, <1>6, <2>1, <2>2, FallbackStep
<1> QED BY <1>4, <1>5, <1>6 DEF PlanTerminal

===============================================================================
