------------------------ MODULE ExecutionLedger_proofs ------------------------
(***************************************************************************)
(* Proofs about what the execution state has booked, of the invariants     *)
(* that ExecutionSystem_proofs defines.  They need replies that take a     *)
(* fixed time, so that the events about an order arrive in the order in    *)
(* which the exchange caused them, and kernel calls that return: an        *)
(* exception ends the loop.                                                *)
(***************************************************************************)
EXTENDS ExecutionSystem_proofs

-----------------------------------------------------------------------------
(***************************************************************************)
(* The loop hears of a failure.                                            *)
(***************************************************************************)

LEMMA FailureSettles ==
  ASSUME NEW s, StateShape(s), NEW command \in Commands,
         NEW current_state \in {NoState} \cup Terminals,
         knows_client_order_id(s, command.client),
         command.kind = "Replace" => command.new_client # command.client,
         NEW q, q = apply_engine_failure(s, command, current_state),
         NEW k, k = s.children[command.client], NEW n, n = q.children[command.client]
  PROVE  /\ q.filled = s.filled /\ q.terminal_applied = s.terminal_applied
         /\ q.terminal_pending = s.terminal_pending /\ q.events = s.events
         /\ q.executions = s.executions /\ q.issues = s.issues
         /\ \A c \in ClientIds \ Names(command) : q.children[c] = s.children[c]
         /\ command.kind = "Replace" => q.children[command.new_client] = NoChild
         /\ n # NoChild /\ n.exchange_order_id = k.exchange_order_id
         /\ n.requested = k.requested /\ n.cum = k.cum
         /\ command.kind = "Submit" =>
              /\ n.state = "Rejected" /\ n.leaves = 0
              /\ n.cancel_pending = k.cancel_pending /\ n.replace_pending = k.replace_pending
         /\ command.kind # "Submit" =>
              /\ n.leaves = k.leaves
              /\ n.state = IF current_state = NoState THEN k.state ELSE current_state
         /\ command.kind = "Cancel" =>
              ~n.cancel_pending /\ n.replace_pending = k.replace_pending
<1>0. PICK c0 : c0 = command.client /\ c0 \in ClientIds
  BY DEF Commands, Submits, Cancels, Replaces
<1>1. k \in Child
  BY <1>0, KnownChild
<1>2. command.kind \in {"Submit", "Cancel", "Replace"}
  BY DEF Commands, Submits, Cancels, Replaces
<1>3. PICK r : r = Resolved(k, current_state)
  OBVIOUS
<1>4. /\ r \in Child /\ r.exchange_order_id = k.exchange_order_id /\ r.requested = k.requested
      /\ r.cum = k.cum /\ r.leaves = k.leaves
      /\ r.state = IF current_state = NoState THEN k.state ELSE current_state
      /\ r.replace_pending = k.replace_pending
  BY <1>1, <1>3 DEF Resolved, Child
<1>5. CASE command.kind = "Submit"
  <2>1. PICK m : m = [k EXCEPT !.state = "Rejected", !.leaves = 0]
    OBVIOUS
  <2>2. q = [s EXCEPT !.children[c0] = m]
    BY <1>0, <1>5, <2>1 DEF apply_engine_failure, apply_order_rejection
  <2>3. /\ m \in Child /\ m.exchange_order_id = k.exchange_order_id /\ m.requested = k.requested
        /\ m.cum = k.cum /\ m.state = "Rejected" /\ m.leaves = 0
        /\ m.cancel_pending = k.cancel_pending /\ m.replace_pending = k.replace_pending
    BY <1>1, <2>1 DEF Child, Terminals
  <2>4. /\ \A c \in ClientIds : q.children[c] = IF c = c0 THEN m ELSE s.children[c]
        /\ q.filled = s.filled /\ q.terminal_applied = s.terminal_applied
        /\ q.terminal_pending = s.terminal_pending /\ q.events = s.events
        /\ q.executions = s.executions /\ q.issues = s.issues
    BY <1>0, <2>2 DEF StateShape
  <2>5. n = m /\ n # NoChild
    BY <1>0, <2>3, <2>4, StateAssumption
  <2>6. Names(command) = {c0}
    BY <1>0, <1>5 DEF Names
  <2> QED BY <1>5, <2>3, <2>4, <2>5, <2>6
<1>6. CASE command.kind = "Cancel"
  <2>1. PICK m : m = [r EXCEPT !.cancel_pending = FALSE]
    OBVIOUS
  <2>2. q = [s EXCEPT !.children[c0] = m]
    BY <1>0, <1>3, <1>6, <2>1 DEF apply_engine_failure
  <2>3. /\ m \in Child /\ m.exchange_order_id = r.exchange_order_id /\ m.requested = r.requested
        /\ m.cum = r.cum /\ m.state = r.state /\ m.leaves = r.leaves
        /\ ~m.cancel_pending /\ m.replace_pending = r.replace_pending
    BY <1>4, <2>1 DEF Child
  <2>4. /\ \A c \in ClientIds : q.children[c] = IF c = c0 THEN m ELSE s.children[c]
        /\ q.filled = s.filled /\ q.terminal_applied = s.terminal_applied
        /\ q.terminal_pending = s.terminal_pending /\ q.events = s.events
        /\ q.executions = s.executions /\ q.issues = s.issues
    BY <1>0, <2>2 DEF StateShape
  <2>5. n = m /\ n # NoChild
    BY <1>0, <2>3, <2>4, StateAssumption
  <2>6. Names(command) = {c0}
    BY <1>0, <1>6 DEF Names
  <2> QED BY <1>4, <1>6, <2>3, <2>4, <2>5, <2>6
<1>7. CASE command.kind = "Replace"
  <2>0. PICK d0 : d0 = command.new_client /\ d0 # c0 /\ d0 \in ClientIds
    BY <1>0, <1>7 DEF Commands, Submits, Cancels, Replaces
  <2>1. PICK m, first : /\ m = [r EXCEPT !.replace_pending = FALSE]
                        /\ first = [s EXCEPT !.children[c0] = m]
    OBVIOUS
  <2>2. q = [first EXCEPT !.children[d0] = NoChild]
    BY <1>0, <1>3, <1>7, <2>0, <2>1 DEF apply_engine_failure
  <2>3. /\ m \in Child /\ m.exchange_order_id = r.exchange_order_id /\ m.requested = r.requested
        /\ m.cum = r.cum /\ m.state = r.state /\ m.leaves = r.leaves
    BY <1>4, <2>1 DEF Child
  <2>4. StateShape(first) /\ first.children = [s.children EXCEPT ![c0] = m]
        /\ first.filled = s.filled /\ first.terminal_applied = s.terminal_applied
        /\ first.terminal_pending = s.terminal_pending /\ first.events = s.events
        /\ first.executions = s.executions /\ first.issues = s.issues
    BY <1>0, <2>1, <2>3 DEF StateShape
  <2>5. /\ \A c \in ClientIds : q.children[c] = IF c = d0 THEN NoChild
                                                ELSE IF c = c0 THEN m ELSE s.children[c]
        /\ q.filled = s.filled /\ q.terminal_applied = s.terminal_applied
        /\ q.terminal_pending = s.terminal_pending /\ q.events = s.events
        /\ q.executions = s.executions /\ q.issues = s.issues
    <3>1. \A c \in ClientIds : first.children[c] = IF c = c0 THEN m ELSE s.children[c]
      BY <1>0, <2>4 DEF StateShape
    <3> QED BY <2>0, <2>2, <2>4, <3>1 DEF StateShape
  <2>6. n = m /\ n # NoChild
    BY <1>0, <2>0, <2>3, <2>5, StateAssumption
  <2>7. Names(command) = {c0, d0}
    BY <1>0, <1>7, <2>0 DEF Names
  <2> QED BY <1>4, <1>7, <2>0, <2>3, <2>5, <2>6, <2>7
<1> QED BY <1>2, <1>5, <1>6, <1>7

\* A child whose order has not ended but was asked to: the failure takes the
\* question back.
LEMMA AskedAgain ==
  ASSUME NEW c, NEW k \in Child, NEW o, NEW T, Tracks(c, k, o, T), o.state \notin Closed,
         k.cancel_pending \/ k.replace_pending,
         NEW current_state, current_state # NoState => T = {} /\ current_state = o.state,
         NEW n, n.exchange_order_id = k.exchange_order_id, n.requested = k.requested,
         n.cum = k.cum, n.leaves = k.leaves,
         n.state = IF current_state = NoState THEN k.state ELSE current_state
  PROVE  Tracks(c, n, o, T) /\ n.state = k.state /\ \A e \in T : ~Closing(e.payload, c)
<1>1. k # NewChild(o.quantity)
  BY DEF NewChild
<1>2. k.exchange_order_id # NoExchangeId
  BY <1>1, TracksKnown DEF NoExchangeId
<1>3. n.state = k.state
  BY TracksSettled
<1>4. Tracks(c, n, o, T)
  BY <1>2, <1>3, TracksFlags
<1>5. \A e \in T : ~Closing(e.payload, c)
  BY DEF Tracks, TellsOf, ClosesOrder
<1> QED BY <1>3, <1>4, <1>5

\* What the step is about, and what it leaves alone.
LEMMA RoutedViews ==
  ASSUME IInv, RouteFailure, NEW i, i = routed + 1
  PROVE  /\ i \in Failed /\ Failed' = Failed \ {i} /\ kernel.failures[i].available <= clock
         /\ UNCHANGED <<kernel, exchange, clock, cursor>> /\ Ingested
         /\ kernel.failures[i].command \in Commands
         /\ kernel.failures[i].current_state \in {NoState} \cup Terminals
         /\ state' = apply_engine_failure(state, kernel.failures[i].command,
                                          kernel.failures[i].current_state)
         /\ Sent' = Sent /\ EventTasks' = EventTasks /\ Waiting' = Waiting /\ Awaited' = Awaited
<1>1. /\ kernel.failures[i].available <= clock /\ routed' = routed + 1
      /\ UNCHANGED <<kernel, exchange, clock, cursor>> /\ Ingested
      /\ state' = apply_engine_failure(state, kernel.failures[i].command,
                                       kernel.failures[i].current_state)
      /\ routed < Len(kernel.failures)
  BY DEF RouteFailure, FailureDue
<1>2. Shapes /\ routed \in 0..Len(kernel.failures) /\ Len(kernel.failures) \in Nat
  BY ListedAppend DEF IInv, Shapes
<1>3. i \in Failed /\ Failed' = Failed \ {i} /\ i \in 1..Len(kernel.failures)
  BY <1>1, <1>2 DEF Failed
<1>4. kernel.failures[i].command \in Commands
      /\ kernel.failures[i].current_state \in {NoState} \cup Terminals
  BY <1>2, <1>3 DEF Shapes, FailureSound
<1>5. Sent' = Sent /\ EventTasks' = EventTasks /\ Waiting' = Waiting /\ Awaited' = Awaited
  BY <1>1 DEF Sent, EventTasks, Waiting, Awaited, IsCommand
<1> QED BY <1>1, <1>3, <1>4, <1>5

\* No command is on its way about the client of a failure, nor is there another
\* failure of a cancel or a replacement.
LEMMA FailureAlone ==
  ASSUME IInv, CommandsSound, FailuresFit, NEW i \in Failed,
         NEW c, c \in Names(kernel.failures[i].command)
  PROVE  /\ SentAbout(c) = {}
         /\ \A j \in Failed : kernel.failures[j].command.client = c =>
              j = i \/ kernel.failures[j].command.kind = "Submit"
<1>1. i \in FailedAbout(c)
  BY DEF FailedAbout
<1>2. ASSUME NEW task \in SentAbout(c) PROVE FALSE
  <2>1. PICK p : p = task.event.payload
    OBVIOUS
  <2>2. task \in Sent /\ c \in Names(p) /\ p \in Commands \cup {[kind |-> "Take"]}
    BY <2>1, TouchedNames, SentNames DEF IInv
  <2>3. c \notin Opens(p)
    BY <1>1, <2>1, <2>2 DEF IInv, OpeningAlone
  <2>4. p.kind \in {"Cancel", "Replace"} /\ c = p.client
    BY <2>2, <2>3 DEF Commands, Submits, Cancels, Replaces, Names, Opens, ChildEvents
  <2>5. Targets(task, c)
    BY <2>1, <2>2, <2>4 DEF CommandsSound, CommandSound
  <2> QED BY <1>1, <2>5 DEF Targets
<1>3. ASSUME NEW j \in Failed, kernel.failures[j].command.client = c, j # i
      PROVE  kernel.failures[j].command.kind = "Submit"
  <2>1. FailureFits(j)
    BY DEF FailuresFit
  <2>2. kernel.failures[j].command.kind # "Submit" => FailedAbout(c) = {j}
    BY <1>3, <2>1 DEF FailureFits
  <2> QED BY <1>1, <1>3, <2>2
<1> QED BY <1>2, <1>3

LEMMA RouteStep ==
  ASSUME JInv, IInv, FixedReplies, RouteFailure
  PROVE  JInv' /\ state'.issues = state.issues
<1>0. /\ Shapes /\ ClockSound /\ NumbersSound /\ ExecutionsSound /\ CommandsSound /\ FailuresFit
      /\ ChildrenSound /\ EndsInTime /\ LedgerSound /\ StateShape(state)
  BY DEF IInv, JInv, Shapes
<1>1. PICK i, p, cs, c0 : /\ i = routed + 1 /\ p = kernel.failures[i].command
                          /\ cs = kernel.failures[i].current_state /\ c0 = p.client
  OBVIOUS
<1>2. /\ i \in Failed /\ Failed' = Failed \ {i} /\ kernel.failures[i].available <= clock
      /\ UNCHANGED <<kernel, exchange, clock, cursor>> /\ Ingested
      /\ p \in Commands /\ cs \in {NoState} \cup Terminals
      /\ state' = apply_engine_failure(state, p, cs)
      /\ Sent' = Sent /\ EventTasks' = EventTasks /\ Waiting' = Waiting /\ Awaited' = Awaited
  BY <1>1, RoutedViews
<1>3. /\ c0 \in Names(p) /\ Names(p) \subseteq ClientIds /\ c0 \in ClientIds
      /\ p.kind \in {"Submit", "Cancel", "Replace"}
  BY <1>1, <1>2, CommandNames DEF Commands, Submits, Cancels, Replaces
<1>4. /\ IF p.kind = "Submit" THEN ~Has(c0) ELSE Has(c0)
      /\ FailureFits(i)
  BY <1>0, <1>1, <1>2 DEF IInv, FailuresTrue, FailuresFit
<1>5. p.kind = "Submit" \/ cs # NoState => About(Awaited, c0) = {}
  <2>1. \A e \in Awaited : e.available > clock /\ e.available \in Int
    BY <1>0, <1>2, IngestedMeans, AwaitedTimes
  <2>2. clock \in Int /\ kernel.failures[i].available \in Int
        /\ kernel.failures[i].available <= clock
    BY <1>0, <1>2, <1>4, TimesAreInts DEF FailureFits
  <2>3. p.kind = "Submit" \/ cs # NoState =>
          \A e \in About(Awaited, c0) : e.available <= kernel.failures[i].available
    BY <1>1, <1>4 DEF FailureFits
  <2>4. ASSUME p.kind = "Submit" \/ cs # NoState, NEW e \in About(Awaited, c0) PROVE FALSE
    <3>1. e \in Awaited
      BY DEF About
    <3>2. e.available > clock /\ e.available \in Int /\ e.available <= kernel.failures[i].available
      BY <2>1, <2>3, <2>4, <3>1
    <3> QED BY <2>2, <3>2
  <2> QED BY <2>4

<1>6. \A c \in Names(p) : SentAbout(c) = {}
  BY <1>0, <1>1, <1>2, FailureAlone
<1>7. \A j \in Failed', c \in Names(p) :
        kernel.failures[j].command.client = c => kernel.failures[j].command.kind = "Submit"
  BY <1>0, <1>1, <1>2, FailureAlone
<1>8. \A d : (p.kind = "Replace" /\ d = p.new_client) =>
        /\ d # c0 /\ d \in Names(p) /\ ~Has(d) /\ Knows(d) /\ state.children[d].cum = 0
        /\ About(Awaited, d) = {}
  <2>1. SUFFICES ASSUME NEW d, p.kind = "Replace", d = p.new_client
                 PROVE  /\ d # c0 /\ d \in Names(p) /\ ~Has(d) /\ Knows(d)
                        /\ state.children[d].cum = 0 /\ About(Awaited, d) = {}
    OBVIOUS
  <2>2. Fresh(d)
    BY <1>1, <1>2, <2>1 DEF IInv, RefusalAlone
  <2>3. d \in Names(p)
    BY <2>1 DEF Names
  <2>4. ~Has(d) /\ Knows(d) /\ ToldAbout(d) = {} /\ d # c0
    BY <1>4, <2>1, <2>2 DEF Fresh
  <2>5. state.children[d].cum = 0
    BY <1>0, <1>3, <2>3, <2>4 DEF ChildrenSound, ChildSound, Untraded
  <2>6. About(Awaited, d) = {}
    BY <1>0, <2>4, AboutTold
  <2> QED BY <2>3, <2>4, <2>5, <2>6

<1>9. p.kind # "Submit" =>
        /\ Knows(c0) /\ Asked(c0) /\ exchange.orders[c0].state \notin Closed
        /\ cs # NoState => cs = exchange.orders[c0].state
  <2>1. SUFFICES ASSUME p.kind # "Submit"
                 PROVE  /\ Knows(c0) /\ Asked(c0) /\ exchange.orders[c0].state \notin Closed
                        /\ cs # NoState => cs = exchange.orders[c0].state
    OBVIOUS
  <2>2. /\ Knows(c0) /\ exchange.orders[c0].state \notin Closed
        /\ p.kind = "Cancel" => state.children[c0].cancel_pending
        /\ p.kind = "Replace" => state.children[c0].replace_pending
        /\ cs # NoState => cs = exchange.orders[c0].state
    <3>1. PICK f : f = kernel.failures[i]
      OBVIOUS
    <3>2. f.command.kind # "Submit" /\ p = f.command /\ c0 = f.command.client
          /\ cs = f.current_state
      BY <1>1, <2>1, <3>1
    <3>3. /\ Knows(f.command.client) /\ exchange.orders[f.command.client].state \notin Closed
          /\ f.command.kind = "Cancel" => state.children[f.command.client].cancel_pending
          /\ f.command.kind = "Replace" => state.children[f.command.client].replace_pending
          /\ f.current_state # NoState =>
               f.current_state = exchange.orders[f.command.client].state
      BY <1>4, <3>1, <3>2, Zenon DEF FailureFits
    <3> QED BY <3>2, <3>3
  <2> QED BY <1>3, <2>1, <2>2 DEF Asked
<1>10. PICK k, n : k = state.children[c0] /\ n = state'.children[c0]
  OBVIOUS
<1>11. ~Knows(c0) => state' = state
  BY <1>1, <1>2 DEF apply_engine_failure, Knows
<1>12. Knows(c0) =>
         /\ n # NoChild /\ n.exchange_order_id = k.exchange_order_id
         /\ n.requested = k.requested /\ n.cum = k.cum
         /\ p.kind = "Submit" =>
              /\ n.state = "Rejected" /\ n.leaves = 0
              /\ n.cancel_pending = k.cancel_pending /\ n.replace_pending = k.replace_pending
         /\ p.kind # "Submit" =>
              /\ n.leaves = k.leaves
              /\ n.state = IF cs = NoState THEN k.state ELSE cs
         /\ p.kind = "Replace" => state'.children[p.new_client] = NoChild
  <2>1. SUFFICES ASSUME Knows(c0)
                 PROVE  /\ n # NoChild /\ n.exchange_order_id = k.exchange_order_id
                        /\ n.requested = k.requested /\ n.cum = k.cum
                        /\ p.kind = "Submit" =>
                             /\ n.state = "Rejected" /\ n.leaves = 0
                             /\ n.cancel_pending = k.cancel_pending
                             /\ n.replace_pending = k.replace_pending
                        /\ p.kind # "Submit" =>
                             /\ n.leaves = k.leaves
                             /\ n.state = IF cs = NoState THEN k.state ELSE cs
                        /\ p.kind = "Replace" => state'.children[p.new_client] = NoChild
    OBVIOUS
  <2>2. knows_client_order_id(state, p.client)
    BY <1>1, <2>1 DEF Knows
  <2>3. p.kind = "Replace" => p.new_client # p.client
    BY <1>1, <1>8
  <2>4. k = state.children[p.client] /\ n = state'.children[p.client]
    BY <1>1, <1>10
  <2> QED BY <1>0, <1>2, <2>2, <2>3, <2>4, FailureSettles
<1>13. /\ state'.filled = state.filled /\ state'.terminal_applied = state.terminal_applied
       /\ state'.terminal_pending = state.terminal_pending /\ state'.events = state.events
       /\ state'.executions = state.executions /\ state'.issues = state.issues
       /\ \A c \in ClientIds \ Names(p) : state'.children[c] = state.children[c]
  <2>1. CASE Knows(c0)
    BY <1>0, <1>1, <1>2, <1>8, <2>1, FailureSettles DEF Knows
  <2> QED BY <1>11, <2>1
<1>14. /\ \A c : About(Awaited, c)' = About(Awaited, c) /\ SentAbout(c)' = SentAbout(c)
       /\ \A c : Has(c)' <=> Has(c)
  BY <1>2 DEF About, SentAbout, Has
<1>15. /\ Knows(c0)' => ChildSound(c0)'
       /\ EndFits(c0)'
       /\ Knows(c0) => \/ n.state = k.state \/ n.state \notin {"PendingNew"} \cup ActiveStates
  <2>1. CASE ~Knows(c0)
    <3>1. ~Knows(c0)'
      BY <1>11, <2>1 DEF Knows, knows_client_order_id
    <3>2. About(Awaited, c0) = {}
      BY <1>3, <2>1, StrangersQuiet
    <3> QED BY <1>14, <2>1, <3>1, <3>2 DEF EndFits
  <2>2. CASE Knows(c0) /\ p.kind = "Submit"
    <3>1. Untraded(k, {}) /\ k.requested \in 1..ParentQuantity /\ About(Awaited, c0) = {}
      BY <1>0, <1>3, <1>4, <1>5, <1>10, <2>2 DEF ChildrenSound, ChildSound
    <3>2. k \in Child
      BY <1>0, <1>3, <1>10, <2>2, KnownChild DEF Knows
    <3>3. Untraded(n, {}) /\ n.state = "Rejected"
      BY <1>12, <2>2, <3>1, <3>2, StateAssumption DEF Untraded, Child
    <3>4. ~Has(c0)' /\ About(Awaited, c0)' = {}
      BY <1>4, <1>14, <2>2, <3>1
    <3>5. ChildSound(c0)'
      BY <1>10, <1>12, <2>2, <3>1, <3>3, <3>4 DEF ChildSound
    <3>6. EndFits(c0)'
      BY <3>4 DEF EndFits
    <3> QED BY <1>12, <2>2, <3>3, <3>5, <3>6 DEF ActiveStates
  <2>3. CASE p.kind # "Submit"
    <3>1. PICK o, T : o = exchange.orders[c0] /\ T = About(Awaited, c0)
      OBVIOUS
    <3>2. /\ Knows(c0) /\ (k.cancel_pending \/ k.replace_pending) /\ o.state \notin Closed
          /\ cs # NoState => T = {} /\ cs = o.state
      BY <1>5, <1>9, <1>10, <2>3, <3>1 DEF Asked
    <3>3. k \in Child /\ Tracks(c0, k, o, T) /\ k.requested \in 1..ParentQuantity
      <4>1. Knows(c0) /\ ChildSound(c0)
        BY <1>0, <1>3, <1>9, <2>3 DEF ChildrenSound
      <4>2. k \in Child
        BY <1>0, <1>3, <1>10, <4>1, KnownChild DEF Knows
      <4> QED BY <1>4, <1>10, <2>3, <3>1, <4>1, <4>2 DEF ChildSound
    <3>4. Tracks(c0, n, o, T) /\ n.state = k.state /\ \A e \in T : ~Closing(e.payload, c0)
      <4>1. /\ n.exchange_order_id = k.exchange_order_id /\ n.requested = k.requested
            /\ n.cum = k.cum /\ n.leaves = k.leaves
            /\ n.state = IF cs = NoState THEN k.state ELSE cs
        BY <1>12, <2>3, <3>2
      <4> QED BY <3>2, <3>3, <4>1, AskedAgain
    <3>5. Has(c0)' /\ About(Awaited, c0)' = T /\ exchange'.orders[c0] = o
      BY <1>2, <1>4, <1>14, <2>3, <3>1
    <3>6. ChildSound(c0)'
      BY <1>10, <1>12, <3>2, <3>3, <3>4, <3>5 DEF ChildSound
    <3>7. EndFits(c0)'
      BY <3>4, <3>5 DEF EndFits
    <3> QED BY <3>4, <3>6, <3>7
  <2> QED BY <2>1, <2>2, <2>3
<1>16. \A c \in Names(p) : (Knows(c)' => ChildSound(c)') /\ EndFits(c)'
  <2>1. ASSUME NEW c \in Names(p), c # c0 PROVE ~Knows(c)' /\ EndFits(c)'
    <3>1. p.kind = "Replace" /\ c = p.new_client
      BY <1>1, <1>3, <2>1 DEF Names
    <3>2. ~Knows(c)'
      BY <1>9, <1>12, <3>1 DEF Knows, knows_client_order_id
    <3>3. About(Awaited, c)' = {}
      BY <1>8, <1>14, <3>1
    <3> QED BY <3>2, <3>3 DEF EndFits
  <2> QED BY <1>15, <2>1
<1>17. \A c \in ClientIds :
         \/ state'.children[c] = state.children[c]
         \/ state'.children[c] = NoChild /\ state.children[c].cum = 0
         \/ /\ state'.children[c] # NoChild /\ state.children[c] # NoChild
            /\ state'.children[c].cum = state.children[c].cum
            /\ \/ state'.children[c].state = state.children[c].state
               \/ state'.children[c].state \notin {"PendingNew"} \cup ActiveStates
  <2>1. ASSUME NEW c \in Names(p), c # c0
        PROVE  state'.children[c] = NoChild /\ state.children[c].cum = 0
    <3>1. p.kind = "Replace" /\ c = p.new_client
      BY <1>1, <1>3, <2>1 DEF Names
    <3> QED BY <1>8, <1>9, <1>12, <3>1
  <2>2. Knows(c0) <=> k # NoChild
    BY <1>10 DEF Knows, knows_client_order_id
  <2>3. \/ state'.children[c0] = state.children[c0]
        \/ /\ state'.children[c0] # NoChild /\ state.children[c0] # NoChild
           /\ state'.children[c0].cum = state.children[c0].cum
           /\ \/ state'.children[c0].state = state.children[c0].state
              \/ state'.children[c0].state \notin {"PendingNew"} \cup ActiveStates
    BY <1>10, <1>11, <1>12, <1>15, <2>2
  <2> QED BY <1>13, <2>1, <2>3
<1>18. CommandsSound' /\ FailuresFit' /\ ChildrenSound' /\ EndsInTime'
  <2>1. clock' \in Int /\ clock <= clock'
    BY <1>0, <1>2, TimesAreInts
  <2>2. PICK X : X = Names(p)
    OBVIOUS
  <2>3. ASSUME NEW c \in ClientIds \ X PROVE Untouched(c)
    <3>1. FailedAbout(c)' = FailedAbout(c)
      <4>1. i \notin FailedAbout(c)
        BY <1>1, <2>2 DEF FailedAbout
      <4> QED BY <1>2, <4>1 DEF FailedAbout
    <3> QED BY <1>2, <1>13, <1>14, <2>2, <3>1 DEF Untouched, Kept
  <2>4. \A task \in Sent' : task \in Sent /\ Names(task.event.payload) \cap X = {}
    BY <1>2, <1>6, <2>2 DEF SentAbout
  <2>5. ASSUME NEW j \in Failed', kernel.failures[j].command.client \in X PROVE FailureFits(j)'
    <3>1. PICK f, c : f = kernel.failures[j] /\ c = f.command.client
      OBVIOUS
    <3>2. f.command.kind = "Submit" /\ c \in X /\ kernel'.failures[j] = f /\ j \in Failed
      BY <1>2, <1>7, <2>2, <2>5, <3>1
    <3>3. FailureFits(j)
      BY <1>0, <3>2 DEF FailuresFit
    <3>4. About(Awaited, c)' = About(Awaited, c)
      BY <1>14
    <3> QED BY <3>1, <3>2, <3>3, <3>4 DEF FailureFits
  <2>6. \A j \in Failed' : \/ /\ j \in Failed /\ kernel'.failures[j] = kernel.failures[j]
                              /\ kernel.failures[j].command.client \notin X
                           \/ FailureFits(j)'
    BY <1>2, <2>5
  <2> QED BY <1>0, <1>16, <2>1, <2>2, <2>3, <2>4, <2>6, Elsewhere
<1>19. ClockSound' /\ NumbersSound' /\ ExecutionsSound'
  <2>1. \A task \in Sent' : OnItsWay(task)'
    BY <1>0, <1>2 DEF ClockSound, OnItsWay
  <2>2. ClockSound'
    BY <1>0, <1>2, <2>1 DEF ClockSound
  <2> QED BY <1>0, <1>2, <1>13, <2>2 DEF NumbersSound, ExecutionsSound
<1>20. LedgerSound'
  <2>1. Booked(state') = Booked(state)
    BY <1>17, BookedSame
  <2>2. Live' = Live
    BY <1>2 DEF Live
  <2>3. Over => Over'
    <3>1. \A c \in ClientIds : Knows(c)' =>
            \/ Knows(c) /\ state'.children[c].state = state.children[c].state
            \/ state'.children[c].state \notin {"PendingNew"} \cup ActiveStates
      BY <1>17 DEF Knows, knows_client_order_id
    <3> QED BY <1>2, <2>2, <3>1, OverKept
  <2> QED BY <1>0, <1>2, <1>13, <2>1, <2>3, LedgerKept
<1> QED BY <1>13, <1>18, <1>19, <1>20 DEF JInv

-----------------------------------------------------------------------------
(***************************************************************************)
(* The loop applies an event.                                              *)
(***************************************************************************)

\* Event e is the first of those under way, and has just been taken.
Applying(e) ==
  /\ e \in Awaited /\ Awaited' = Awaited \ {e}
  /\ \A f \in Awaited : f.id \in Nat
  /\ \A f \in Awaited : f # e => e.id < f.id
  /\ e.available \in Int /\ e.available <= clock /\ e.id \notin state.events
  /\ Sent' = Sent /\ Failed' = Failed /\ EventTasks' = EventTasks
  /\ Waiting' \subseteq Waiting /\ cursor + 1 \in Waiting
  /\ kernel.delivered_events[cursor + 1] = e
  /\ UNCHANGED <<kernel, exchange, clock, routed>>

\* The state once the event has been noted.
Noting(s, e) ==
  /\ StateShape(s) /\ s.children = state.children /\ s.filled = state.filled
  /\ s.terminal_applied = state.terminal_applied /\ s.terminal_pending = state.terminal_pending
  /\ s.events = state.events \cup {e.id}
  /\ s.executions = state.executions /\ s.issues = state.issues

LEMMA AppliedViews ==
  ASSUME JInv, IInv, FixedReplies, ApplyDelivered
  PROVE  \E e, s : /\ Applying(e) /\ Noting(s, e)
                   /\ state' = apply_payload(s, e.payload)
<1>0. Shapes /\ ClockSound /\ NumbersSound /\ StateShape(state)
  BY DEF JInv, IInv, Shapes
<1>1. PICK m, e : m = cursor + 1 /\ e = kernel.delivered_events[m]
  OBVIOUS
<1>2. /\ cursor < Len(kernel.delivered_events) /\ cursor' = cursor + 1
      /\ state' = apply_delivered_event(state, e, e.available)
      /\ UNCHANGED <<kernel, exchange, clock, routed>>
  BY <1>1 DEF ApplyDelivered
<1>3. Len(kernel.delivered_events) \in Nat /\ cursor \in 0..Len(kernel.delivered_events)
  BY <1>0, ListedAppend DEF Shapes
<1>4. m \in Waiting /\ Waiting' = Waiting \ {m} /\ \A j \in Waiting : j = m \/ m < j
  BY <1>1, <1>2, <1>3 DEF Waiting
<1>5. e \in Awaited
  BY <1>1, <1>4 DEF Awaited
<1>6. Sent' = Sent /\ Failed' = Failed /\ EventTasks' = EventTasks
  BY <1>2 DEF Sent, Failed, EventTasks, IsCommand
<1>7. \A f \in Awaited : f.id \in Nat
  BY <1>0 DEF NumbersSound, Below
<1>8. \A u \in EventTasks : e.id < u.event.id
  BY <1>0, <1>1, <1>4 DEF NumbersSound
<1>9. \A j \in Waiting \ {m} : e.id < kernel.delivered_events[j].id
  BY <1>0, <1>1, <1>4 DEF NumbersSound
<1>10. \A f \in Awaited : \/ \E u \in EventTasks : f = u.event
                          \/ \E j \in Waiting : f = kernel.delivered_events[j]
  BY DEF Awaited
<1>11. \A f \in Awaited : f # e => e.id < f.id
  BY <1>1, <1>8, <1>9, <1>10
<1>12. ~(e.id < e.id)
  BY <1>5, <1>7
<1>13. Awaited' = Awaited \ {e}
  <2>1. Awaited' = {u.event : u \in EventTasks}
                     \cup {kernel.delivered_events[j] : j \in Waiting \ {m}}
    BY <1>2, <1>4, <1>6 DEF Awaited
  <2>2. \A f \in Awaited' : f \in Awaited /\ f # e
    BY <1>8, <1>9, <1>12, <2>1 DEF Awaited
  <2>3. \A f \in Awaited : f # e => f \in Awaited'
    BY <1>1, <1>10, <2>1
  <2> QED BY <2>2, <2>3
<1>14. e.available \in Int /\ e.available <= clock
  <2>1. e.available \in Int /\ e.available <= kernel.current_time
    BY <1>0, <1>1, <1>4 DEF ClockSound
  <2>2. kernel.current_time \in Int /\ clock \in Int /\ kernel.current_time <= clock
    BY <1>0, TimesAreInts DEF ClockSound
  <2> QED BY <2>1, <2>2
<1>15. e.id \notin state.events
  BY <1>0, <1>5, <1>12 DEF NumbersSound
<1>16. Applying(e)
  BY <1>1, <1>2, <1>4, <1>5, <1>6, <1>7, <1>11, <1>13, <1>14, <1>15 DEF Applying
<1>17. PICK s : s = [state EXCEPT !.events = @ \cup {e.id}]
  OBVIOUS
<1>18. Noting(s, e)
  BY <1>0, <1>17 DEF Noting, StateShape
<1>19. state' = apply_payload(s, e.payload)
  BY <1>2, <1>14, <1>15, <1>17 DEF apply_delivered_event
<1> QED BY <1>16, <1>18, <1>19

\* What the event tells is sound.
LEMMA ToldSound ==
  ASSUME JInv, IInv, FixedReplies, NEW e, Applying(e),
         NEW X, Names(e.payload) \subseteq X,
         \A c \in ClientIds \ X : state'.children[c] = state.children[c],
         \A task \in Sent : Names(task.event.payload) \cap X = {} \/ CommandSound(task)',
         \A i \in Failed : kernel.failures[i].command.client \notin X \/ FailureFits(i)',
         \A c \in X \cap ClientIds : (Knows(c)' => ChildSound(c)') /\ EndFits(c)',
         state'.events = state.events \cup {e.id}, ExecutionsSound', LedgerSound'
  PROVE  JInv'
<1>0. /\ Shapes /\ ClockSound /\ NumbersSound /\ CommandsSound /\ FailuresFit
      /\ ChildrenSound /\ EndsInTime
  BY DEF IInv, JInv
<1>1. /\ e \in Awaited /\ Awaited' = Awaited \ {e} /\ (\A f \in Awaited : f.id \in Nat)
      /\ (\A f \in Awaited : f # e => e.id < f.id)
      /\ Sent' = Sent /\ Failed' = Failed /\ EventTasks' = EventTasks
      /\ Waiting' \subseteq Waiting /\ UNCHANGED <<kernel, exchange, clock, routed>>
  BY DEF Applying
<1>2. ClockSound'
  <2>1. \A task \in Sent' : OnItsWay(task)'
    BY <1>0, <1>1 DEF ClockSound, OnItsWay
  <2> QED BY <1>0, <1>1, <2>1 DEF ClockSound
<1>3. NumbersSound'
  <2>1. \A x \in state'.events : Below(x, kernel.next_event_id)
    BY <1>0, <1>1 DEF NumbersSound
  <2>2. \A x \in state'.events : \A f \in Awaited' : x < f.id
    BY <1>0, <1>1 DEF NumbersSound
  <2> QED BY <1>0, <1>1, <2>1, <2>2 DEF NumbersSound
<1>4. CommandsSound' /\ FailuresFit' /\ ChildrenSound' /\ EndsInTime'
  <2>1. clock' \in Int /\ clock <= clock'
    BY <1>0, <1>1, TimesAreInts
  <2>2. ASSUME NEW c \in ClientIds \ X PROVE Untouched(c)
    <3>1. About(Awaited, c)' = About(Awaited, c)
      BY <1>1 DEF About
    <3>2. SentAbout(c)' = SentAbout(c) /\ FailedAbout(c)' = FailedAbout(c)
      BY <1>1 DEF SentAbout, FailedAbout
    <3> QED BY <1>1, <3>1, <3>2 DEF Untouched, Kept
  <2>3. \A task \in Sent' : \/ task \in Sent /\ Names(task.event.payload) \cap X = {}
                            \/ CommandSound(task)'
    BY <1>1
  <2>4. \A i \in Failed' : \/ /\ i \in Failed /\ kernel'.failures[i] = kernel.failures[i]
                              /\ kernel.failures[i].command.client \notin X
                           \/ FailureFits(i)'
    BY <1>1
  <2> QED BY <1>0, <2>1, <2>2, <2>3, <2>4, Elsewhere
<1> QED BY <1>2, <1>3, <1>4 DEF JInv

\* The clients an event is about are known.
LEMMA ToldClient ==
  ASSUME JInv, IInv, NEW e \in Awaited, NEW c \in Names(e.payload)
  PROVE  /\ c \in ClientIds /\ Knows(c) /\ e \in About(Awaited, c) /\ e.payload \in Replies
         /\ ChildSound(c) /\ state.children[c] \in Child
         /\ state.children[c].requested \in 1..ParentQuantity
         /\ \A task \in Sent : c \notin Opens(task.event.payload)
         /\ \A f \in About(Awaited, c) : f \in Awaited /\ f.payload \in Replies
         /\ IF e.payload.kind = "OrderRejected"
            THEN ~Has(c) /\ Untraded(state.children[c], About(Awaited, c))
            ELSE Has(c) /\ Tracks(c, state.children[c], exchange.orders[c], About(Awaited, c))
<1>0. Shapes /\ ChildrenSound
  BY DEF JInv, IInv
<1>1. e \in About(Awaited, c)
  BY DEF About
<1>2. e.payload \in ToldAbout(c) /\ e.payload \in Replies /\ e.payload \in Told
  BY <1>0, <1>1, AboutTold DEF ToldAbout
<1>3. c \in ClientIds
  BY <1>2 DEF Replies, Acks, Rejections, CancelAcks, FillEvents, ReplaceAcks, Names, ChildEvents
<1>4. Knows(c)
  BY <1>2, <1>3 DEF IInv, UnknownUntouched
<1>5. ChildSound(c)
  BY <1>0, <1>3, <1>4 DEF ChildrenSound
<1>6. state.children[c] \in Child
  BY <1>0, <1>3, <1>4, KnownChild DEF Shapes, Knows
<1>7. \A task \in Sent : c \notin Opens(task.event.payload)
  BY <1>2 DEF IInv, OpeningAlone, Fresh
<1>8. \A f \in About(Awaited, c) : f \in Awaited /\ f.payload \in Replies
  BY <1>0, AboutTold
<1>9. IF e.payload.kind = "OrderRejected" THEN ~Has(c) ELSE Has(c)
  <2>1. e.payload.kind = "OrderRejected" => c = e.payload.client
    BY DEF Names, ChildEvents
  <2> QED BY <1>2, <2>1 DEF IInv, EventsTrue
<1> QED BY <1>1, <1>2, <1>3, <1>4, <1>5, <1>6, <1>7, <1>8, <1>9 DEF ChildSound

\* While there are events about orders, the parent order is not completed explicitly.
LEMMA TalkIdle ==
  ASSUME JInv, NEW e \in Awaited, e.payload.kind # "TerminalCompletion"
  PROVE  /\ state.terminal_applied = FALSE /\ state.terminal_pending = FALSE
         /\ state.filled = Booked(state) /\ Completions = {}
         /\ \A f \in Awaited : f.payload.kind # "TerminalCompletion"
<1>1. LedgerSound
  BY DEF JInv
<1>2. ~state.terminal_applied
  BY <1>1 DEF LedgerSound
<1>3. ~state.terminal_pending
  <2>1. SUFFICES ASSUME state.terminal_pending PROVE FALSE
    OBVIOUS
  <2>2. PICK f : Awaited = {f} /\ f.payload = [kind |-> "TerminalCompletion",
                                               quantity |-> Remaining(state)]
    BY <1>1, <2>1 DEF LedgerSound
  <2> QED BY <2>2
<1> QED BY <1>1, <1>2, <1>3 DEF LedgerSound

\* An order that is about to be known, or known to be over, is not the object of
\* a cancel or a replacement.
LEMMA ToldUntargeted ==
  ASSUME JInv, IInv, NEW e \in Awaited, NEW c \in Names(e.payload), e.payload.kind # "Fill"
  PROVE  /\ \A task \in Sent : c \notin Names(task.event.payload)
         /\ \A i \in Failed : kernel.failures[i].command.client = c =>
              kernel.failures[i].command.kind = "Submit"
<1>0. CommandsSound /\ FailuresFit
  BY DEF JInv
<1>1. PICK k, o, T : k = state.children[c] /\ o = exchange.orders[c] /\ T = About(Awaited, c)
  OBVIOUS
<1>2. /\ e \in T /\ k \in Child /\ Knows(c) /\ e.payload \in Replies
      /\ \A task \in Sent : c \notin Opens(task.event.payload)
      /\ IF e.payload.kind = "OrderRejected" THEN ~Has(c) ELSE Has(c) /\ Tracks(c, k, o, T)
  BY <1>1, ToldClient
<1>3. Has(c) => k = NewChild(o.quantity) \/ o.state \in Closed
  <2>1. SUFFICES ASSUME Has(c) PROVE k = NewChild(o.quantity) \/ o.state \in Closed
    OBVIOUS
  <2>2. Tracks(c, k, o, T) /\ TellsOf(c, k, o, T, e)
    BY <1>2, <2>1 DEF Tracks
  <2>3. ~Filling(e.payload, c)
    BY DEF Filling
  <2>4. Opening(e.payload, c) \/ Closing(e.payload, c)
    BY <2>2, <2>3 DEF TellsOf
  <2>5. CASE Opening(e.payload, c)
    <3>1. k.exchange_order_id = NoExchangeId
      BY <2>2, <2>5 DEF TellsOf, OpensOrder
    <3> QED BY <2>2, <3>1, TracksKnown DEF NoExchangeId
  <2>6. CASE Closing(e.payload, c)
    BY <2>2, <2>6 DEF TellsOf, ClosesOrder
  <2> QED BY <2>4, <2>5, <2>6
<1>4. \A q : NewChild(q).exchange_order_id = NoExchangeId /\ ~NewChild(q).cancel_pending
             /\ ~NewChild(q).replace_pending
  BY DEF NewChild
<1>5. ASSUME NEW task \in Sent, c \in Names(task.event.payload) PROVE FALSE
  <2>1. PICK p : p = task.event.payload
    OBVIOUS
  <2>2. p \in Commands \cup {[kind |-> "Take"]}
    BY <2>1, SentNames DEF IInv
  <2>3. p.kind \in {"Cancel", "Replace"} /\ c = p.client
    BY <1>2, <1>5, <2>1, <2>2 DEF Commands, Submits, Cancels, Replaces, Names, Opens, ChildEvents
  <2>4. Targets(task, c) /\ Has(c)
    BY <1>0, <2>1, <2>3 DEF CommandsSound, CommandSound, IInv, TargetsAccepted
  <2> QED BY <1>1, <1>3, <1>4, <2>4 DEF Targets
<1>6. ASSUME NEW i \in Failed, kernel.failures[i].command.client = c,
             kernel.failures[i].command.kind # "Submit"
      PROVE  FALSE
  <2>1. PICK f, p : f = kernel.failures[i] /\ p = f.command
    OBVIOUS
  <2>2. p.client = c /\ p.kind # "Submit" /\ p \in Commands
    BY <1>6, <2>1, FailedNames DEF IInv
  <2>3. p.kind \in {"Cancel", "Replace"}
    BY <2>2 DEF Commands, Submits, Cancels, Replaces
  <2>4. Has(c)
    BY <2>1, <2>2 DEF IInv, FailuresTrue
  <2>5. FailureFits(i)
    BY <1>0 DEF FailuresFit
  <2>6. /\ exchange.orders[c].state \notin Closed
        /\ p.kind = "Cancel" => state.children[c].cancel_pending
        /\ p.kind = "Replace" => state.children[c].replace_pending
    BY <2>1, <2>2, <2>5, Zenon DEF FailureFits
  <2> QED BY <1>1, <1>3, <1>4, <2>3, <2>4, <2>6
<1> QED BY <1>5, <1>6

\* What remains to be shown of an event that is no fill.
LEMMA ToldQuietly ==
  ASSUME JInv, IInv, FixedReplies, NEW e, Applying(e), e.payload.kind # "Fill",
         e.payload.kind # "TerminalCompletion",
         \A c \in ClientIds \ Names(e.payload) : state'.children[c] = state.children[c],
         \A c \in Names(e.payload) :
           /\ ChildSound(c)' /\ EndFits(c)' /\ state'.children[c] # NoChild
           /\ state'.children[c].cum = state.children[c].cum,
         state'.filled = state.filled, state'.terminal_applied = state.terminal_applied,
         state'.terminal_pending = state.terminal_pending,
         state'.events = state.events \cup {e.id}, state'.executions = state.executions
  PROVE  JInv'
<1>0. FailuresFit /\ ExecutionsSound
  BY DEF JInv
<1>1. /\ e \in Awaited /\ Awaited' = Awaited \ {e} /\ Sent' = Sent /\ Failed' = Failed
      /\ UNCHANGED <<kernel, exchange, clock, routed>>
  BY DEF Applying
<1>2. PICK X : X = Names(e.payload)
  OBVIOUS
<1>3. \A c \in X : c \in ClientIds /\ Knows(c)
  BY <1>1, <1>2, ToldClient
<1>4. \A task \in Sent : Names(task.event.payload) \cap X = {}
  BY <1>1, <1>2, ToldUntargeted
<1>5. ASSUME NEW i \in Failed, kernel.failures[i].command.client \in X PROVE FailureFits(i)'
  <2>1. kernel.failures[i].command.kind = "Submit" /\ kernel'.failures[i] = kernel.failures[i]
    BY <1>1, <1>2, <1>5, ToldUntargeted
  <2>2. FailureFits(i)
    BY <1>0 DEF FailuresFit
  <2>3. \A c : About(Awaited, c)' \subseteq About(Awaited, c)
    BY <1>1 DEF About
  <2> QED BY <2>1, <2>2, <2>3 DEF FailureFits
<1>6. ExecutionsSound'
  BY <1>0, <1>1 DEF ExecutionsSound
<1>7. /\ state.terminal_applied = FALSE /\ state.terminal_pending = FALSE
      /\ state.filled = Booked(state) /\ Completions = {}
      /\ \A f \in Awaited : f.payload.kind # "TerminalCompletion"
  BY <1>1, TalkIdle
<1>8. Booked(state') = Booked(state)
  <2>1. \A c \in ClientIds :
          \/ state'.children[c] = state.children[c]
          \/ /\ state'.children[c] # NoChild /\ state.children[c] # NoChild
             /\ state'.children[c].cum = state.children[c].cum
    BY <1>2, <1>3 DEF Knows, knows_client_order_id
  <2> QED BY <2>1, BookedSame
<1>9. LedgerSound'
  <2>1. Completions' = {}
    BY <1>1, <1>7 DEF Completions
  <2> QED BY <1>1, <1>7, <1>8, <2>1, LedgerIdle
<1> QED BY <1>2, <1>4, <1>5, <1>6, <1>9, ToldSound

WithChild(s, c, n) == [s EXCEPT !.children[c] = n]

LEMMA OneUpdated ==
  ASSUME NEW s, StateShape(s), NEW c \in ClientIds, NEW n
  PROVE  LET q == WithChild(s, c, n)
         IN  /\ q.children[c] = n /\ \A d \in ClientIds \ {c} : q.children[d] = s.children[d]
             /\ q.filled = s.filled /\ q.terminal_applied = s.terminal_applied
             /\ q.terminal_pending = s.terminal_pending
             /\ q.events = s.events /\ q.executions = s.executions /\ q.issues = s.issues
BY DEF StateShape, WithChild

LEMMA UpdatedShape ==
  ASSUME NEW s, StateShape(s), NEW c \in ClientIds, NEW n \in Child
  PROVE  StateShape(WithChild(s, c, n))
<1>1. PICK q : q = WithChild(s, c, n)
  OBVIOUS
<1>2. q.children \in [ClientIds -> Child \cup {NoChild}]
  BY <1>1 DEF StateShape, WithChild
<1>3. q.filled \in 0..ParentQuantity
  BY <1>1 DEF StateShape, WithChild
<1>4. q = [children |-> q.children, filled |-> q.filled, terminal_applied |-> q.terminal_applied,
           terminal_pending |-> q.terminal_pending, events |-> q.events,
           executions |-> q.executions, issues |-> q.issues]
  BY <1>1 DEF StateShape, WithChild
<1> QED BY <1>1, <1>2, <1>3, <1>4 DEF StateShape

\* One child of the noting state is updated.
LEMMA NotedUpdate ==
  ASSUME NEW e, NEW s, Noting(s, e), NEW c \in ClientIds, NEW n, NEW q, q = WithChild(s, c, n)
  PROVE  /\ q.children[c] = n
         /\ (\A d \in ClientIds \ {c} : q.children[d] = state.children[d])
         /\ q.filled = state.filled
         /\ q.terminal_applied = state.terminal_applied
         /\ q.terminal_pending = state.terminal_pending
         /\ q.events = state.events \cup {e.id}
         /\ q.executions = state.executions /\ q.issues = state.issues
<1>1. /\ StateShape(s) /\ s.children = state.children /\ s.filled = state.filled
      /\ s.terminal_applied = state.terminal_applied /\ s.terminal_pending = state.terminal_pending
      /\ s.events = state.events \cup {e.id}
      /\ s.executions = state.executions /\ s.issues = state.issues
  BY DEF Noting
<1>2. /\ q.children[c] = n
      /\ (\A d \in ClientIds \ {c} : q.children[d] = s.children[d])
      /\ q.filled = s.filled
      /\ q.terminal_applied = s.terminal_applied /\ q.terminal_pending = s.terminal_pending
      /\ q.events = s.events /\ q.executions = s.executions /\ q.issues = s.issues
  BY <1>1, OneUpdated
<1> QED BY <1>1, <1>2

\* The acknowledgement of an end comes in time, also once the order is acknowledged.
LEMMA AckFits ==
  ASSUME NEW c, EndFits(c), NEW e \in About(Awaited, c), Opening(e.payload, c),
         e.available <= clock, clock' = clock, About(Awaited, c)' \subseteq About(Awaited, c),
         ~Asked(c)
  PROVE  EndFits(c)'
<1>1. SUFFICES ASSUME NEW f \in About(Awaited, c)', Closing(f.payload, c)
               PROVE  f.available <= clock
  BY DEF EndFits
<1>2. f \in About(Awaited, c)
  BY <1>1
<1>3. \/ Asked(c) \/ f.available <= clock
      \/ \A g \in About(Awaited, c) : Opening(g.payload, c) => g.available = f.available
  BY <1>1, <1>2 DEF EndFits
<1> QED BY <1>3

\* An order is acknowledged.
LEMMA AckStep ==
  ASSUME JInv, IInv, FixedReplies, NEW e, Applying(e), NEW s, Noting(s, e),
         e.payload.kind = "OrderAcknowledged", state' = apply_payload(s, e.payload)
  PROVE  JInv' /\ state'.issues = state.issues /\ Calms
<1>1. PICK c, p : p = e.payload /\ c = p.client
  OBVIOUS
<1>2. Names(p) = {c} /\ Opening(p, c) /\ ~Closing(p, c) /\ p.kind = "OrderAcknowledged"
  BY <1>1 DEF Names, ChildEvents, Opening, Closing
<1>3. PICK k, o, T : k = state.children[c] /\ o = exchange.orders[c] /\ T = About(Awaited, c)
  OBVIOUS
<1>4. /\ e \in Awaited /\ Awaited' = Awaited \ {e} /\ UNCHANGED <<kernel, exchange, clock, routed>>
      /\ (\A f \in Awaited : f.id \in Nat) /\ e.available <= clock
  BY DEF Applying
<1>5. /\ c \in ClientIds /\ Knows(c) /\ e \in T /\ k \in Child /\ p \in Replies
      /\ k.requested \in 1..ParentQuantity /\ Has(c) /\ Tracks(c, k, o, T)
      /\ \A f \in T : f \in Awaited
  BY <1>1, <1>2, <1>3, <1>4, ToldClient
<1>6. p \in Acks
  BY <1>2, <1>5 DEF Replies, Acks, Rejections, CancelAcks, FillEvents, ReplaceAcks
<1>7. /\ StateShape(s) /\ s.children = state.children /\ s.filled = state.filled
      /\ s.terminal_applied = state.terminal_applied /\ s.terminal_pending = state.terminal_pending
      /\ s.events = state.events \cup {e.id}
      /\ s.executions = state.executions /\ s.issues = state.issues
  BY DEF Noting
<1>8. PICK n : n = [k EXCEPT !.exchange_order_id = p.exchange_order_id, !.requested = p.quantity,
                             !.cum = 0, !.leaves = p.quantity, !.state = "Live"]
  OBVIOUS
<1>9. state' = WithChild(s, c, n)
  <2>1. knows_client_order_id(s, c) /\ s.children[c] = k
    BY <1>3, <1>5, <1>7 DEF Knows, knows_client_order_id
  <2>2. state' = apply_order_ack(s, p)
    BY <1>1, <1>2, <2>1 DEF apply_payload, ChildEvents
  <2> QED BY <1>1, <1>8, <2>1, <2>2 DEF apply_order_ack, WithChild
<1>10. /\ n.exchange_order_id = p.exchange_order_id /\ n.requested = p.quantity
       /\ n.cum = 0 /\ n.leaves = p.quantity /\ n.state = "Live" /\ n \in Child
       /\ n.cancel_pending = k.cancel_pending /\ n.replace_pending = k.replace_pending
  BY <1>5, <1>6, <1>8 DEF Child, Acks, ActiveStates
<1>11. /\ state'.children[c] = n /\ \A d \in ClientIds \ {c} : state'.children[d] = state.children[d]
       /\ state'.filled = state.filled
       /\ state'.terminal_applied = state.terminal_applied
       /\ state'.terminal_pending = state.terminal_pending
       /\ state'.events = state.events \cup {e.id}
       /\ state'.executions = state.executions /\ state'.issues = state.issues
  BY <1>5, <1>9, NotedUpdate
<1>12. /\ k = NewChild(o.quantity) /\ k.cum = 0 /\ p.quantity = o.quantity
       /\ Tracks(c, n, o, T \ {e})
  <2>1. \A f \in T : f.id \in Nat
    BY <1>4, <1>5
  <2>2. /\ n.exchange_order_id = e.payload.exchange_order_id
        /\ n.requested = e.payload.quantity /\ n.cum = 0
        /\ n.leaves = e.payload.quantity /\ n.state = "Live"
        /\ Opening(e.payload, c)
    BY <1>1, <1>2, <1>10
  <2> QED BY <1>1, <1>5, <2>1, <2>2, TracksAck
<1>13. About(Awaited, c)' = T \ {e} /\ Has(c)' /\ exchange'.orders[c] = o
  BY <1>3, <1>4, <1>5 DEF About, Has
<1>14. n.requested = k.requested /\ ~k.cancel_pending /\ ~k.replace_pending
  BY <1>10, <1>12 DEF NewChild
<1>15. ChildSound(c)'
  BY <1>5, <1>11, <1>12, <1>13, <1>14 DEF ChildSound
<1>16. EndFits(c)'
  <2>1. EndFits(c)
    BY <1>5, EndsFit DEF JInv
  <2>2. ~Asked(c)
    BY <1>3, <1>14 DEF Asked
  <2>3. About(Awaited, c)' \subseteq About(Awaited, c)
    BY <1>3, <1>13
  <2>4. Opening(e.payload, c) /\ clock' = clock /\ e \in About(Awaited, c)
    BY <1>1, <1>2, <1>3, <1>4, <1>5
  <2> QED BY <1>4, <2>1, <2>2, <2>3, <2>4, AckFits
<1>17. n # NoChild /\ n.cum = k.cum
  BY <1>10, <1>12, StateAssumption
<1>18. /\ e.payload.kind # "Fill" /\ e.payload.kind # "TerminalCompletion"
       /\ Names(e.payload) = {c}
  BY <1>1, <1>2
<1>19. JInv'
  BY <1>3, <1>11, <1>15, <1>16, <1>17, <1>18, ToldQuietly
<1>20. Busy(k)
  BY <1>12 DEF Busy, NewChild
<1>21. Calmer(c)
  BY <1>3, <1>5, <1>10, <1>11, <1>14, <1>17, <1>20, OneCalmer
<1>22. Calms
  BY <1>11, <1>21, SameCalmer DEF Calms
<1> QED BY <1>11, <1>19, <1>22

\* An order is rejected.
LEMMA RejectStep ==
  ASSUME JInv, IInv, FixedReplies, NEW e, Applying(e), NEW s, Noting(s, e),
         e.payload.kind = "OrderRejected", state' = apply_payload(s, e.payload)
  PROVE  JInv' /\ state'.issues = state.issues /\ Calms
<1>1. PICK c, p : p = e.payload /\ c = p.client
  OBVIOUS
<1>2. Names(p) = {c} /\ p.kind = "OrderRejected"
  BY <1>1 DEF Names, ChildEvents
<1>3. PICK k, T : k = state.children[c] /\ T = About(Awaited, c)
  OBVIOUS
<1>4. /\ e \in Awaited /\ Awaited' = Awaited \ {e} /\ UNCHANGED <<kernel, exchange, clock, routed>>
  BY DEF Applying
<1>5. /\ c \in ClientIds /\ Knows(c) /\ e \in T /\ k \in Child
      /\ k.requested \in 1..ParentQuantity /\ ~Has(c) /\ Untraded(k, T)
  BY <1>1, <1>2, <1>3, <1>4, ToldClient
<1>6. /\ StateShape(s) /\ s.children = state.children /\ s.filled = state.filled
      /\ s.terminal_applied = state.terminal_applied /\ s.terminal_pending = state.terminal_pending
      /\ s.events = state.events \cup {e.id}
      /\ s.executions = state.executions /\ s.issues = state.issues
  BY DEF Noting
<1>7. PICK n : n = [k EXCEPT !.state = "Rejected", !.leaves = 0]
  OBVIOUS
<1>8. state' = WithChild(s, c, n)
  <2>1. knows_client_order_id(s, c) /\ s.children[c] = k
    BY <1>3, <1>5, <1>6 DEF Knows, knows_client_order_id
  <2>2. state' = apply_order_rejection(s, p)
    BY <1>1, <1>2, <2>1 DEF apply_payload, ChildEvents
  <2> QED BY <1>1, <1>7, <2>1, <2>2 DEF apply_order_rejection, WithChild
<1>9. /\ n.exchange_order_id = k.exchange_order_id /\ n.requested = k.requested
      /\ n.cum = k.cum /\ n.leaves = 0 /\ n.state = "Rejected" /\ n \in Child
      /\ n.cancel_pending = k.cancel_pending /\ n.replace_pending = k.replace_pending
  BY <1>5, <1>7 DEF Child, Terminals
<1>10. /\ state'.children[c] = n /\ \A d \in ClientIds \ {c} : state'.children[d] = state.children[d]
       /\ state'.filled = state.filled
       /\ state'.terminal_applied = state.terminal_applied
       /\ state'.terminal_pending = state.terminal_pending
       /\ state'.events = state.events \cup {e.id}
       /\ state'.executions = state.executions /\ state'.issues = state.issues
  BY <1>5, <1>8, NotedUpdate
<1>11. About(Awaited, c)' = {} /\ ~Has(c)'
  <2>1. \A f \in T : f = e
    BY <1>5 DEF Untraded
  <2> QED BY <1>3, <1>4, <1>5, <2>1 DEF About, Has
<1>12. Untraded(n, {})
  BY <1>5, <1>9, StateAssumption DEF Untraded
<1>13. ChildSound(c)' /\ EndFits(c)'
  BY <1>5, <1>9, <1>10, <1>11, <1>12 DEF ChildSound, EndFits
<1>14. n # NoChild /\ n.cum = k.cum
  BY <1>9, StateAssumption
<1>15. /\ e.payload.kind # "Fill" /\ e.payload.kind # "TerminalCompletion"
       /\ Names(e.payload) = {c}
  BY <1>1, <1>2
<1>16. JInv'
  BY <1>3, <1>10, <1>13, <1>14, <1>15, ToldQuietly
<1>17. ~Busy(n)
  BY <1>5, <1>9 DEF Busy, ActiveStates, Untraded
<1>18. Calmer(c)
  BY <1>3, <1>5, <1>9, <1>10, <1>17, OneCalmer
<1>19. Calms
  BY <1>10, <1>18, SameCalmer DEF Calms
<1> QED BY <1>10, <1>16, <1>19

\* An order ends with a cancellation.
LEMMA CancelAckStep ==
  ASSUME JInv, IInv, FixedReplies, NEW e, Applying(e), NEW s, Noting(s, e),
         e.payload.kind = "CancelAcknowledged", state' = apply_payload(s, e.payload)
  PROVE  JInv' /\ state'.issues = state.issues /\ Calms
<1>1. PICK c, p : p = e.payload /\ c = p.client
  OBVIOUS
<1>2. Names(p) = {c} /\ Closing(p, c) /\ p.kind = "CancelAcknowledged"
  BY <1>1 DEF Names, ChildEvents, Closing
<1>3. PICK k, o, T : k = state.children[c] /\ o = exchange.orders[c] /\ T = About(Awaited, c)
  OBVIOUS
<1>4. /\ e \in Awaited /\ Awaited' = Awaited \ {e} /\ UNCHANGED <<kernel, exchange, clock, routed>>
      /\ (\A f \in Awaited : f.id \in Nat) /\ \A f \in Awaited : f # e => e.id < f.id
  BY DEF Applying
<1>5. /\ c \in ClientIds /\ Knows(c) /\ e \in T /\ k \in Child /\ p \in Replies
      /\ k.requested \in 1..ParentQuantity /\ Has(c) /\ Tracks(c, k, o, T)
      /\ \A f \in T : f \in Awaited
  BY <1>1, <1>2, <1>3, <1>4, ToldClient
<1>6. p \in CancelAcks
  BY <1>2, <1>5 DEF Replies, Acks, Rejections, CancelAcks, FillEvents, ReplaceAcks
<1>7. /\ StateShape(s) /\ s.children = state.children /\ s.filled = state.filled
  BY DEF Noting
<1>8. PICK n : n = [k EXCEPT !.exchange_order_id = p.exchange_order_id, !.cum = p.cum,
                             !.leaves = 0, !.state = "Cancelled", !.cancel_pending = FALSE]
  OBVIOUS
<1>9. state' = WithChild(s, c, n)
  <2>1. knows_client_order_id(s, c) /\ s.children[c] = k
    BY <1>3, <1>5, <1>7 DEF Knows, knows_client_order_id
  <2>2. state' = apply_cancel_ack(s, p)
    BY <1>1, <1>2, <2>1 DEF apply_payload, ChildEvents
  <2> QED BY <1>1, <1>8, <2>1, <2>2 DEF apply_cancel_ack, WithChild
<1>10. /\ n.exchange_order_id = p.exchange_order_id /\ n.requested = k.requested
       /\ n.cum = p.cum /\ n.leaves = 0 /\ n.state = "Cancelled" /\ n \in Child
       /\ n.cancel_pending = FALSE /\ n.replace_pending = k.replace_pending
  BY <1>5, <1>6, <1>8 DEF Child, CancelAcks, Terminals
<1>11. /\ state'.children[c] = n /\ \A d \in ClientIds \ {c} : state'.children[d] = state.children[d]
       /\ state'.filled = state.filled
       /\ state'.terminal_applied = state.terminal_applied
       /\ state'.terminal_pending = state.terminal_pending
       /\ state'.events = state.events \cup {e.id}
       /\ state'.executions = state.executions /\ state'.issues = state.issues
  BY <1>5, <1>9, NotedUpdate
<1>12. /\ T = {e} /\ k.cum = o.cum /\ k.exchange_order_id = o.id
       /\ o.state = "Cancelled" /\ p.exchange_order_id = o.id /\ p.cum = o.cum
       /\ Tracks(c, n, o, {})
  <2>1. (\A f \in T : f.id \in Nat) /\ \A f \in T : f # e => e.id < f.id
    BY <1>4, <1>5
  <2>2. Closing(e.payload, c) /\ e.payload.kind = "CancelAcknowledged"
    BY <1>1, <1>2
  <2>3. /\ T = {e} /\ k.cum = o.cum /\ k.exchange_order_id = o.id /\ o.state = "Cancelled"
        /\ e.payload.exchange_order_id = o.id /\ e.payload.cum = o.cum
        /\ k.requested = o.quantity /\ SoundOrder(o) /\ o.state \in Closed
    BY <1>5, <2>1, <2>2, TracksEnd
  <2>4. /\ n.exchange_order_id = k.exchange_order_id /\ n.requested = k.requested
        /\ n.cum = o.cum /\ n.leaves = 0 /\ n.state = o.state
    BY <1>1, <1>10, <2>3
  <2>5. Tracks(c, n, o, {})
    BY <2>3, <2>4, TracksOver
  <2> QED BY <1>1, <2>3, <2>5
<1>13. Tracks(c, n, o, {})
  BY <1>12
<1>14. About(Awaited, c)' = {} /\ Has(c)' /\ exchange'.orders[c] = o
  BY <1>3, <1>4, <1>5, <1>12 DEF About, Has
<1>15. ChildSound(c)' /\ EndFits(c)'
  BY <1>5, <1>10, <1>11, <1>13, <1>14 DEF ChildSound, EndFits
<1>16. n # NoChild /\ n.cum = k.cum
  BY <1>10, <1>12, StateAssumption
<1>17. /\ e.payload.kind # "Fill" /\ e.payload.kind # "TerminalCompletion"
       /\ Names(e.payload) = {c}
  BY <1>1, <1>2
<1>18. JInv'
  BY <1>3, <1>11, <1>15, <1>16, <1>17, ToldQuietly
<1>19. ~Busy(n)
  BY <1>10 DEF Busy, ActiveStates
<1>20. Calmer(c)
  BY <1>3, <1>5, <1>10, <1>11, <1>16, <1>19, OneCalmer
<1>21. Calms
  BY <1>11, <1>20, SameCalmer DEF Calms
<1> QED BY <1>11, <1>18, <1>21

\* An order ends with its replacement, which is acknowledged.
LEMMA ReplaceAckStep ==
  ASSUME JInv, IInv, FixedReplies, NEW e, Applying(e), NEW s, Noting(s, e),
         e.payload.kind = "ReplaceAcknowledged", state' = apply_payload(s, e.payload)
  PROVE  JInv' /\ state'.issues = state.issues
<1>1. PICK c, d, p : p = e.payload /\ c = p.client /\ d = p.new_client
  OBVIOUS
<1>2. /\ Names(p) = {c, d} /\ Closing(p, c) /\ Opening(p, d) /\ p.kind = "ReplaceAcknowledged"
  BY <1>1 DEF Names, ChildEvents, Closing, Opening
<1>3. PICK k, o, T : k = state.children[c] /\ o = exchange.orders[c] /\ T = About(Awaited, c)
  OBVIOUS
<1>4. PICK l, q, U : l = state.children[d] /\ q = exchange.orders[d] /\ U = About(Awaited, d)
  OBVIOUS
<1>5. /\ e \in Awaited /\ Awaited' = Awaited \ {e} /\ UNCHANGED <<kernel, exchange, clock, routed>>
      /\ (\A f \in Awaited : f.id \in Nat) /\ (\A f \in Awaited : f # e => e.id < f.id)
      /\ e.available <= clock
  BY DEF Applying
<1>6. /\ c \in ClientIds /\ Knows(c) /\ e \in T /\ k \in Child /\ p \in Replies
      /\ k.requested \in 1..ParentQuantity /\ Has(c) /\ Tracks(c, k, o, T)
      /\ \A f \in T : f \in Awaited
  BY <1>1, <1>2, <1>3, <1>5, ToldClient
<1>7. /\ d \in ClientIds /\ Knows(d) /\ e \in U /\ l \in Child
      /\ l.requested \in 1..ParentQuantity /\ Has(d) /\ Tracks(d, l, q, U)
      /\ \A f \in U : f \in Awaited
  BY <1>1, <1>2, <1>4, <1>5, ToldClient
<1>8. c # d
  <2>1. TellsOf(c, k, o, T, e)
    BY <1>6 DEF Tracks
  <2> QED BY <1>1, <1>2, <2>1 DEF TellsOf
<1>9. p \in ReplaceAcks
  BY <1>2, <1>6 DEF Replies, Acks, Rejections, CancelAcks, FillEvents, ReplaceAcks
<1>10. /\ StateShape(s) /\ s.children = state.children
  BY DEF Noting
<1>11. PICK n : n = [k EXCEPT !.state = "Replaced", !.leaves = 0, !.replace_pending = FALSE]
  OBVIOUS
<1>12. PICK m : m = [l EXCEPT !.exchange_order_id = p.exchange_order_id, !.requested = p.quantity,
                              !.leaves = p.quantity, !.state = "Live"]
  OBVIOUS
<1>13. /\ n.exchange_order_id = k.exchange_order_id /\ n.requested = k.requested
       /\ n.cum = k.cum /\ n.leaves = 0 /\ n.state = "Replaced" /\ n \in Child
       /\ n.cancel_pending = k.cancel_pending /\ n.replace_pending = FALSE
  BY <1>6, <1>11 DEF Child, Terminals
<1>14. /\ m.exchange_order_id = p.exchange_order_id /\ m.requested = p.quantity
       /\ m.cum = l.cum /\ m.leaves = p.quantity /\ m.state = "Live" /\ m \in Child
       /\ m.cancel_pending = l.cancel_pending /\ m.replace_pending = l.replace_pending
  BY <1>7, <1>9, <1>12 DEF Child, ReplaceAcks, ActiveStates
<1>15. PICK r : r = WithChild(s, c, n)
  OBVIOUS
<1>16. /\ r.children[c] = n /\ (\A x \in ClientIds \ {c} : r.children[x] = state.children[x])
       /\ r.filled = state.filled
       /\ r.terminal_applied = state.terminal_applied
       /\ r.terminal_pending = state.terminal_pending
       /\ r.events = state.events \cup {e.id}
       /\ r.executions = state.executions /\ r.issues = state.issues
  BY <1>6, <1>15, NotedUpdate
<1>17. StateShape(r)
  BY <1>6, <1>10, <1>13, <1>15, UpdatedShape
<1>18. state' = WithChild(r, d, m)
  <2>1. knows_client_order_id(s, c) /\ s.children[c] = k
    BY <1>3, <1>6, <1>10 DEF Knows, knows_client_order_id
  <2>2. r.children[d] = l
    BY <1>4, <1>7, <1>8, <1>16
  <2>3. knows_client_order_id(r, d)
    BY <1>4, <1>7, <2>2 DEF Knows, knows_client_order_id
  <2>4. state' = apply_replace_ack(s, p)
    BY <1>1, <1>2 DEF apply_payload, ChildEvents
  <2>5. r = [s EXCEPT !.children[c] =
                  IF knows_client_order_id(s, c)
                  THEN [@ EXCEPT !.state = "Replaced", !.leaves = 0, !.replace_pending = FALSE]
                  ELSE @]
    BY <1>11, <1>15, <2>1 DEF WithChild
  <2>6. apply_replace_ack(s, p) = [r EXCEPT !.children[d] =
         IF knows_client_order_id(r, d)
         THEN [@ EXCEPT !.exchange_order_id = p.exchange_order_id,
                        !.requested = p.quantity, !.leaves = p.quantity, !.state = "Live"]
         ELSE @]
    BY <1>1, <2>5 DEF apply_replace_ack
  <2> QED BY <1>12, <2>2, <2>3, <2>4, <2>6 DEF WithChild
<1>19. /\ state'.children[d] = m /\ (\A x \in ClientIds \ {d} : state'.children[x] = r.children[x])
       /\ state'.filled = r.filled
       /\ state'.terminal_applied = r.terminal_applied
       /\ state'.terminal_pending = r.terminal_pending
       /\ state'.events = r.events
       /\ state'.executions = r.executions /\ state'.issues = r.issues
  BY <1>7, <1>17, <1>18, OneUpdated
<1>20. /\ state'.children[d] = m /\ state'.children[c] = n
       /\ (\A x \in ClientIds \ {c, d} : state'.children[x] = state.children[x])
       /\ state'.filled = state.filled
       /\ state'.terminal_applied = state.terminal_applied
       /\ state'.terminal_pending = state.terminal_pending
       /\ state'.events = state.events \cup {e.id}
       /\ state'.executions = state.executions /\ state'.issues = state.issues
  BY <1>6, <1>8, <1>16, <1>19
<1>21. /\ T = {e} /\ k.cum = o.cum /\ k.exchange_order_id = o.id
       /\ Tracks(c, n, o, {})
  <2>1. (\A f \in T : f.id \in Nat) /\ \A f \in T : f # e => e.id < f.id
    BY <1>5, <1>6
  <2>2. Closing(e.payload, c) /\ e.payload.kind = "ReplaceAcknowledged"
    BY <1>1, <1>2
  <2>3. T = {e} /\ k.cum = o.cum /\ k.exchange_order_id = o.id /\ o.state = "Replaced"
        /\ k.requested = o.quantity /\ SoundOrder(o) /\ o.state \in Closed
    BY <1>6, <2>1, <2>2, TracksEnd
  <2>4. /\ n.exchange_order_id = k.exchange_order_id /\ n.requested = k.requested
        /\ n.cum = o.cum /\ n.leaves = 0 /\ n.state = o.state
    BY <1>13, <2>3
  <2>5. Tracks(c, n, o, {})
    BY <2>3, <2>4, TracksOver
  <2> QED BY <2>3, <2>5
<1>22. /\ l = NewChild(q.quantity) /\ l.cum = 0 /\ p.quantity = q.quantity
       /\ Tracks(d, m, q, U \ {e})
  <2>1. \A f \in U : f.id \in Nat
    BY <1>5, <1>7
  <2>2. Opening(e.payload, d)
    BY <1>1, <1>2
  <2>3. l.cum = 0 /\ l = NewChild(q.quantity)
    <3>1. TellsOf(d, l, q, U, e)
      BY <1>7 DEF Tracks
    <3>2. l.exchange_order_id = NoExchangeId
      BY <2>2, <3>1 DEF TellsOf, OpensOrder
    <3> QED BY <1>7, <3>2, TracksKnown DEF NoExchangeId
  <2>4. /\ m.exchange_order_id = e.payload.exchange_order_id
        /\ m.requested = e.payload.quantity /\ m.cum = 0
        /\ m.leaves = e.payload.quantity /\ m.state = "Live"
    BY <1>1, <1>14, <2>3
  <2> QED BY <1>1, <1>7, <2>1, <2>2, <2>3, <2>4, TracksAck
<1>23. Tracks(c, n, o, {})
  BY <1>21
<1>24. /\ About(Awaited, c)' = {} /\ Has(c)' /\ exchange'.orders[c] = o
       /\ About(Awaited, d)' = U \ {e} /\ Has(d)' /\ exchange'.orders[d] = q
  BY <1>3, <1>4, <1>5, <1>6, <1>7, <1>21 DEF About, Has
<1>25. ChildSound(c)' /\ EndFits(c)'
  BY <1>6, <1>13, <1>20, <1>23, <1>24 DEF ChildSound, EndFits
<1>26. m.requested = l.requested /\ ~l.cancel_pending /\ ~l.replace_pending
  BY <1>14, <1>22 DEF NewChild
<1>27. ChildSound(d)'
  BY <1>7, <1>20, <1>22, <1>24, <1>26 DEF ChildSound
<1>28. EndFits(d)'
  <2>1. EndFits(d)
    BY <1>7, EndsFit DEF JInv
  <2>2. ~Asked(d)
    BY <1>4, <1>26 DEF Asked
  <2>3. About(Awaited, d)' \subseteq About(Awaited, d)
    BY <1>4, <1>24
  <2>4. Opening(e.payload, d) /\ clock' = clock /\ e \in About(Awaited, d)
    BY <1>1, <1>2, <1>4, <1>5, <1>7
  <2> QED BY <1>5, <2>1, <2>2, <2>3, <2>4, AckFits
<1>29. n # NoChild /\ n.cum = k.cum /\ m # NoChild /\ m.cum = l.cum
  BY <1>13, <1>14, StateAssumption
<1>30. /\ e.payload.kind # "Fill" /\ e.payload.kind # "TerminalCompletion"
       /\ Names(e.payload) = {c, d}
  BY <1>1, <1>2
<1> QED BY <1>3, <1>4, <1>20, <1>25, <1>27, <1>28, <1>29, <1>30, ToldQuietly

\* A fill is booked on a child.
LEMMA BookedFill ==
  ASSUME NEW s, NEW q, NEW c \in ClientIds, NEW lots \in Nat,
         \A d \in ClientIds : s.children[d] \in Child \cup {NoChild},
         \A d \in ClientIds : q.children[d] \in Child \cup {NoChild},
         s.children[c] # NoChild, q.children[c] # NoChild,
         q.children[c].cum = s.children[c].cum + lots,
         \A d \in ClientIds \ {c} : q.children[d] = s.children[d]
  PROVE  Booked(q) = Booked(s) + lots
<1>1. PICK f, g : f = BookedLots(s) /\ g = BookedLots(q)
  OBVIOUS
<1>2. DOMAIN f = ClientIds /\ DOMAIN g = ClientIds
  BY <1>1 DEF BookedLots
<1>3. \A d \in ClientIds : f[d] \in Nat /\ g[d] \in Nat
  BY <1>1 DEF BookedLots, knows_client_order_id, Child
<1>4. \A d \in ClientIds \ {c} : f[d] = g[d]
  BY <1>1 DEF BookedLots, knows_client_order_id
<1>5. g[c] = f[c] + lots
  BY <1>1 DEF BookedLots, knows_client_order_id
<1>6. SumFunctionOnSet(g, ClientIds) = SumFunctionOnSet(f, ClientIds) - f[c] + g[c]
  <2>1. \A d \in ClientIds : f[d] \in Int /\ g[d] \in Int
    BY <1>3
  <2> QED BY <1>4, <2>1, SumOfUpdate, StateAssumption
<1>7. SumFunctionOnSet(f, ClientIds) \in Int
  <2>1. \A d \in ClientIds : f[d] \in Int
    BY <1>3
  <2> QED BY <2>1, SumIsInt, StateAssumption
<1>8. Booked(q) = SumFunctionOnSet(g, ClientIds) /\ Booked(s) = SumFunctionOnSet(f, ClientIds)
  BY <1>1, <1>2 DEF Booked, SumFunction
<1> QED BY <1>3, <1>5, <1>6, <1>7, <1>8

FilledChild(k, p) ==
  [k EXCEPT !.exchange_order_id = p.exchange_order_id, !.cum = p.cum, !.leaves = p.leaves,
            !.state = IF p.leaves = 0 THEN "Filled" ELSE "PartiallyFilled"]

\* What apply_fill does with a fill that continues what the child has.
LEMMA FillTaken ==
  ASSUME NEW s, StateShape(s), NEW p \in FillEvents, NEW c, c = p.client,
         NEW k, k = s.children[c], k \in Child, p.quantity # 0,
         k.exchange_order_id = p.exchange_order_id, k.cum + p.quantity = p.cum,
         p.cum + p.leaves = k.requested, p.execution \notin s.executions,
         NEW n, n = FilledChild(k, p), NEW q, q = apply_fill(s, p)
  PROVE  \/ p.quantity > Remaining(s) /\ "parent_overfill" \in q.issues
         \/ /\ ~(p.quantity > Remaining(s)) /\ q.children[c] = n
            /\ (\A d \in ClientIds \ {c} : q.children[d] = s.children[d])
            /\ q.filled = s.filled + p.quantity
            /\ q.executions = s.executions \cup {p.execution}
            /\ q.terminal_applied = s.terminal_applied
            /\ q.terminal_pending = s.terminal_pending
            /\ q.events = s.events /\ q.issues = s.issues
<1>0. c \in ClientIds
  BY DEF FillEvents
<1>1. PICK u : u = update_parent_fill(s, p)
  OBVIOUS
<1>2. q = IF p.execution \notin u.executions THEN u ELSE WithChild(u, c, [u.children[c] EXCEPT
              !.exchange_order_id = p.exchange_order_id, !.cum = p.cum, !.leaves = p.leaves,
              !.state = IF p.leaves = 0 THEN "Filled" ELSE "PartiallyFilled"])
  <2>1. ~(s.children[p.client].exchange_order_id \notin {NoExchangeId, p.exchange_order_id})
    OBVIOUS
  <2>2. ~(\/ s.children[p.client].cum + p.quantity # p.cum
          \/ p.cum + p.leaves # s.children[p.client].requested)
    OBVIOUS
  <2> QED BY <1>1, <2>1, <2>2 DEF apply_fill, WithChild
<1>3. CASE p.quantity > Remaining(s)
  <2>1. u = Issue(s, "parent_overfill")
    BY <1>1, <1>3 DEF update_parent_fill
  <2>2. u.executions = s.executions /\ u.issues = s.issues \cup {"parent_overfill"}
    BY <2>1 DEF Issue, StateShape
  <2>3. q = u
    BY <1>2, <2>2
  <2> QED BY <1>3, <2>2, <2>3
<1>4. CASE ~(p.quantity > Remaining(s))
  <2>1. u = [s EXCEPT !.filled = @ + p.quantity, !.executions = @ \cup {p.execution}]
    BY <1>1, <1>4 DEF update_parent_fill
  <2>2. /\ u.filled = s.filled + p.quantity /\ u.executions = s.executions \cup {p.execution}
        /\ u.children = s.children /\ u.terminal_applied = s.terminal_applied
        /\ u.terminal_pending = s.terminal_pending
        /\ u.events = s.events /\ u.issues = s.issues
    BY <2>1 DEF StateShape
  <2>3. StateShape(u)
    <3>1. u.filled \in 0..ParentQuantity
      <4>1. p.quantity \in Nat /\ s.filled \in 0..ParentQuantity /\ ParentQuantity \in Nat
        BY StateAssumption DEF FillEvents, StateShape
      <4> QED BY <1>4, <2>2, <4>1 DEF Remaining
    <3>2. u = [children |-> u.children, filled |-> u.filled,
               terminal_applied |-> u.terminal_applied, terminal_pending |-> u.terminal_pending,
               events |-> u.events, executions |-> u.executions, issues |-> u.issues]
      BY <2>1 DEF StateShape
    <3> QED BY <2>2, <3>1, <3>2 DEF StateShape
  <2>4. q = WithChild(u, c, n)
    BY <1>2, <2>2 DEF FilledChild
  <2>5. /\ q.children[c] = n /\ (\A d \in ClientIds \ {c} : q.children[d] = u.children[d])
        /\ q.filled = u.filled /\ q.terminal_applied = u.terminal_applied
        /\ q.terminal_pending = u.terminal_pending
        /\ q.events = u.events /\ q.executions = u.executions /\ q.issues = u.issues
    BY <1>0, <2>3, <2>4 DEF StateShape, WithChild
  <2> QED BY <1>4, <2>2, <2>5
<1> QED BY <1>3, <1>4

\* A command about a child that a fill is booked on stays sound.
LEMMA FilledCommand ==
  ASSUME NEW task \in Sent, CommandSound(task), task.event.payload \in Commands \cup {[kind |-> "Take"]},
         NEW c \in ClientIds, c \notin Opens(task.event.payload),
         \A d \in ClientIds \ {c} : state'.children[d] = state.children[d],
         state'.children[c].exchange_order_id = state.children[c].exchange_order_id,
         state'.children[c].cancel_pending = state.children[c].cancel_pending,
         state'.children[c].replace_pending = state.children[c].replace_pending,
         state'.children[c] # NoChild, Sent' = Sent, Failed' = Failed,
         UNCHANGED <<kernel, exchange>>
  PROVE  CommandSound(task)'
<1>1. PICK p : p = task.event.payload
  OBVIOUS
<1>2. \A d \in Opens(p) : d \in ClientIds \ {c}
  BY <1>1 DEF Commands, Submits, Cancels, Replaces, Opens
<1>3. \A d \in Opens(p) : state'.children[d] = state.children[d]
  BY <1>2
<1>4. \A d : SentAbout(d)' = SentAbout(d) /\ FailedAbout(d)' = FailedAbout(d)
  BY DEF SentAbout, FailedAbout
<1>5. ASSUME NEW d \in ClientIds, Targets(task, d) PROVE Targets(task, d)'
  <2>1. /\ state'.children[d].exchange_order_id = state.children[d].exchange_order_id
        /\ state.children[d] # NoChild => state'.children[d] # NoChild
    BY DEF Knows
  <2>2. Knows(d) => Knows(d)'
    BY <2>1 DEF Knows, knows_client_order_id
  <2> QED BY <1>4, <1>5, <2>1, <2>2 DEF Targets
<1>6. p.kind \in {"Cancel", "Replace"} => p.client \in ClientIds
  BY <1>1 DEF Commands, Submits, Cancels, Replaces
<1>7. \A d \in ClientIds : /\ state'.children[d].cancel_pending = state.children[d].cancel_pending
                           /\ state'.children[d].replace_pending = state.children[d].replace_pending
  OBVIOUS
<1> QED BY <1>1, <1>3, <1>5, <1>6, <1>7 DEF CommandSound

\* A failure about a child that a fill is booked on stays sound.
LEMMA FilledFailure ==
  ASSUME NEW i \in Failed, FailureFits(i), NEW c \in ClientIds, c = kernel.failures[i].command.client,
         state'.children[c].cancel_pending = state.children[c].cancel_pending,
         state'.children[c].replace_pending = state.children[c].replace_pending,
         state'.children[c] # NoChild, Sent' = Sent, Failed' = Failed, Awaited' \subseteq Awaited,
         UNCHANGED <<kernel, exchange>>
  PROVE  FailureFits(i)'
<1> DEFINE f == kernel.failures[i]
<1>1. f = kernel'.failures[i]
  OBVIOUS
<1>2. SentAbout(c)' = SentAbout(c) /\ FailedAbout(c)' = FailedAbout(c)
  BY DEF SentAbout, FailedAbout
<1>3. About(Awaited, c)' \subseteq About(Awaited, c)
  BY DEF About
<1>4. Knows(c)'
  BY DEF Knows, knows_client_order_id
<1>5. /\ f.available \in Int
      /\ f.command.kind = "Submit" \/ f.current_state # NoState =>
           \A e \in About(Awaited, c) : e.available <= f.available
  BY DEF FailureFits
<1>6. f.command.kind # "Submit" =>
           /\ Knows(c) /\ SentAbout(c) = {} /\ FailedAbout(c) = {i}
           /\ (f.command.kind = "Cancel" => state.children[c].cancel_pending)
           /\ (f.command.kind = "Replace" => state.children[c].replace_pending)
           /\ exchange.orders[c].state \notin Closed
           /\ (f.current_state # NoState => f.current_state = exchange.orders[c].state)
  <2>1. f.command.kind # "Submit" =>
           /\ Knows(f.command.client) /\ SentAbout(f.command.client) = {}
           /\ FailedAbout(f.command.client) = {i}
           /\ (f.command.kind = "Cancel" => state.children[f.command.client].cancel_pending)
           /\ (f.command.kind = "Replace" => state.children[f.command.client].replace_pending)
           /\ exchange.orders[f.command.client].state \notin Closed
           /\ (f.current_state # NoState =>
                f.current_state = exchange.orders[f.command.client].state)
    BY Zenon DEF FailureFits
  <2>2. c = f.command.client
    OBVIOUS
  <2> HIDE DEF f
  <2> QED BY <2>1, <2>2
<1> HIDE DEF f
<1>8. c = f.command.client
  BY DEF f
<1>7. f.command.kind = "Submit" \/ f.current_state # NoState =>
           \A e \in About(Awaited, c)' : e.available <= f.available
  BY <1>3, <1>5
<1>9. exchange'.orders[c] = exchange.orders[c]
  OBVIOUS
<1>10. f.command.kind # "Submit" =>
           /\ Knows(c)' /\ SentAbout(c)' = {} /\ FailedAbout(c)' = {i}
           /\ (f.command.kind = "Cancel" => state'.children[c].cancel_pending)
           /\ (f.command.kind = "Replace" => state'.children[c].replace_pending)
           /\ exchange'.orders[c].state \notin Closed
           /\ (f.current_state # NoState => f.current_state = exchange'.orders[c].state)
  BY <1>2, <1>4, <1>6, <1>9, Zenon
<1> QED BY <1>1, <1>5, <1>7, <1>8, <1>10, Zenon DEF FailureFits

\* Fill e continues what the state has of child k of client c, which becomes n.
Continuing(e, c, k, o, T, n) ==
  /\ c = e.payload.client /\ k = state.children[c] /\ o = exchange.orders[c]
  /\ T = About(Awaited, c) /\ c \in ClientIds /\ Knows(c) /\ Has(c) /\ e \in T
  /\ e.payload \in FillEvents /\ k \in Child /\ k.requested \in 1..ParentQuantity
  /\ k.exchange_order_id = o.id /\ e.payload.exchange_order_id = o.id /\ k.state \in Open
  /\ k.cum + e.payload.quantity = e.payload.cum /\ e.payload.quantity # 0
  /\ e.payload.cum + e.payload.leaves = k.requested
  /\ n = FilledChild(k, e.payload) /\ n \in Child
  /\ n.exchange_order_id = e.payload.exchange_order_id /\ n.requested = k.requested
  /\ n.cum = e.payload.cum /\ n.leaves = e.payload.leaves
  /\ n.state = IF e.payload.leaves = 0 THEN "Filled" ELSE "PartiallyFilled"
  /\ n.cancel_pending = k.cancel_pending /\ n.replace_pending = k.replace_pending
  /\ Tracks(c, k, o, T) /\ Tracks(c, n, o, T \ {e})

LEMMA FillContinuing ==
  ASSUME JInv, IInv, FixedReplies, NEW e, Applying(e), e.payload.kind = "Fill"
  PROVE  \E c, k, o, T, n : Continuing(e, c, k, o, T, n)
<1>1. PICK c, p : p = e.payload /\ c = p.client
  OBVIOUS
<1>2. Names(p) = {c} /\ p.kind = "Fill"
  BY <1>1 DEF Names, ChildEvents
<1>3. PICK k, o, T : k = state.children[c] /\ o = exchange.orders[c] /\ T = About(Awaited, c)
  OBVIOUS
<1>4. /\ e \in Awaited /\ (\A f \in Awaited : f.id \in Nat)
      /\ \A f \in Awaited : f # e => e.id < f.id
  BY DEF Applying
<1>5. /\ c \in ClientIds /\ Knows(c) /\ e \in T /\ k \in Child /\ p \in Replies
      /\ k.requested \in 1..ParentQuantity /\ Has(c) /\ Tracks(c, k, o, T)
      /\ \A f \in T : f \in Awaited /\ f.payload \in Replies
  BY <1>1, <1>2, <1>3, <1>4, ToldClient
<1>6. p \in FillEvents
  BY <1>2, <1>5 DEF Replies, Acks, Rejections, CancelAcks, FillEvents, ReplaceAcks
<1>7. PICK n : n = FilledChild(k, p)
  OBVIOUS
<1>8. /\ n.exchange_order_id = p.exchange_order_id /\ n.requested = k.requested
      /\ n.cum = p.cum /\ n.leaves = p.leaves
      /\ n.state = IF p.leaves = 0 THEN "Filled" ELSE "PartiallyFilled"
  BY <1>5, <1>7 DEF Child, FilledChild
<1>9. /\ n.cancel_pending = k.cancel_pending /\ n.replace_pending = k.replace_pending
      /\ n \in Child
  BY <1>5, <1>6, <1>7 DEF Child, FillEvents, ActiveStates, Terminals, FilledChild
<1>10. FillContinues(k, o, e) /\ Tracks(c, n, o, T \ {e})
  <2>1. \A f \in T : f.id \in Nat /\ f.payload \in Replies
    BY <1>4, <1>5
  <2>2. \A f \in T : f # e => e.id < f.id
    BY <1>4, <1>5
  <2>3. e.payload \in FillEvents /\ e.payload.client = c
    BY <1>1, <1>6
  <2>4. /\ n.exchange_order_id = e.payload.exchange_order_id /\ n.requested = k.requested
        /\ n.cum = e.payload.cum /\ n.leaves = e.payload.leaves
        /\ n.state = FilledState(e.payload.leaves)
    BY <1>1, <1>8 DEF FilledState
  <2>5. FirstReply(e, T)
    BY <2>1, <2>2 DEF FirstReply
  <2>6. FillComes(c, k, T, e, n)
    BY <1>5, <2>3, <2>4, <2>5 DEF FillComes
  <2> QED BY <1>5, <2>6, TracksFill
<1>11. /\ k.exchange_order_id = o.id /\ p.exchange_order_id = o.id /\ k.state \in Open
       /\ k.cum + p.quantity = p.cum /\ p.quantity # 0 /\ p.cum + p.leaves = k.requested
  BY <1>1, <1>10 DEF FillContinues
<1>12. Continuing(e, c, k, o, T, n)
  BY <1>1, <1>3, <1>5, <1>6, <1>7, <1>8, <1>9, <1>10, <1>11 DEF Continuing
<1> QED BY <1>12

\* Fill e is booked on the child of client c, which becomes n.
Books(e, c, n) ==
  /\ state'.children[c] = n
  /\ \A d \in ClientIds \ {c} : state'.children[d] = state.children[d]
  /\ state'.filled = state.filled + e.payload.quantity
  /\ state'.executions = state.executions \cup {e.payload.execution}
  /\ state'.terminal_applied = state.terminal_applied
  /\ state'.terminal_pending = state.terminal_pending
  /\ state'.events = state.events \cup {e.id} /\ state'.issues = state.issues

LEMMA FillBooks ==
  ASSUME JInv, NEW e, Applying(e), NEW s, Noting(s, e), e.payload.kind = "Fill",
         state' = apply_payload(s, e.payload),
         NEW c, NEW k, NEW o, NEW T, NEW n, Continuing(e, c, k, o, T, n)
  PROVE  \/ e.payload.quantity > Remaining(state) /\ "parent_overfill" \in state'.issues
         \/ ~(e.payload.quantity > Remaining(state)) /\ Books(e, c, n)
<1>1. PICK p : p = e.payload
  OBVIOUS
<1>2. /\ StateShape(s) /\ s.children = state.children /\ s.filled = state.filled
      /\ s.terminal_applied = state.terminal_applied /\ s.terminal_pending = state.terminal_pending
      /\ s.events = state.events \cup {e.id}
      /\ s.executions = state.executions /\ s.issues = state.issues
  BY DEF Noting
<1>3. /\ p.exchange_order_id = o.id /\ k.exchange_order_id = o.id /\ n = FilledChild(k, p)
      /\ p.quantity # 0 /\ k.cum + p.quantity = p.cum /\ p.cum + p.leaves = k.requested
      /\ c = p.client /\ k \in Child /\ p \in FillEvents /\ k = state.children[c] /\ Knows(c)
  BY <1>1 DEF Continuing
<1>4. p.execution \notin s.executions
  <2>1. e \in Awaited /\ ExecutionsSound
    BY DEF JInv, Applying
  <2> QED BY <1>1, <1>2, <2>1 DEF ExecutionsSound
<1>5. state' = apply_fill(s, p)
  <2>1. knows_client_order_id(s, p.client)
    BY <1>2, <1>3 DEF Knows, knows_client_order_id
  <2> QED BY <1>1, <2>1 DEF apply_payload, ChildEvents
<1>6. \/ p.quantity > Remaining(s) /\ "parent_overfill" \in state'.issues
      \/ /\ ~(p.quantity > Remaining(s)) /\ state'.children[c] = n
         /\ (\A d \in ClientIds \ {c} : state'.children[d] = s.children[d])
         /\ state'.filled = s.filled + p.quantity
         /\ state'.executions = s.executions \cup {p.execution}
         /\ state'.terminal_applied = s.terminal_applied
         /\ state'.terminal_pending = s.terminal_pending
         /\ state'.events = s.events /\ state'.issues = s.issues
  <2>1. k = s.children[c] /\ k.exchange_order_id = p.exchange_order_id
    BY <1>2, <1>3
  <2> QED BY <1>2, <1>3, <1>4, <1>5, <2>1, FillTaken
<1>7. Remaining(s) = Remaining(state)
  BY <1>2 DEF Remaining
<1> QED BY <1>1, <1>2, <1>6, <1>7 DEF Books

\* A fill is booked, or is the first that no longer fits the parent.
LEMMA FillStep ==
  ASSUME JInv, IInv, FixedReplies, NEW e, Applying(e), NEW s, Noting(s, e),
         e.payload.kind = "Fill", state' = apply_payload(s, e.payload)
  PROVE  (JInv' /\ state'.issues = state.issues) \/ "parent_overfill" \in state'.issues
<1>1. PICK c, k, o, T, n : Continuing(e, c, k, o, T, n)
  BY FillContinuing
<1>2. PICK p : p = e.payload /\ c = p.client /\ p \in FillEvents
  BY <1>1 DEF Continuing
<1>3. /\ k = state.children[c] /\ o = exchange.orders[c] /\ T = About(Awaited, c)
      /\ Names(p) = {c} /\ p.kind = "Fill"
  BY <1>1, <1>2 DEF Continuing, Names, ChildEvents, FillEvents
<1>4. /\ e \in Awaited /\ Awaited' = Awaited \ {e} /\ UNCHANGED <<kernel, exchange, clock, routed>>
      /\ Sent' = Sent /\ Failed' = Failed
  BY DEF Applying
<1>5. /\ c \in ClientIds /\ Knows(c) /\ e \in T /\ k \in Child
      /\ k.requested \in 1..ParentQuantity /\ Has(c) /\ Tracks(c, k, o, T)
  BY <1>1 DEF Continuing
<1>6. \A task \in Sent : c \notin Opens(task.event.payload)
  BY <1>2, <1>3, <1>4, ToldClient
<1>9. /\ n.exchange_order_id = p.exchange_order_id /\ n.requested = k.requested
      /\ n.cum = p.cum /\ n.leaves = p.leaves
  BY <1>1, <1>2 DEF Continuing
<1>10. /\ n.cancel_pending = k.cancel_pending /\ n.replace_pending = k.replace_pending
       /\ n \in Child
  BY <1>1 DEF Continuing
<1>11. /\ k.exchange_order_id = o.id /\ p.exchange_order_id = o.id /\ k.cum + p.quantity = p.cum
       /\ Tracks(c, n, o, T \ {e})
  BY <1>1, <1>2 DEF Continuing
<1>12. ExecutionsSound
  BY DEF JInv
<1>13. p.execution < exchange.next_execution_id
  BY <1>2, <1>3, <1>4, <1>12 DEF ExecutionsSound
<1>15. "parent_overfill" \in state'.issues \/ Books(e, c, n)
  BY <1>1, FillBooks
<1>16. CASE "parent_overfill" \in state'.issues
  BY <1>16
<1>17. CASE Books(e, c, n)
  <2>1. /\ state'.children[c] = n
        /\ (\A d \in ClientIds \ {c} : state'.children[d] = state.children[d])
        /\ state'.filled = state.filled + p.quantity
        /\ state'.executions = state.executions \cup {p.execution}
        /\ state'.terminal_applied = state.terminal_applied
        /\ state'.terminal_pending = state.terminal_pending
        /\ state'.events = state.events \cup {e.id} /\ state'.issues = state.issues
    BY <1>2, <1>17 DEF Books
  <2>2. n # NoChild /\ Knows(c)'
    BY <1>10, <2>1, StateAssumption DEF Knows, knows_client_order_id
  <2>3. About(Awaited, c)' = T \ {e} /\ Has(c)' /\ exchange'.orders[c] = o
    BY <1>3, <1>4, <1>5 DEF About, Has
  <2>4. ChildSound(c)'
    BY <1>5, <1>9, <1>11, <2>1, <2>3 DEF ChildSound
  <2>5. /\ state'.children[c].exchange_order_id = state.children[c].exchange_order_id
        /\ state'.children[c].cancel_pending = state.children[c].cancel_pending
        /\ state'.children[c].replace_pending = state.children[c].replace_pending
        /\ state'.children[c] # NoChild
    BY <1>3, <1>9, <1>10, <1>11, <2>1, <2>2
  <2>6. EndFits(c)'
    <3>1. EndFits(c)
      BY <1>5, EndsFit DEF JInv
    <3>2. About(Awaited, c)' \subseteq About(Awaited, c)
      BY <1>3, <2>3
    <3>3. k.exchange_order_id # NoExchangeId
      BY <1>5, <1>11, TracksKnown DEF NoExchangeId
    <3>4. Asked(c)' <=> Asked(c)
      BY <2>5, Zenon DEF Asked
    <3> QED BY <1>3, <1>4, <3>1, <3>2, <3>3, <3>4 DEF EndFits
  <2>7. ASSUME NEW task \in Sent PROVE CommandSound(task)'
    <3>1. CommandSound(task)
      BY DEF JInv, CommandsSound
    <3>2. task.event.payload \in Commands \cup {[kind |-> "Take"]}
      BY SentNames DEF IInv
    <3>3. c \notin Opens(task.event.payload)
      BY <1>6
    <3> QED BY <1>4, <1>5, <2>1, <2>5, <3>1, <3>2, <3>3, FilledCommand
  <2>8. ASSUME NEW i \in Failed, kernel.failures[i].command.client \in {c}
        PROVE  FailureFits(i)'
    <3>1. FailureFits(i)
      BY DEF JInv, FailuresFit
    <3>2. c = kernel.failures[i].command.client /\ Awaited' \subseteq Awaited
      BY <1>4, <2>8
    <3>3. UNCHANGED <<kernel, exchange>> /\ Sent' = Sent /\ Failed' = Failed
      BY <1>4
    <3> QED BY <1>5, <2>5, <3>1, <3>2, <3>3, FilledFailure, Zenon
  <2>9. ExecutionsSound'
    <3>1. p.execution \in Nat
      BY <1>2 DEF FillEvents
    <3>2. exchange' = exchange
      BY <1>4
    <3>3. \A x \in state'.executions : x \in Nat /\ x < exchange'.next_execution_id
      BY <1>12, <1>13, <2>1, <3>1, <3>2 DEF ExecutionsSound
    <3>4. \A f \in Awaited' : f.payload.kind = "Fill" =>
            /\ f.payload.execution < exchange'.next_execution_id
            /\ f.payload.execution \notin state'.executions
      BY <1>2, <1>3, <1>4, <1>12, <2>1, <3>2 DEF ExecutionsSound
    <3>5. \A f, g \in Awaited' : f.payload.kind = "Fill" /\ g.payload.kind = "Fill" /\ f # g =>
            f.payload.execution # g.payload.execution
      BY <1>4, <1>12 DEF ExecutionsSound
    <3> QED BY <3>3, <3>4, <3>5 DEF ExecutionsSound
  <2>10. /\ state.terminal_applied = FALSE /\ state.terminal_pending = FALSE
         /\ state.filled = Booked(state) /\ Completions = {}
         /\ \A f \in Awaited : f.payload.kind # "TerminalCompletion"
    <3>1. e.payload.kind # "TerminalCompletion"
      BY <1>2, <1>3
    <3> QED BY <1>4, <3>1, TalkIdle
  <2>11. Booked(state') = Booked(state) + p.quantity
    <3>1. \A d \in ClientIds : state.children[d] \in Child \cup {NoChild}
      BY DEF IInv, Shapes, StateShape
    <3>2. \A d \in ClientIds : state'.children[d] \in Child \cup {NoChild}
      BY <1>10, <2>1, <3>1
    <3>3. state.children[c] # NoChild /\ state'.children[c] # NoChild
      BY <1>5, <2>2, <2>1 DEF Knows, knows_client_order_id
    <3>4. state'.children[c].cum = state.children[c].cum + p.quantity
      BY <1>3, <1>9, <1>11, <2>1
    <3>5. p.quantity \in Nat
      BY <1>2 DEF FillEvents
    <3> QED BY <1>5, <2>1, <3>1, <3>2, <3>3, <3>4, <3>5, BookedFill
  <2>12. LedgerSound'
    <3>1. Completions' = {}
      BY <1>4, <2>10 DEF Completions
    <3>2. state'.filled = Booked(state')
      BY <2>1, <2>10, <2>11
    <3> QED BY <1>4, <2>1, <2>10, <3>1, <3>2, LedgerIdle
  <2>13. Names(e.payload) \subseteq {c}
    BY <1>2, <1>3
  <2>14. \A task \in Sent : Names(task.event.payload) \cap {c} = {} \/ CommandSound(task)'
    BY <2>7
  <2>15. \A i \in Failed : kernel.failures[i].command.client \notin {c} \/ FailureFits(i)'
    BY <2>8
  <2>16. \A d \in {c} \cap ClientIds : (Knows(d)' => ChildSound(d)') /\ EndFits(d)'
    BY <2>4, <2>6
  <2>17. JInv'
    BY <2>1, <2>9, <2>12, <2>13, <2>14, <2>15, <2>16, ToldSound
  <2> QED BY <2>1, <2>17
<1> QED BY <1>15, <1>16, <1>17

\* The explicit completion is applied: it is the last event of all.
LEMMA TerminalStep ==
  ASSUME JInv, IInv, FixedReplies, NEW e, Applying(e), NEW s, Noting(s, e),
         e.payload.kind = "TerminalCompletion", state' = apply_payload(s, e.payload)
  PROVE  JInv' /\ state'.issues = state.issues
         /\ state'.children = state.children /\ state'.terminal_applied = TRUE
<1>1. /\ e \in Awaited /\ Awaited' = Awaited \ {e} /\ UNCHANGED <<kernel, exchange, clock, routed>>
      /\ Sent' = Sent /\ Failed' = Failed /\ cursor + 1 \in Waiting
      /\ kernel.delivered_events[cursor + 1] = e
  BY DEF Applying
<1>2. LedgerSound /\ NumbersSound /\ ExecutionsSound
  BY DEF JInv
<1>3. ~state.terminal_applied /\ state.terminal_pending
  BY <1>1, <1>2 DEF LedgerSound
<1>4. /\ Awaited = {e} /\ e.payload.quantity = Remaining(state) /\ Over
      /\ Completions \subseteq Waiting /\ state.filled = Booked(state)
  <2>1. PICK f : Awaited = {f} /\ f.payload = [kind |-> "TerminalCompletion",
                                               quantity |-> Remaining(state)]
    BY <1>2, <1>3 DEF LedgerSound
  <2>2. f = e
    BY <1>1, <2>1
  <2> QED BY <1>2, <1>3, <2>1, <2>2 DEF LedgerSound
<1>5. /\ StateShape(s) /\ s.children = state.children /\ s.filled = state.filled
      /\ s.terminal_applied = state.terminal_applied
      /\ s.events = state.events \cup {e.id}
      /\ s.executions = state.executions /\ s.issues = state.issues
  BY DEF Noting
<1>6. state' = [s EXCEPT !.filled = ParentQuantity, !.terminal_applied = TRUE,
                         !.terminal_pending = FALSE]
  <2>1. state' = apply_terminal(s, e.payload)
    BY DEF apply_payload, ChildEvents
  <2>2. ~s.terminal_applied /\ ~(e.payload.quantity # Remaining(s))
    BY <1>3, <1>4, <1>5 DEF Remaining
  <2> QED BY <2>1, <2>2 DEF apply_terminal
<1>7. /\ state'.children = state.children /\ state'.filled = ParentQuantity
      /\ state'.terminal_applied = TRUE /\ state'.terminal_pending = FALSE
      /\ state'.events = state.events \cup {e.id}
      /\ state'.executions = state.executions /\ state'.issues = state.issues
  BY <1>5, <1>6 DEF StateShape
<1>8. Awaited' = {}
  BY <1>1, <1>4
<1>9. Over'
  BY <1>1, <1>4, <1>7 DEF Over, Live, Knows, knows_client_order_id
<1>10. Completions = {cursor + 1}
  <2>1. cursor + 1 \in Completions
    <3>1. Shapes
      BY DEF IInv
    <3>2. /\ Len(kernel.delivered_events) \in Nat /\ cursor \in 0..Len(kernel.delivered_events)
          /\ DOMAIN kernel.delivered_events = 1..Len(kernel.delivered_events)
      BY <3>1, ListedAppend DEF Shapes, Listed
    <3>3. cursor + 1 \in DOMAIN kernel.delivered_events
      BY <1>1, <3>2 DEF Waiting
    <3> QED BY <1>1, <3>3 DEF Completions
  <2>2. ASSUME NEW i \in Completions PROVE i = cursor + 1
    <3>1. i \in Waiting
      BY <1>4
    <3>2. kernel.delivered_events[i] = e
      BY <1>4, <3>1 DEF Awaited
    <3>3. e.id \in Nat
      BY <1>1 DEF Applying
    <3>4. \A a, b \in Waiting : a < b =>
            kernel.delivered_events[a].id < kernel.delivered_events[b].id
      BY <1>2 DEF NumbersSound
    <3>5. ~(i < cursor + 1) /\ ~(cursor + 1 < i)
      BY <1>1, <3>1, <3>2, <3>3, <3>4
    <3>6. i \in Int /\ cursor + 1 \in Int
      BY <1>1, <3>1 DEF Waiting
    <3> QED BY <3>5, <3>6
  <2> QED BY <2>1, <2>2
<1>11. Booked(state') = Booked(state)
  BY <1>7, BookedSame
<1>12. LedgerSound'
  <2>1. Completions' = {cursor + 1} /\ cursor + 1 \in DOMAIN kernel'.delivered_events
    BY <1>1, <1>10 DEF Completions
  <2>2. kernel'.delivered_events[cursor + 1].payload.quantity = ParentQuantity - Booked(state')
    BY <1>1, <1>4, <1>11 DEF Remaining
  <2> QED BY <1>7, <1>8, <1>9, <2>1, <2>2 DEF LedgerSound
<1>13. ExecutionsSound'
  BY <1>1, <1>2, <1>7, <1>8 DEF ExecutionsSound
<1>14. Names(e.payload) \subseteq {}
  BY DEF Names, ChildEvents
<1> QED BY <1>7, <1>12, <1>13, <1>14, ToldSound

\* The state applies a delivered event.
LEMMA ApplyStep ==
  ASSUME JInv, IInv, FixedReplies, ApplyDelivered
  PROVE  (JInv' /\ state'.issues = state.issues) \/ "parent_overfill" \in state'.issues
<1>1. PICK e, s : Applying(e) /\ Noting(s, e) /\ state' = apply_payload(s, e.payload)
  BY AppliedViews
<1>2. e.payload \in Replies \cup Completed
  <2>1. e \in Awaited
    BY <1>1 DEF Applying
  <2> QED BY <2>1, AwaitedReplies DEF IInv
<1>3. e.payload.kind \in {"OrderAcknowledged", "OrderRejected", "CancelAcknowledged", "Fill",
                          "ReplaceAcknowledged", "TerminalCompletion"}
  BY <1>2 DEF Replies, Acks, Rejections, CancelAcks, FillEvents, ReplaceAcks, Completed
<1>4. CASE e.payload.kind = "OrderAcknowledged"
  BY <1>1, <1>4, AckStep
<1>5. CASE e.payload.kind = "OrderRejected"
  BY <1>1, <1>5, RejectStep
<1>6. CASE e.payload.kind = "CancelAcknowledged"
  BY <1>1, <1>6, CancelAckStep
<1>7. CASE e.payload.kind = "ReplaceAcknowledged"
  BY <1>1, <1>7, ReplaceAckStep
<1>8. CASE e.payload.kind = "Fill"
  BY <1>1, <1>8, FillStep
<1>9. CASE e.payload.kind = "TerminalCompletion"
  BY <1>1, <1>9, TerminalStep
<1> QED BY <1>3, <1>4, <1>5, <1>6, <1>7, <1>8, <1>9

-----------------------------------------------------------------------------
(***************************************************************************)
(* The exchange processes a command.                                       *)
(***************************************************************************)

\* A command has been processed, with these replies and failures: what is under
\* way once their events are in the queue.
Processing(task, t, replies, failures) ==
  /\ task \in Sent /\ Sent' = Sent \ {task} /\ Len(replies) \in Nat
  /\ Awaited' = Awaited \cup {t[i].event : i \in 1..Len(replies)}
  /\ \A i \in 1..Len(replies) :
       /\ t[i].event.payload = replies[i] /\ t[i].event.id \in Nat
       /\ t[i].event.available = task.timing.available
       /\ \A e \in Awaited : e.id \in Nat /\ e.id < t[i].event.id
  /\ \A i, j \in 1..Len(replies) : i < j => t[i].event.id < t[j].event.id
  /\ \A e \in Awaited : e.payload.kind # "TerminalCompletion" =>
       e.available <= task.timing.available
  /\ task.timing.available \in Int
  /\ \A i \in Failed : kernel'.failures[i] = kernel.failures[i]
  /\ \/ failures = <<>> /\ Failed' = Failed
     \/ \E s : \E n : /\ failures = <<s>> /\ n \notin Failed /\ Failed' = Failed \cup {n}
                      /\ kernel'.failures[n] = FailureOf(task, s)
  /\ kernel'.delivered_events = kernel.delivered_events
  /\ UNCHANGED <<state, clock, cursor, routed>>

\* A command whose time has come.
Processable(task) ==
  /\ task \in kernel.queue /\ IsTop(kernel, task) /\ task.time <= clock
  /\ task.stage = ExchangeProcess

LEMMA ProcessTimes ==
  ASSUME Shapes, ClockSound, FixedReplies, NEW task, Processable(task)
  PROVE  /\ task \in Sent /\ task.time \in Nat /\ task.timing.available \in Int
         /\ task.timing.available = task.time + ReplyDelay /\ kernel.current_time <= task.time
         /\ (\A u \in kernel.queue : task.time <= u.time)
         /\ (\A u \in EventTasks : u.stage # System => u.time <= task.timing.available)
         /\ \A e \in Awaited : e.payload.kind # "TerminalCompletion" =>
              e.available \in Int /\ e.available <= task.timing.available
<1>1. task \in Sent /\ task \in kernel.queue /\ IsTop(kernel, task)
  BY DEF Processable, Sent, IsCommand
<1>2. /\ kernel.current_time \in Int /\ ReplyDelay \in Nat
      /\ \A u \in kernel.queue : u.time \in Nat /\ kernel.current_time <= u.time
  BY TimesAreInts
<1>3. OnItsWay(task)
  BY <1>1 DEF ClockSound
<1>4. task.time = task.timing.process /\ task.timing.available = task.timing.process + ReplyDelay
  BY <1>3, StagesDiffer DEF OnItsWay, Processable, ExchangeReceive, ExchangeProcess
<1>5. \A u \in kernel.queue : task.time <= u.time
  BY <1>1, TopFirst
<1>6. task.time \in Nat /\ kernel.current_time <= task.time
  BY <1>1, <1>2
<1>7. task.timing.available \in Int /\ task.time <= task.timing.available
      /\ kernel.current_time + ReplyDelay <= task.timing.available
  BY <1>2, <1>4, <1>6
<1>8. \A u \in EventTasks : u.stage # System => u.stage = ObserverAvailable
  BY AwaitedReplies
<1>9. ASSUME NEW u \in EventTasks, u.stage # System PROVE u.time <= task.timing.available
  <2>1. u.time <= kernel.current_time + ReplyDelay /\ u.time \in Nat
    BY <1>2, <1>8, <1>9 DEF ClockSound, EventTasks
  <2> QED BY <1>2, <1>7, <2>1
<1>10. ASSUME NEW e \in Awaited, e.payload.kind # "TerminalCompletion"
       PROVE  e.available \in Int /\ e.available <= task.timing.available
  <2>1. CASE \E u \in EventTasks : e = u.event
    <3>1. PICK u \in EventTasks : e = u.event
      BY <2>1
    <3>2. u.stage # System
      <4>1. u.stage = System => u.event.payload \in Completed
        BY AwaitedReplies, StagesDiffer
      <4> QED BY <1>10, <3>1, <4>1 DEF Completed
    <3>3. e.available = u.time /\ u.time \in Nat
      BY <1>2, <3>1 DEF ClockSound, EventTasks
    <3> QED BY <1>9, <3>2, <3>3
  <2>2. CASE \E i \in Waiting : e = kernel.delivered_events[i]
    <3>1. e.available \in Int /\ e.available <= kernel.current_time
      BY <2>2 DEF ClockSound
    <3> QED BY <1>2, <1>6, <1>7, <3>1
  <2> QED BY <2>1, <2>2 DEF Awaited
<1>11. task.timing.available = task.time + ReplyDelay
  BY <1>4
<1> QED BY <1>1, <1>5, <1>6, <1>7, <1>9, <1>10, <1>11

LEMMA HandledViews ==
  ASSUME Shapes, ClockSound, NumbersSound, FixedReplies, NEW task, Processable(task),
         NEW t, NEW replies, Len(replies) \in Nat, NEW failures,
         Handled(kernel, kernel', task, t, replies, failures),
         Len(replies) # 0 => \A e \in Awaited : e.payload.kind # "TerminalCompletion",
         UNCHANGED <<state, clock, cursor, routed>>
  PROVE  Processing(task, t, replies, failures) /\ ClockSound' /\ NumbersSound'
<1> DEFINE n == Len(replies)
           new == {t[i] : i \in 1..n}
           time == task.timing.available
<1>1. /\ task \in Sent /\ task.time \in Nat /\ time \in Int
      /\ time = task.time + ReplyDelay /\ kernel.current_time <= task.time
      /\ (\A u \in kernel.queue : task.time <= u.time)
      /\ (\A u \in EventTasks : u.stage # System => u.time <= time)
      /\ \A e \in Awaited : e.payload.kind # "TerminalCompletion" =>
           e.available \in Int /\ e.available <= time
  BY ProcessTimes
<1>2. /\ KernelShape(kernel') /\ kernel'.current_time = task.time
      /\ kernel'.delivered_events = kernel.delivered_events
      /\ kernel'.queue = (kernel.queue \ {task}) \cup new
      /\ Numbered(kernel, kernel', t, n)
      /\ \A i \in 1..n : Carries(t[i], replies[i], time, ObserverAvailable, NoTiming)
  BY DEF Handled
<1>3. \A u \in new : u.stage = ObserverAvailable /\ ~IsCommand(u) /\ u.time = time
                     /\ u.event.available = time
  BY <1>2, StagesDiffer DEF Carries, IsCommand
<1>4. EventTasks' = EventTasks \cup new /\ Sent' = Sent \ {task}
  <2>1. IsCommand(task)
    BY <1>1 DEF Sent
  <2> HIDE DEF new
  <2> QED BY <1>2, <1>3, <2>1 DEF EventTasks, Sent
<1>5. Waiting' = Waiting /\ \A i \in Waiting : kernel'.delivered_events[i] = kernel.delivered_events[i]
  BY <1>2 DEF Waiting
<1>6. /\ kernel.current_time \in Int /\ clock \in Nat /\ ReplyDelay \in Nat
      /\ \A u \in kernel.queue : u.time \in Nat /\ kernel.current_time <= u.time
      /\ \A u \in EventTasks : u \in kernel.queue
  BY TimesAreInts
<1>7. Awaited' = Awaited \cup {t[i].event : i \in 1..n} /\ NumbersSound'
  <2>1. CASE n = 0
    <3>1. EventTasks' = EventTasks
      BY <1>4, <2>1
    <3>2. Numbered(kernel, kernel', t, 0)
      BY <1>2, <2>1
    <3>3. Awaited' = Awaited /\ NumbersSound'
      BY <1>5, <3>1, <3>2, NumbersQuiet
    <3> QED BY <2>1, <3>3
  <2>2. CASE n # 0
    <3>1. \A u \in EventTasks : u.stage # System
      <4>1. \A u \in EventTasks : u.stage = System => u.event.payload \in Completed
        BY AwaitedReplies, StagesDiffer
      <4>2. \A u \in EventTasks : u.event \in Awaited
        BY DEF Awaited
      <4>3. \A p \in Completed : p.kind = "TerminalCompletion"
        BY DEF Completed
      <4> QED BY <2>2, <4>1, <4>2, <4>3
    <3>2. \A u \in EventTasks : u.time \in Int /\ u.time <= time
      BY <1>1, <1>6, <3>1
    <3>3. \A i \in 1..n : t[i].time = time /\ t[i].stage # System
      BY <1>3, StagesDiffer
    <3>4. n \in Nat
      OBVIOUS
    <3>5. state'.events = state.events
      OBVIOUS
    <3> HIDE DEF n, time
    <3>6. Numbered(kernel, kernel', t, n) /\ EventTasks' = EventTasks \cup {t[i] : i \in 1..n}
      BY <1>2, <1>4
    <3> QED BY <1>1, <1>5, <3>1, <3>2, <3>3, <3>4, <3>5, <3>6, NumbersGrow
  <2> QED BY <2>1, <2>2
<1>8. ClockSound'
  <2>1. task.time \in Time /\ clock \in Time
    BY <1>1 DEF ClockSound, Sent
  <2>2. time \in Time
    <3>1. OnItsWay(task)
      BY <1>1 DEF ClockSound
    <3> QED BY <3>1 DEF OnItsWay, Timing
  <2>3. task.time <= time
    BY <1>1, <1>6
  <2>4. \A u \in kernel'.queue : u.time \in Time /\ kernel'.current_time <= u.time
    <3> HIDE DEF new, time
    <3> QED BY <1>1, <1>2, <1>3, <2>2, <2>3 DEF ClockSound
  <2>5. \A u \in Sent' : OnItsWay(u)
    BY <1>4 DEF ClockSound
  <2>6. ASSUME NEW u \in EventTasks'
        PROVE  /\ u.event.available = u.time
               /\ u.stage = ObserverAvailable => u.time <= kernel'.current_time + ReplyDelay
               /\ u.stage = System => u.time <= clock'
    <3> HIDE DEF new, time
    <3>1. CASE u \in EventTasks
      <4>1. /\ u.event.available = u.time /\ u.time \in Nat
            /\ u.stage = ObserverAvailable => u.time <= kernel.current_time + ReplyDelay
            /\ u.stage = System => u.time <= clock
        BY <1>6, <3>1 DEF ClockSound
      <4> QED BY <1>1, <1>2, <1>6, <4>1
    <3>2. CASE u \in new
      <4>1. u.stage = ObserverAvailable /\ u.time = time /\ u.event.available = time
        BY <1>3, <3>2
      <4> QED BY <1>1, <1>2, <1>6, <4>1, StagesDiffer
    <3> QED BY <1>4, <3>1, <3>2
  <2>7. \A i \in Waiting' : /\ kernel'.delivered_events[i].available \in Int
                            /\ kernel'.delivered_events[i].available <= kernel'.current_time
    BY <1>1, <1>2, <1>5, <1>6 DEF ClockSound
  <2>8. kernel'.current_time \in Int /\ kernel'.current_time <= clock' /\ clock' \in Time
    BY <1>1, <1>2, <2>1 DEF Processable
  <2> QED BY <2>4, <2>5, <2>6, <2>7, <2>8 DEF ClockSound
<1>9. /\ \A i \in Failed : kernel'.failures[i] = kernel.failures[i]
      /\ \/ failures = <<>> /\ Failed' = Failed
         \/ \E s : \E m : /\ failures = <<s>> /\ m \notin Failed /\ Failed' = Failed \cup {m}
                          /\ kernel'.failures[m] = FailureOf(task, s)
  <2> DEFINE d == kernel.failures
             e == kernel'.failures
  <2>1. Listed(d) /\ routed \in 0..Len(d)
    BY DEF Shapes
  <2>2. CASE failures = <<>> /\ e = d
    BY <2>2 DEF Failed
  <2>3. CASE \E s : failures = <<s>> /\ e = Append(d, FailureOf(task, s))
    <3>1. PICK s : failures = <<s>> /\ e = Append(d, FailureOf(task, s))
      BY <2>3
    <3>2. /\ Len(d) \in Nat /\ Len(e) = Len(d) + 1 /\ e[Len(d) + 1] = FailureOf(task, s)
          /\ \A i \in 1..Len(d) : e[i] = d[i]
      BY <2>1, <3>1, ListedAppend
    <3>3. Failed = (routed + 1)..Len(d) /\ Failed' = (routed + 1)..Len(e)
      BY DEF Failed
    <3> HIDE DEF d, e
    <3>4. /\ \A i \in Failed : e[i] = d[i]
          /\ Len(d) + 1 \notin Failed /\ Failed' = Failed \cup {Len(d) + 1}
      BY <2>1, <3>2, <3>3
    <3> QED BY <3>1, <3>2, <3>4 DEF d, e
  <2> QED BY <2>2, <2>3 DEF Handled
<1>10. \A i \in 1..n :
         /\ t[i].event.payload = replies[i] /\ t[i].event.id \in Nat
         /\ t[i].event.available = time
         /\ \A e \in Awaited : e.id \in Nat /\ e.id < t[i].event.id
  <2>1. \A i \in 1..n : t[i].event.payload = replies[i] /\ t[i].event.available = time
    BY <1>2 DEF Carries
  <2>2. \A e \in Awaited : Below(e.id, kernel.next_event_id) /\ e.id \in Nat
    BY DEF NumbersSound, Below
  <2>3. \A i \in 1..n : /\ t[i].event.id \in Nat
                        /\ \A x \in Nat : Below(x, kernel.next_event_id) => x < t[i].event.id
    BY <1>2 DEF Numbered, Below
  <2> QED BY <2>1, <2>2, <2>3
<1>11. \A i, j \in 1..n : i < j => t[i].event.id < t[j].event.id
  BY <1>2 DEF Numbered
<1> QED BY <1>1, <1>2, <1>4, <1>7, <1>8, <1>9, <1>10, <1>11 DEF Processing

\* The executions of the replies have new numbers.
Executes(replies) ==
  /\ exchange.next_execution_id \in Nat /\ exchange'.next_execution_id \in Nat
  /\ exchange.next_execution_id <= exchange'.next_execution_id
  /\ \A i \in 1..Len(replies) : replies[i].kind = "Fill" =>
       /\ replies[i].execution \in Nat
       /\ exchange.next_execution_id <= replies[i].execution
       /\ replies[i].execution < exchange'.next_execution_id
  /\ \A i, j \in 1..Len(replies) :
       replies[i].kind = "Fill" /\ replies[j].kind = "Fill" /\ i # j =>
         replies[i].execution # replies[j].execution

LEMMA ExecutedSound ==
  ASSUME Shapes, ExecutionsSound, NEW task, NEW t, NEW replies, NEW failures,
         Processing(task, t, replies, failures), Executes(replies)
  PROVE  ExecutionsSound'
<1> DEFINE n == Len(replies)
           a == exchange.next_execution_id
           b == exchange'.next_execution_id
<1>1. /\ a \in Nat /\ b \in Nat /\ a <= b
      /\ \A i \in 1..n : replies[i].kind = "Fill" =>
           replies[i].execution \in Nat /\ a <= replies[i].execution /\ replies[i].execution < b
      /\ \A i, j \in 1..n : replies[i].kind = "Fill" /\ replies[j].kind = "Fill" /\ i # j =>
           replies[i].execution # replies[j].execution
  BY DEF Executes
<1>2. /\ Awaited' = Awaited \cup {t[i].event : i \in 1..n} /\ state' = state
      /\ \A i \in 1..n : t[i].event.payload = replies[i]
  BY DEF Processing
<1>3. /\ \A x \in state.executions : x \in Nat /\ x < a
      /\ \A e \in Awaited : e.payload.kind = "Fill" =>
           e.payload.execution < a /\ e.payload.execution \notin state.executions
      /\ \A e, f \in Awaited : e.payload.kind = "Fill" /\ f.payload.kind = "Fill" /\ e # f =>
           e.payload.execution # f.payload.execution
  BY DEF ExecutionsSound
<1>4. \A e \in Awaited : e.payload.kind = "Fill" => e.payload.execution \in Nat
  <2>1. \A e \in Awaited : e.payload.kind = "Fill" => e.payload \in Replies
    BY AwaitedReplies
  <2> QED BY <2>1 DEF Replies, Acks, Rejections, CancelAcks, FillEvents, ReplaceAcks
<1> HIDE DEF n, a, b
<1>5. ASSUME NEW e \in Awaited'
      PROVE  \/ e \in Awaited
             \/ \E i \in 1..n : e = t[i].event /\ e.payload = replies[i]
  BY <1>2
<1>6. \A e \in Awaited' : e.payload.kind = "Fill" =>
        e.payload.execution < b /\ e.payload.execution \notin state'.executions
  <2> SUFFICES ASSUME NEW e \in Awaited', e.payload.kind = "Fill"
               PROVE  e.payload.execution < b /\ e.payload.execution \notin state.executions
    BY <1>2
  <2>1. CASE e \in Awaited
    BY <1>1, <1>3, <1>4, <2>1
  <2>2. CASE \E i \in 1..n : e = t[i].event /\ e.payload = replies[i]
    <3>1. e.payload.execution \in Nat /\ a <= e.payload.execution /\ e.payload.execution < b
      BY <1>1, <2>2
    <3> QED BY <1>1, <1>3, <3>1
  <2> QED BY <1>5, <2>1, <2>2
<1>7. ASSUME NEW e \in Awaited', NEW f \in Awaited',
             e.payload.kind = "Fill", f.payload.kind = "Fill", e # f
      PROVE  e.payload.execution # f.payload.execution
  <2>1. CASE e \in Awaited /\ f \in Awaited
    BY <1>3, <1>7, <2>1
  <2>2. ASSUME NEW x \in Awaited, x.payload.kind = "Fill", NEW i \in 1..n, replies[i].kind = "Fill"
        PROVE  x.payload.execution # replies[i].execution
    <3>1. x.payload.execution \in Nat /\ x.payload.execution < a
      BY <1>3, <1>4, <2>2
    <3>2. replies[i].execution \in Nat /\ a <= replies[i].execution
      BY <1>1, <2>2
    <3> QED BY <1>1, <3>1, <3>2
  <2>3. CASE e \notin Awaited /\ f \notin Awaited
    <3>1. PICK i \in 1..n : e = t[i].event /\ e.payload = replies[i]
      BY <1>5, <2>3
    <3>2. PICK j \in 1..n : f = t[j].event /\ f.payload = replies[j]
      BY <1>5, <2>3
    <3> QED BY <1>1, <1>7, <3>1, <3>2
  <2> QED BY <1>5, <1>7, <2>1, <2>2, <2>3
<1>8. \A x \in state'.executions : x \in Nat /\ x < b
  BY <1>1, <1>2, <1>3
<1> QED BY <1>6, <1>7, <1>8 DEF ExecutionsSound, b

\* The step leaves all clients but those of X alone, and what it tells is sound.
LEMMA ProcessedSound ==
  ASSUME JInv, IInv, FixedReplies, ClockSound', NumbersSound',
         NEW task, NEW t, NEW replies, NEW failures, Processing(task, t, replies, failures),
         NEW X, Names(task.event.payload) \subseteq X,
         \A i \in 1..Len(replies) :
           Names(replies[i]) \subseteq X /\ replies[i].kind # "TerminalCompletion",
         \A c \in ClientIds \ X : exchange'.orders[c] = exchange.orders[c],
         \A u \in Sent \ {task} : Names(u.event.payload) \cap X = {} \/ CommandSound(u)',
         \A i \in Failed : kernel.failures[i].command.client \notin X \/ FailureFits(i)',
         \A i \in Failed' \ Failed : FailureFits(i)',
         \A c \in X \cap ClientIds : (Knows(c)' => ChildSound(c)') /\ EndFits(c)',
         Executes(replies), Over => Live' \subseteq Live /\ Len(replies) = 0
  PROVE  JInv'
<1>0. /\ Shapes /\ ClockSound /\ NumbersSound /\ CommandsSound /\ FailuresFit
      /\ ChildrenSound /\ EndsInTime /\ ExecutionsSound /\ LedgerSound
  BY DEF IInv, JInv
<1>1. /\ task \in Sent /\ Sent' = Sent \ {task} /\ Len(replies) \in Nat
      /\ Awaited' = Awaited \cup {t[i].event : i \in 1..Len(replies)}
      /\ \A i \in 1..Len(replies) : t[i].event.payload = replies[i]
      /\ (\A i \in Failed : kernel'.failures[i] = kernel.failures[i])
      /\ kernel'.delivered_events = kernel.delivered_events
      /\ UNCHANGED <<state, clock, cursor, routed>>
  BY DEF Processing
<1>2. \/ Failed' = Failed
      \/ \E n : /\ n \notin Failed /\ Failed' = Failed \cup {n}
                /\ kernel'.failures[n].command = task.event.payload
  <2>1. CASE failures = <<>> /\ Failed' = Failed
    BY <2>1
  <2>2. CASE \E s : \E n : /\ failures = <<s>> /\ n \notin Failed /\ Failed' = Failed \cup {n}
                      /\ kernel'.failures[n] = FailureOf(task, s)
    <3>1. PICK s, n : /\ n \notin Failed /\ Failed' = Failed \cup {n}
                      /\ kernel'.failures[n] = FailureOf(task, s)
      BY <2>2
    <3>2. kernel'.failures[n].command = task.event.payload
      BY <3>1 DEF FailureOf
    <3> QED BY <3>1, <3>2
  <2> QED BY <2>1, <2>2 DEF Processing
<1>3. ExecutionsSound'
  BY <1>0, ExecutedSound
<1>4. CommandsSound' /\ FailuresFit' /\ ChildrenSound' /\ EndsInTime'
  <2>1. clock' \in Int /\ clock <= clock'
    BY <1>0, <1>1, TimesAreInts
  <2>2. ASSUME NEW c \in ClientIds \ X PROVE Untouched(c)
    <3>1. About(Awaited, c)' = About(Awaited, c)
      <4>1. \A i \in 1..Len(replies) : c \notin Names(t[i].event.payload)
        BY <1>1
      <4>2. Awaited' = Awaited \cup {t[i].event : i \in 1..Len(replies)}
        BY <1>1
      <4> QED BY <4>1, <4>2 DEF About
    <3>2. SentAbout(c)' = SentAbout(c)
      BY <1>1 DEF SentAbout
    <3>3. FailedAbout(c)' = FailedAbout(c)
      <4>1. CASE Failed' = Failed
        BY <1>1, <4>1 DEF FailedAbout
      <4>2. CASE \E n : /\ n \notin Failed /\ Failed' = Failed \cup {n}
                        /\ kernel'.failures[n].command = task.event.payload
        BY <1>1, <4>2 DEF FailedAbout
      <4> QED BY <1>2, <4>1, <4>2
    <3>4. exchange'.orders[c] = exchange.orders[c] /\ state'.children[c] = state.children[c]
      BY <1>1
    <3> QED BY <3>1, <3>2, <3>3, <3>4 DEF Untouched, Kept
  <2>3. \A u \in Sent' : \/ u \in Sent /\ Names(u.event.payload) \cap X = {}
                         \/ CommandSound(u)'
    BY <1>1
  <2>4. \A i \in Failed' : \/ /\ i \in Failed /\ kernel'.failures[i] = kernel.failures[i]
                              /\ kernel.failures[i].command.client \notin X
                           \/ FailureFits(i)'
    BY <1>1
  <2> QED BY <1>0, <2>1, <2>2, <2>3, <2>4, Elsewhere
<1>5. Booked(state') = Booked(state)
  BY <1>1
<1>6. Completions' = Completions
  BY <1>1 DEF Completions
<1>7. LedgerSound'
  <2>1. CASE Idle
    <3>1. /\ state.terminal_applied = FALSE /\ state.terminal_pending = FALSE
          /\ state.filled = Booked(state) /\ Completions = {}
          /\ \A e \in Awaited : e.payload.kind # "TerminalCompletion"
      BY <1>0, <2>1 DEF LedgerSound, Idle
    <3>2. \A e \in Awaited' : e.payload.kind # "TerminalCompletion"
      BY <1>1, <3>1
    <3>3. /\ state'.terminal_applied = FALSE /\ state'.terminal_pending = FALSE
          /\ state'.filled = Booked(state') /\ Completions' = {}
      BY <1>1, <1>5, <1>6, <3>1
    <3> QED BY <3>2, <3>3, LedgerIdle
  <2>2. CASE ~Idle
    <3>1. Over
      BY <1>0, <2>2, IdleOrOver
    <3>2. Live' \subseteq Live /\ Len(replies) = 0
      BY <3>1
    <3>3. Awaited' = Awaited
      BY <1>1, <3>2
    <3>4. Over'
      <4>1. \A u \in Sent' : u \in Sent
        BY <1>1
      <4>2. \A c \in ClientIds : Knows(c)' => Knows(c) /\ state'.children[c].state = state.children[c].state
        BY <1>1 DEF Knows, knows_client_order_id
      <4> QED BY <3>1, <3>2, <4>1, <4>2, OverKept
    <3>5. /\ state'.terminal_applied = state.terminal_applied
          /\ state'.terminal_pending = state.terminal_pending /\ state'.filled = state.filled
      BY <1>1
    <3> QED BY <1>0, <1>1, <1>5, <3>3, <3>4, <3>5, LedgerKept
  <2> QED BY <2>1, <2>2
<1> QED BY <1>3, <1>4, <1>7 DEF JInv

-----------------------------------------------------------------------------
(***************************************************************************)
(* An order trades.                                                        *)
(***************************************************************************)

\* Order m is order o with more lots traded.
MatchOf(o, m, lots, rests) ==
  /\ m.id = o.id /\ m.quantity = o.quantity /\ m.cum = o.cum + lots
  /\ m.leaves = IF rests THEN o.leaves - lots ELSE 0
  /\ m.state = IF o.leaves - lots = 0 THEN "Filled"
               ELSE IF ~rests THEN "Cancelled"
               ELSE IF o.cum + lots = 0 THEN "Live"
               ELSE "PartiallyFilled"

LEMMA SameOrder ==
  ASSUME NEW o \in Order, NEW m \in Order, m.id = o.id, m.quantity = o.quantity,
         m.cum = o.cum, m.leaves = o.leaves, m.state = o.state
  PROVE  m = o
<1>1. /\ o = [id |-> o.id, quantity |-> o.quantity, cum |-> o.cum, leaves |-> o.leaves,
              state |-> o.state]
      /\ m = [id |-> m.id, quantity |-> m.quantity, cum |-> m.cum, leaves |-> m.leaves,
              state |-> m.state]
  BY DEF Order
<1> QED BY <1>1, Zenon

LEMMA MatchedParts ==
  ASSUME NEW o \in Order, NEW sizes, NEW lots, lots = Lots(sizes), lots \in 0..o.leaves,
         NEW rests \in BOOLEAN, NEW m, m = Matched(o, sizes, rests)
  PROVE  m \in Order /\ MatchOf(o, m, lots, rests)
<1>1. m = [o EXCEPT !.cum = o.cum + lots,
                    !.leaves = IF rests THEN o.leaves - lots ELSE 0,
                    !.state = IF o.leaves - lots = 0 THEN "Filled"
                              ELSE IF ~rests THEN "Cancelled"
                              ELSE IF o.cum + lots = 0 THEN "Live"
                              ELSE "PartiallyFilled"]
  BY DEF Matched
<1>2. /\ o.id \in Nat /\ o.quantity \in Nat /\ o.cum \in Nat /\ o.leaves \in Nat
      /\ o = [id |-> o.id, quantity |-> o.quantity, cum |-> o.cum, leaves |-> o.leaves,
              state |-> o.state]
  BY DEF Order
<1>3. m = [id |-> o.id, quantity |-> o.quantity, cum |-> o.cum + lots,
           leaves |-> IF rests THEN o.leaves - lots ELSE 0,
           state |-> IF o.leaves - lots = 0 THEN "Filled"
                     ELSE IF ~rests THEN "Cancelled"
                     ELSE IF o.cum + lots = 0 THEN "Live"
                     ELSE "PartiallyFilled"]
  BY <1>1, <1>2
<1>4. m \in Order
  BY MatchedFacts
<1>5. MatchOf(o, m, lots, rests)
  BY <1>3 DEF MatchOf
<1> QED BY <1>4, <1>5

\* Event e is the next fill of order o.
NextFill(c, o, T, e, lots) ==
  /\ e.id \in Nat /\ (\A f \in T : f.id \in Nat /\ f.id < e.id /\ f.payload \in Replies)
  /\ e.payload \in FillEvents /\ e.payload.client = c /\ e.payload.exchange_order_id = o.id
  /\ e.payload.quantity = lots /\ e.payload.cum = o.cum + lots
  /\ e.payload.leaves = o.leaves - lots

LEMMA TracksTrade ==
  ASSUME NEW c, NEW k \in Child, NEW o \in Order, NEW T, Tracks(c, k, o, T), o.state \in Open,
         NEW e, NEW lots \in Nat \ {0}, lots <= o.leaves, NextFill(c, o, T, e, lots),
         NEW m, m = Matched(o, <<lots>>, TRUE)
  PROVE  Tracks(c, k, m, T \cup {e})
<1>1. Lots(<<lots>>) = lots /\ lots \in 0..o.leaves
  BY LotsOf DEF Order
<1>2. /\ m \in Order /\ m.id = o.id /\ m.quantity = o.quantity /\ m.cum = o.cum + lots
      /\ m.leaves = o.leaves - lots
      /\ m.state = IF o.leaves - lots = 0 THEN "Filled"
                   ELSE IF o.cum + lots = 0 THEN "Live"
                   ELSE "PartiallyFilled"
  <2>1. TRUE \in BOOLEAN
    OBVIOUS
  <2> DEFINE sizes == <<lots>>
  <2>2. lots = Lots(sizes) /\ m = Matched(o, sizes, TRUE)
    BY <1>1
  <2> HIDE DEF sizes
  <2>3. m \in Order /\ MatchOf(o, m, lots, TRUE)
    BY <1>1, <2>1, <2>2, MatchedParts
  <2> QED BY <2>3 DEF MatchOf
<1>3. o.cum + lots # 0
  BY DEF Order
<1>4. m.state = IF m.leaves = 0 THEN "Filled" ELSE "PartiallyFilled"
  BY <1>2, <1>3
<1>5. /\ e.id \in Nat /\ (\A f \in T : f.id \in Nat /\ f.id < e.id) /\ (\A f \in T : f.payload \in Replies)
      /\ e.payload \in FillEvents /\ e.payload.client = c /\ e.payload.exchange_order_id = o.id
      /\ e.payload.quantity = lots /\ e.payload.cum = o.cum + lots
      /\ e.payload.leaves = o.leaves - lots
  BY DEF NextFill
<1>6. /\ e.payload.quantity # 0 /\ e.payload.cum = o.cum + e.payload.quantity
      /\ e.payload.leaves = o.leaves - e.payload.quantity
      /\ m.cum = e.payload.cum /\ m.leaves = e.payload.leaves
  BY <1>2, <1>5
<1> QED BY <1>2, <1>4, <1>5, <1>6, TracksFilled

\* The events f are the fills of order o, with these sizes, and come after T.
FillsOf(c, o, T, f, sizes) ==
  /\ \A i \in 1..Len(sizes) :
       /\ f[i].id \in Nat /\ f[i].payload = Fills(c, o, sizes)[i]
       /\ \A g \in T : g.id \in Nat /\ g.id < f[i].id /\ g.payload \in Replies
  /\ \A i, j \in 1..Len(sizes) : i < j => f[i].id < f[j].id

\* Payload p is the i-th fill of order o.
FillOf(p, c, o, i, size, lots) ==
  /\ p \in FillEvents /\ p.client = c /\ p.exchange_order_id = o.id
  /\ p.execution = exchange.next_execution_id + i - 1
  /\ p.quantity = size /\ p.cum = o.cum + lots /\ p.leaves = o.leaves - lots

EventsOf(f, n) == {f[i] : i \in 1..n}

LEMMA FillParts ==
  ASSUME exchange.next_execution_id \in Nat, NEW c \in ClientIds, NEW o \in Order,
         NEW sizes \in MatchSizes(o.leaves), NEW i \in 1..Len(sizes),
         NEW lots, lots = Lots(SubSeq(sizes, 1, i)), NEW p, p = Fills(c, o, sizes)[i]
  PROVE  FillOf(p, c, o, i, sizes[i], lots)
<1>1. o.leaves \in Nat
  BY DEF Order
<1>2. /\ Len(sizes) \in Nat /\ DOMAIN sizes = 1..Len(sizes) /\ Lots(sizes) \in 0..o.leaves
      /\ \A j \in 1..Len(sizes) :
           sizes[j] \in Nat /\ Lots(SubSeq(sizes, 1, j)) \in 0..Lots(sizes)
  BY <1>1, MatchFacts
<1>3. p = [kind |-> "Fill", client |-> c, exchange_order_id |-> o.id,
           execution |-> exchange.next_execution_id + i - 1, quantity |-> sizes[i],
           cum |-> o.cum + lots, leaves |-> o.leaves - lots]
  BY <1>2 DEF Fills
<1>4. p \in FillEvents
  <2> DEFINE S == {q \in FillEvents : q.client = c /\ (q.leaves = 0 => Lots(sizes) = o.leaves)}
  <2>1. Fills(c, o, sizes) \in Seq(S)
    BY <1>2, FillsFacts
  <2>2. DOMAIN Fills(c, o, sizes) = 1..Len(sizes)
    BY <1>2 DEF Fills
  <2> HIDE DEF S
  <2>3. p \in S
    BY <1>2, <2>1, <2>2, ElementOfSeq
  <2> QED BY <2>3 DEF S
<1> QED BY <1>3, <1>4 DEF FillOf

\* An open order trades as often as it may.
LEMMA TracksTraded ==
  ASSUME exchange.next_execution_id \in Nat, NEW c \in ClientIds, NEW k \in Child,
         NEW o \in Order, NEW T, Tracks(c, k, o, T), o.state \in Open,
         NEW sizes \in MatchSizes(o.leaves), NEW f, FillsOf(c, o, T, f, sizes),
         NEW m, m = Matched(o, sizes, TRUE)
  PROVE  Tracks(c, k, m, T \cup EventsOf(f, Len(sizes)))
<1>1. /\ SoundOrder(o) /\ o.leaves \in Nat /\ o.cum \in Nat /\ o.quantity \in Nat
      /\ o.id \in Nat /\ o.leaves = o.quantity - o.cum /\ o.leaves # 0
      /\ o.state = IF o.cum = 0 THEN "Live" ELSE "PartiallyFilled"
  BY DEF Tracks, SoundOrder, Order, Open
<1>2. CASE sizes = <<>>
  <2>1. Lots(sizes) = 0 /\ Len(sizes) = 0
    BY <1>2, LotsOf
  <2>2. /\ m \in Order /\ m.id = o.id /\ m.quantity = o.quantity /\ m.cum = o.cum + 0
        /\ m.leaves = o.leaves - 0
        /\ m.state = IF o.leaves - 0 = 0 THEN "Filled"
                     ELSE IF o.cum + 0 = 0 THEN "Live"
                     ELSE "PartiallyFilled"
    <3>1. TRUE \in BOOLEAN /\ 0 = Lots(sizes) /\ 0 \in 0..o.leaves
      BY <1>1, <2>1
    <3>2. m \in Order /\ MatchOf(o, m, 0, TRUE)
      BY <3>1, MatchedParts
    <3> QED BY <3>2 DEF MatchOf
  <2>3. m = o
    <3>0. o.cum + 0 = o.cum /\ o.leaves - 0 = o.leaves
      <4>1. o.cum \in Nat /\ o.leaves \in Nat
        BY <1>1
      <4> QED BY <4>1
    <3>1. m.cum = o.cum /\ m.leaves = o.leaves
      BY <2>2, <3>0, Zenon
    <3>2. m.state = o.state
      BY <1>1, <2>2, <3>0, Zenon
    <3> QED BY <2>2, <3>1, <3>2, SameOrder
  <2>4. EventsOf(f, Len(sizes)) = {}
    BY <2>1 DEF EventsOf
  <2> QED BY <2>3, <2>4
<1>3. CASE \E a \in 1..o.leaves : sizes = <<a>>
  <2>1. PICK a \in 1..o.leaves : sizes = <<a>>
    BY <1>3
  <2>2. Len(sizes) = 1 /\ sizes[1] = a /\ SubSeq(sizes, 1, 1) = <<a>>
    BY <2>1, ShortSequences
  <2>3. a \in Nat \ {0} /\ a <= o.leaves
    BY <1>1
  <2>4. Lots(SubSeq(sizes, 1, 1)) = a
    BY <2>2, <2>3, LotsOf, Zenon
  <2>5. 1 \in 1..Len(sizes)
    BY <2>2
  <2> DEFINE p == Fills(c, o, sizes)[1]
  <2>6. /\ p \in FillEvents /\ p.client = c /\ p.exchange_order_id = o.id
        /\ p.quantity = a /\ p.cum = o.cum + a /\ p.leaves = o.leaves - a
    <3>1. FillOf(p, c, o, 1, sizes[1], a)
      BY <2>2, <2>4, <2>5, FillParts
    <3> QED BY <2>2, <3>1 DEF FillOf
  <2>7. /\ f[1].id \in Nat /\ f[1].payload = p
        /\ \A g \in T : g.id \in Nat /\ g.id < f[1].id /\ g.payload \in Replies
    BY <2>5 DEF FillsOf
  <2> HIDE DEF p
  <2>8. NextFill(c, o, T, f[1], a)
    BY <2>6, <2>7 DEF NextFill
  <2>9. Tracks(c, k, m, T \cup {f[1]})
    BY <2>1, <2>3, <2>8, TracksTrade
  <2>10. EventsOf(f, Len(sizes)) = {f[1]}
    BY <2>2 DEF EventsOf
  <2> QED BY <2>9, <2>10
<1>4. CASE \E a, b \in 1..o.leaves : a + b <= o.leaves /\ sizes = <<a, b>>
  <2>1. PICK a \in 1..o.leaves, b \in 1..o.leaves : a + b <= o.leaves /\ sizes = <<a, b>>
    BY <1>4
  <2>2. /\ Len(sizes) = 2 /\ sizes[1] = a /\ sizes[2] = b
        /\ SubSeq(sizes, 1, 1) = <<a>> /\ SubSeq(sizes, 1, 2) = <<a, b>>
    BY <2>1, ShortSequences
  <2>3. a \in Nat \ {0} /\ a <= o.leaves /\ b \in Nat \ {0} /\ a + b <= o.leaves
    BY <1>1, <2>1
  <2>4. Lots(SubSeq(sizes, 1, 1)) = a /\ Lots(SubSeq(sizes, 1, 2)) = a + b /\ Lots(sizes) = a + b
    BY <2>1, <2>2, <2>3, LotsOf, Zenon
  <2>5. 1 \in 1..Len(sizes) /\ 2 \in 1..Len(sizes)
    BY <2>2
  <2> DEFINE p == Fills(c, o, sizes)[1]
             q == Fills(c, o, sizes)[2]
             e == f[1]
             g2 == f[2]
             n == Matched(o, <<a>>, TRUE)
  <2>6. /\ p \in FillEvents /\ p.client = c /\ p.exchange_order_id = o.id
        /\ p.quantity = a /\ p.cum = o.cum + a /\ p.leaves = o.leaves - a
    <3>1. FillOf(p, c, o, 1, sizes[1], a)
      BY <2>2, <2>4, <2>5, FillParts
    <3> QED BY <2>2, <3>1 DEF FillOf
  <2>7. /\ q \in FillEvents /\ q.client = c /\ q.exchange_order_id = o.id
        /\ q.quantity = b /\ q.cum = o.cum + (a + b) /\ q.leaves = o.leaves - (a + b)
    <3>1. FillOf(q, c, o, 2, sizes[2], a + b)
      BY <2>2, <2>4, <2>5, FillParts
    <3> QED BY <2>2, <3>1 DEF FillOf
  <2>8. /\ e.id \in Nat /\ e.payload = p /\ g2.id \in Nat /\ g2.payload = q
        /\ (\A g \in T : g.id \in Nat /\ g.id < e.id /\ g.payload \in Replies)
        /\ (\A g \in T : g.id \in Nat /\ g.id < g2.id /\ g.payload \in Replies)
        /\ e.id < g2.id
    BY <2>5 DEF FillsOf
  <2> HIDE DEF p, q
  <2>9. NextFill(c, o, T, e, a)
    BY <2>6, <2>8 DEF NextFill
  <2>10. Tracks(c, k, n, T \cup {e})
    BY <2>3, <2>9, TracksTrade
  <2>11. /\ n \in Order /\ n.id = o.id /\ n.quantity = o.quantity /\ n.cum = o.cum + a
         /\ n.leaves = o.leaves - a
         /\ n.state = IF o.leaves - a = 0 THEN "Filled"
                      ELSE IF o.cum + a = 0 THEN "Live"
                      ELSE "PartiallyFilled"
    <3> DEFINE one == <<a>>
    <3>1. a = Lots(one) /\ n = Matched(o, one, TRUE) /\ TRUE \in BOOLEAN /\ a \in 0..o.leaves
      BY <2>3, LotsOf
    <3> HIDE DEF one, n
    <3>2. n \in Order /\ MatchOf(o, n, a, TRUE)
      BY <3>1, MatchedParts
    <3> QED BY <3>2 DEF MatchOf
  <2> HIDE DEF n, e, g2
  <2>12. n.state = "PartiallyFilled" /\ b <= n.leaves /\ n.state \in Open
    BY <1>1, <2>3, <2>11 DEF Open
  <2>13. NextFill(c, n, T \cup {e}, g2, b)
    <3>1. e.payload \in Replies
      BY <2>6, <2>8 DEF Replies
    <3>2. q.cum = n.cum + b /\ q.leaves = n.leaves - b
      BY <1>1, <2>3, <2>7, <2>11
    <3> QED BY <2>7, <2>8, <2>11, <3>1, <3>2 DEF NextFill
  <2>14. Tracks(c, k, Matched(n, <<b>>, TRUE), (T \cup {e}) \cup {g2})
    BY <2>3, <2>10, <2>11, <2>12, <2>13, TracksTrade
  <2>15. m = Matched(n, <<b>>, TRUE)
    <3> DEFINE last == Matched(n, <<b>>, TRUE)
               two == <<b>>
    <3>1. /\ m \in Order /\ m.id = o.id /\ m.quantity = o.quantity /\ m.cum = o.cum + (a + b)
          /\ m.leaves = o.leaves - (a + b)
          /\ m.state = IF o.leaves - (a + b) = 0 THEN "Filled"
                       ELSE IF o.cum + (a + b) = 0 THEN "Live"
                       ELSE "PartiallyFilled"
      <4>1. a + b = Lots(sizes) /\ TRUE \in BOOLEAN /\ a + b \in 0..o.leaves
        BY <2>3, <2>4
      <4>2. m \in Order /\ MatchOf(o, m, a + b, TRUE)
        BY <4>1, MatchedParts
      <4> QED BY <4>2 DEF MatchOf
    <3>2. b = Lots(two) /\ last = Matched(n, two, TRUE) /\ TRUE \in BOOLEAN /\ b \in 0..n.leaves
      BY <1>1, <2>3, <2>11, <2>12, LotsOf
    <3> HIDE DEF last, two
    <3>3. /\ last \in Order /\ last.id = n.id /\ last.quantity = n.quantity /\ last.cum = n.cum + b
          /\ last.leaves = n.leaves - b
          /\ last.state = IF n.leaves - b = 0 THEN "Filled"
                          ELSE IF n.cum + b = 0 THEN "Live"
                          ELSE "PartiallyFilled"
      <4>1. last \in Order /\ MatchOf(n, last, b, TRUE)
        BY <2>11, <3>2, MatchedParts
      <4> QED BY <4>1 DEF MatchOf
    <3>4. last.id = m.id /\ last.quantity = m.quantity /\ last.cum = m.cum /\ last.leaves = m.leaves
      <4>1. (o.cum + a) + b = o.cum + (a + b) /\ (o.leaves - a) - b = o.leaves - (a + b)
        BY <1>1, <2>3
      <4> QED BY <2>11, <3>1, <3>3, <4>1
    <3>5. last.state = m.state
      <4>1. n.leaves - b = o.leaves - (a + b) /\ n.cum + b = o.cum + (a + b)
        BY <1>1, <2>3, <2>11
      <4> QED BY <3>1, <3>3, <4>1
    <3>6. last = m
      BY <3>1, <3>3, <3>4, <3>5, SameOrder
    <3> QED BY <3>6 DEF last
  <2>16. EventsOf(f, Len(sizes)) = {e} \cup {g2}
    BY <2>2 DEF e, g2, EventsOf
  <2>17. (T \cup {e}) \cup {g2} = T \cup EventsOf(f, Len(sizes))
    BY <2>16
  <2> QED BY <2>14, <2>15, <2>17
<1> QED BY <1>2, <1>3, <1>4 DEF MatchSizes

-----------------------------------------------------------------------------
(***************************************************************************)
(* An order is opened.                                                     *)
(***************************************************************************)

\* Nothing is under way about the client of a command that opens its order, but
\* the command.
LEMMA OpeningQuiet ==
  ASSUME JInv, IInv, NEW task \in Sent, NEW p, p = task.event.payload, NEW c \in Opens(p)
  PROVE  /\ c \in ClientIds /\ ~Has(c) /\ Knows(c) /\ About(Awaited, c) = {}
         /\ SentAbout(c) = {task} /\ FailedAbout(c) = {}
         /\ p.quantity \in 1..ParentQuantity /\ state.children[c] = NewChild(p.quantity)
<1>1. Shapes /\ CommandSound(task)
  BY DEF IInv, JInv, CommandsSound
<1>2. Fresh(c) /\ SentAbout(c) = {task} /\ FailedAbout(c) = {}
  BY DEF IInv, OpeningAlone
<1>3. ~Has(c) /\ Knows(c) /\ ToldAbout(c) = {}
  BY <1>2 DEF Fresh
<1>4. About(Awaited, c) = {}
  BY <1>1, <1>3, AboutTold
<1>5. p.kind \in {"Submit", "Replace"}
  BY DEF Opens
<1>6. p.quantity \in 1..ParentQuantity /\ state.children[c] = NewChild(p.quantity)
  BY <1>1, <1>5 DEF CommandSound
<1>7. p \in Commands \cup {[kind |-> "Take"]} /\ Opens(p) \subseteq Names(p) /\ Names(p) \subseteq ClientIds
  BY <1>1, SentNames, CommandNames
<1> QED BY <1>2, <1>3, <1>4, <1>6, <1>7

\* Order m is the new order o of client c once it has traded, and its child
\* becomes it with the events T.
OpenedAs(c, q, o, sizes, m, T) ==
  /\ Tracks(c, NewChild(q), m, T)
  /\ o \in Order /\ o.quantity = q /\ o.leaves = q /\ o.cum = 0 /\ NewChild(q) \in Child
  /\ Lots(sizes) \in 0..q /\ Len(sizes) \in Nat
  /\ m \in Order /\ MatchOf(o, m, Lots(sizes), TRUE)

LEMMA OpenedOrder ==
  ASSUME ExchangeShape(exchange), NEW c \in ClientIds, NEW q \in 1..ParentQuantity,
         NEW o, o = NewExchangeOrder(q), NEW sizes \in MatchSizes(q),
         NEW e, e.id \in Nat, e.payload \in Replies, Opening(e.payload, c), ~Closing(e.payload, c),
         e.payload.exchange_order_id = o.id, e.payload.quantity = q,
         NEW f, FillsOf(c, o, {e}, f, sizes), NEW m, m = Matched(o, sizes, TRUE)
  PROVE  OpenedAs(c, q, o, sizes, m, {e} \cup EventsOf(f, Len(sizes)))
<1>1. q \in Nat /\ q # 0 /\ exchange.next_execution_id \in Nat
  BY StateAssumption DEF ExchangeShape
<1>2. o \in Order /\ o.quantity = q /\ o.leaves = q
  BY <1>1, NewOrderFacts
<1>3. o.cum = 0 /\ o.state = "Live" /\ o.id # 0
  BY DEF NewExchangeOrder, ExchangeShape
<1>4. SoundOrder(o) /\ o.state \in Open
  BY <1>1, <1>2, <1>3 DEF SoundOrder, Open, Closed, Terminals
<1>5. NewChild(q) \in Child
  BY <1>1 DEF NewChild, Child, NoExchangeId
<1>6. Tracks(c, NewChild(q), o, {e})
  BY <1>2, <1>3, <1>4, TracksOpened
<1>7. Lots(sizes) \in 0..q /\ Len(sizes) \in Nat
  BY <1>1, MatchFacts
<1>8. m \in Order /\ MatchOf(o, m, Lots(sizes), TRUE)
  <2>1. TRUE \in BOOLEAN /\ Lots(sizes) \in 0..o.leaves
    BY <1>2, <1>7
  <2> QED BY <1>2, <2>1, MatchedParts
<1> DEFINE k == NewChild(q)
           T == {e}
<1>9. Tracks(c, k, o, T) /\ k \in Child /\ FillsOf(c, o, T, f, sizes)
  BY <1>5, <1>6
<1>10. sizes \in MatchSizes(o.leaves)
  BY <1>2
<1> HIDE DEF k, T
<1>11. Tracks(c, k, m, T \cup EventsOf(f, Len(sizes)))
  BY <1>1, <1>2, <1>4, <1>9, <1>10, TracksTraded
<1> QED BY <1>2, <1>3, <1>5, <1>7, <1>8, <1>11 DEF k, T, OpenedAs

\* The replies r are ack, and then the fills.
Leads(r, ack, fills) ==
  /\ Len(fills) \in Nat /\ Len(r) = Len(fills) + 1 /\ r[1] = ack
  /\ \A i \in 1..Len(fills) : r[i + 1] = fills[i]

LEMMA AckThenFills ==
  ASSUME NEW S, NEW fills \in Seq(S), NEW ack, NEW r, r = <<ack>> \o fills
  PROVE  Leads(r, ack, fills) /\ \E R : r \in Seq(R)
<1>1. fills \in Seq(S \cup {ack}) /\ <<ack>> \in Seq(S \cup {ack}) /\ Len(<<ack>>) = 1 /\ <<ack>>[1] = ack
  OBVIOUS
<1>2. /\ Len(r) = 1 + Len(fills)
      /\ \A i \in 1..(1 + Len(fills)) : r[i] = IF i <= 1 THEN <<ack>>[i] ELSE fills[i - 1]
      /\ r \in Seq(S \cup {ack})
  BY <1>1, ConcatProperties
<1>3. Len(fills) \in Nat
  OBVIOUS
<1>4. r[1] = ack
  BY <1>1, <1>2, <1>3
<1>5. ASSUME NEW i \in 1..Len(fills) PROVE r[i + 1] = fills[i]
  <2>1. i + 1 \in 1..(1 + Len(fills)) /\ ~(i + 1 <= 1) /\ (i + 1) - 1 = i
    BY <1>3
  <2> QED BY <1>2, <2>1
<1> QED BY <1>2, <1>3, <1>4, <1>5 DEF Leads

LEMMA IndexShift ==
  ASSUME NEW n \in Nat, NEW t
  PROVE  {t[i].event : i \in 1..(n + 1)}
           = {t[1].event} \cup EventsOf([i \in 1..n |-> t[i + 1].event], n)
<1>1. \A i \in 1..(n + 1) : i = 1 \/ (i - 1 \in 1..n /\ (i - 1) + 1 = i)
  OBVIOUS
<1>2. \A i \in 1..n : i + 1 \in 1..(n + 1)
  OBVIOUS
<1>3. 1 \in 1..(n + 1)
  OBVIOUS
<1> QED BY <1>1, <1>2, <1>3 DEF EventsOf

LEMMA ExecutesFills ==
  ASSUME exchange.next_execution_id \in Nat, NEW n \in Nat,
         exchange'.next_execution_id = exchange.next_execution_id + n, NEW shift \in Nat,
         NEW replies, Len(replies) \in Nat,
         \A i \in 1..Len(replies) : replies[i].kind = "Fill" =>
           /\ i - shift \in 1..n
           /\ replies[i].execution = exchange.next_execution_id + (i - shift) - 1
  PROVE  Executes(replies)
<1> DEFINE a == exchange.next_execution_id
           b == exchange'.next_execution_id
<1>1. a \in Nat /\ b \in Nat /\ a <= b /\ b = a + n
  OBVIOUS
<1>2. ASSUME NEW i \in 1..Len(replies), replies[i].kind = "Fill"
      PROVE  replies[i].execution \in Nat /\ a <= replies[i].execution /\ replies[i].execution < b
             /\ replies[i].execution = a + (i - shift) - 1
  <2>1. replies[i].execution = a + (i - shift) - 1 /\ i - shift \in 1..n
    BY <1>2
  <2>2. \A x, y, z \in Int : y \in 1..z => /\ x + y - 1 < x + z /\ x <= x + y - 1
                                          /\ (x \in Nat => x + y - 1 \in Nat)
    OBVIOUS
  <2>3. i - shift \in Int /\ n \in Int /\ a \in Int
    OBVIOUS
  <2> DEFINE y == i - shift
  <2>4. y \in 1..n /\ y \in Int /\ replies[i].execution = a + y - 1
    BY <2>1, <2>3
  <2> HIDE DEF a, b, y
  <2>5. a + y - 1 < a + n /\ a <= a + y - 1 /\ a + y - 1 \in Nat
    BY <1>1, <2>2, <2>3, <2>4
  <2> QED BY <1>1, <2>1, <2>4, <2>5
<1>3. ASSUME NEW i \in 1..Len(replies), replies[i].kind = "Fill",
             NEW j \in 1..Len(replies), replies[j].kind = "Fill", i # j
      PROVE  replies[i].execution # replies[j].execution
  <2>1. replies[i].execution = a + (i - shift) - 1 /\ replies[j].execution = a + (j - shift) - 1
    BY <1>2, <1>3
  <2> HIDE DEF a, b
  <2> QED BY <1>1, <1>3, <2>1
<1> QED BY <1>1, <1>2, <1>3 DEF Executes

LEMMA WithOrderCounts ==
  ASSUME ExchangeShape(exchange), NEW c, NEW m, NEW sizes, NEW x, x = WithOrder(c, m, sizes)
  PROVE  x.next_execution_id = exchange.next_execution_id + Len(sizes)
<1> DEFINE orders == [exchange.orders EXCEPT ![c] = m]
           a == exchange.next_exchange_order_id + 1
           b == exchange.next_execution_id + Len(sizes)
<1>1. x = [exchange EXCEPT !.orders = orders, !.next_exchange_order_id = a, !.next_execution_id = b]
  BY DEF WithOrder, ExchangeShape
<1> HIDE DEF orders, a, b
<1>2. x.next_execution_id = b
  BY <1>1 DEF ExchangeShape
<1> QED BY <1>2 DEF b

-----------------------------------------------------------------------------
(***************************************************************************)
(* Each command is processed.                                              *)
(***************************************************************************)

\* The command is processed, with this outcome.
Outcome(task, outcome) ==
  /\ Processable(task)
  /\ kernel' = process_exchange(kernel, task, outcome.replies, outcome.failures)
  /\ ~kernel'.thrown /\ exchange' = outcome.exchange
  /\ UNCHANGED <<state, clock, cursor, routed>>

LEMMA OutcomeViews ==
  ASSUME JInv, IInv, FixedReplies, NEW task, NEW outcome, Outcome(task, outcome),
         Len(outcome.replies) \in Nat,
         outcome.failures = <<>> \/ \E s : outcome.failures = <<s>>,
         Len(outcome.replies) # 0 => Idle
  PROVE  \E t : /\ Processing(task, t, outcome.replies, outcome.failures)
                /\ ClockSound' /\ NumbersSound'
<1>1. Shapes /\ ClockSound /\ NumbersSound /\ LedgerSound /\ Counting(kernel)
  BY KernelCounts DEF IInv, JInv
<1>2. Processable(task) /\ UNCHANGED <<state, clock, cursor, routed>> /\ ~kernel'.thrown
      /\ kernel' = process_exchange(kernel, task, outcome.replies, outcome.failures)
  BY DEF Outcome
<1>3. task.time \in Int /\ task.timing.available \in Int /\ Listed(kernel.failures)
  BY <1>1, <1>2, ProcessTimes DEF Shapes
<1> DEFINE replies == outcome.replies
           failures == outcome.failures
           q == kernel'
<1>4. /\ Len(replies) \in Nat /\ (failures = <<>> \/ \E s : failures = <<s>>)
      /\ q = process_exchange(kernel, task, replies, failures) /\ ~q.thrown
  BY <1>2
<1>5. Len(replies) # 0 => \A e \in Awaited : e.payload.kind # "TerminalCompletion"
  BY <1>1 DEF LedgerSound, Idle
<1> HIDE DEF replies, failures, q
<1>6. PICK t : Handled(kernel, q, task, t, replies, failures)
  BY <1>1, <1>3, <1>4, ProcessMade
<1>7. Handled(kernel, kernel', task, t, replies, failures)
  BY <1>6 DEF q
<1>8. Processing(task, t, replies, failures) /\ ClockSound' /\ NumbersSound'
  BY <1>1, <1>2, <1>4, <1>5, <1>7, HandledViews
<1> QED BY <1>8 DEF replies, failures

\* Only other participants' commands reach the exchange when nothing can trade.
LEMMA OwnIdle ==
  ASSUME JInv, NEW task \in Sent, task.event.payload.kind # "Take"
  PROVE  Idle /\ ~Over
<1>1. ~Over
  BY DEF Over
<1> QED BY <1>1, IdleOrOver DEF JInv

\* A failure other than these is about another client.
LEMMA NotFailed ==
  ASSUME Shapes, NEW c, FailedAbout(c) = {}, NEW i \in Failed
  PROVE  kernel.failures[i].command.client # c
<1>1. kernel.failures[i].command \in Commands
  BY FailedNames
<1>2. kernel.failures[i].command.client \in Names(kernel.failures[i].command)
  BY <1>1 DEF Commands, Submits, Cancels, Replaces, Names
<1> QED BY <1>2 DEF FailedAbout

\* An order is refused.
LEMMA SubmitRefused ==
  ASSUME JInv, IInv, FixedReplies, NEW task, NEW p \in Submits, p = task.event.payload,
         NEW outcome, Outcome(task, outcome),
         outcome = Refused(<<[kind |-> "OrderRejected", client |-> p.client]>>, NoState)
  PROVE  JInv'
<1> DEFINE c0 == p.client
           r == [kind |-> "OrderRejected", client |-> c0]
<1>1. /\ p.kind = "Submit" /\ c0 \in ClientIds /\ Names(p) = {c0} /\ Opens(p) = {c0}
  BY DEF Submits, Names, Opens
<1>2. Shapes /\ task \in Sent /\ ExchangeShape(exchange)
  BY DEF IInv, Shapes, Outcome, Processable, Sent, IsCommand
<1>3. /\ ~Has(c0) /\ Knows(c0) /\ About(Awaited, c0) = {}
      /\ SentAbout(c0) = {task} /\ FailedAbout(c0) = {}
      /\ p.quantity \in 1..ParentQuantity /\ state.children[c0] = NewChild(p.quantity)
  BY <1>1, <1>2, OpeningQuiet
<1>4. Idle /\ ~Over
  BY <1>1, <1>2, OwnIdle
<1>5. /\ outcome.exchange = exchange /\ outcome.replies = <<r>> /\ outcome.failures = <<NoState>>
      /\ Len(outcome.replies) = 1 /\ outcome.replies[1] = r
  BY DEF Refused
<1>6. PICK t : /\ Processing(task, t, outcome.replies, outcome.failures)
               /\ ClockSound' /\ NumbersSound'
  BY <1>4, <1>5, OutcomeViews
<1>7. exchange' = exchange /\ state' = state
  BY <1>5 DEF Outcome
<1> DEFINE e == t[1].event
<1>8. /\ Awaited' = Awaited \cup {e} /\ e.payload = r /\ e.available = task.timing.available
      /\ task.timing.available \in Int
  <2>1. \A i \in 1..1 : i = 1
    OBVIOUS
  <2>2. {t[i].event : i \in 1..1} = {t[1].event}
    BY <2>1
  <2> QED BY <1>5, <1>6, <2>2 DEF Processing
<1>9. Names(r) = {c0}
  BY DEF Names, ChildEvents
<1>10. r.kind = "OrderRejected" /\ r.client = c0
  OBVIOUS
<1> HIDE DEF e, r
<1>11. About(Awaited, c0)' = {e}
  BY <1>3, <1>8, <1>9 DEF About
<1>12. Knows(c0)' /\ ~Has(c0)' /\ state'.children[c0] = NewChild(p.quantity)
  BY <1>3, <1>7 DEF Knows, knows_client_order_id, Has
<1>13. ChildSound(c0)' /\ EndFits(c0)'
  <2>1. Untraded(NewChild(p.quantity), {e})
    BY <1>8, <1>10, <1>3, StateAssumption DEF Untraded, NewChild
  <2>2. NewChild(p.quantity).requested \in 1..ParentQuantity
    BY <1>3 DEF NewChild
  <2>3. ChildSound(c0)'
    BY <1>11, <1>12, <2>1, <2>2 DEF ChildSound
  <2>4. EndFits(c0)'
    BY <1>8, <1>10, <1>11 DEF EndFits, Closing
  <2> QED BY <2>3, <2>4
<1>14. \A u \in Sent \ {task} : Names(u.event.payload) \cap {c0} = {}
  BY <1>3 DEF SentAbout
<1>15. \A i \in Failed : kernel.failures[i].command.client \notin {c0}
  BY <1>2, <1>3, NotFailed
<1>16. ASSUME NEW i \in Failed' \ Failed PROVE FailureFits(i)'
  <2>0. \A s : outcome.failures = <<s>> => s = NoState
    BY <1>5
  <2>1. kernel'.failures[i] = FailureOf(task, NoState)
    <3>1. outcome.failures # <<>>
      BY <1>5
    <3>2. PICK s, n : /\ outcome.failures = <<s>> /\ n \notin Failed /\ Failed' = Failed \cup {n}
                      /\ kernel'.failures[n] = FailureOf(task, s)
      BY <1>6, <3>1 DEF Processing
    <3> QED BY <2>0, <3>2
  <2> DEFINE g == kernel'.failures[i]
  <2>2. g.command = p /\ g.available = task.timing.available /\ g.current_state = NoState
    BY <2>1 DEF FailureOf
  <2>3. FailureFits(i)' <=> FailureFits(i)'
    OBVIOUS
  <2> HIDE DEF g
  <2>4. \A f \in About(Awaited, c0)' : f.available <= task.timing.available
    BY <1>8, <1>11
  <2> QED BY <1>1, <1>8, <2>2, <2>4 DEF FailureFits, g
<1>17. Executes(outcome.replies)
  <2>1. exchange.next_execution_id \in Nat /\ exchange'.next_execution_id = exchange.next_execution_id + 0
    BY <1>2, <1>7 DEF ExchangeShape
  <2>2. \A i \in 1..Len(outcome.replies) : outcome.replies[i].kind # "Fill"
    BY <1>5, <1>10
  <2>3. 0 \in Nat /\ Len(outcome.replies) \in Nat
    BY <1>5
  <2> QED BY <2>1, <2>2, <2>3, ExecutesFills
<1>18. \A i \in 1..Len(outcome.replies) :
         Names(outcome.replies[i]) \subseteq {c0} /\ outcome.replies[i].kind # "TerminalCompletion"
  BY <1>5, <1>9, <1>10
<1>19. \A c \in ClientIds \ {c0} : exchange'.orders[c] = exchange.orders[c]
  BY <1>7
<1> DEFINE X == {c0}
           replies == outcome.replies
           failures == outcome.failures
<1>20. Names(task.event.payload) \subseteq X
  BY <1>1
<1>21. \A c \in X \cap ClientIds : (Knows(c)' => ChildSound(c)') /\ EndFits(c)'
  BY <1>13
<1>22. /\ (\A u \in Sent \ {task} : Names(u.event.payload) \cap X = {} \/ CommandSound(u)')
       /\ (\A i \in Failed : kernel.failures[i].command.client \notin X \/ FailureFits(i)')
       /\ (\A c \in ClientIds \ X : exchange'.orders[c] = exchange.orders[c])
       /\ \A i \in 1..Len(replies) :
            Names(replies[i]) \subseteq X /\ replies[i].kind # "TerminalCompletion"
  BY <1>14, <1>15, <1>18, <1>19
<1>23. /\ Processing(task, t, replies, failures) /\ ClockSound' /\ NumbersSound'
       /\ Executes(replies) /\ (Over => Live' \subseteq Live /\ Len(replies) = 0)
  BY <1>4, <1>6, <1>17
<1> HIDE DEF X, replies, failures
<1> QED BY <1>16, <1>20, <1>21, <1>22, <1>23, ProcessedSound

\* The replies r are those of a, and then the last.
EndsWith(r, a, last) ==
  /\ Len(a) \in Nat /\ Len(r) = Len(a) + 1 /\ r[Len(a) + 1] = last
  /\ \A i \in 1..Len(a) : r[i] = a[i]

LEMMA OneMore ==
  ASSUME NEW R, NEW a \in Seq(R), NEW last, NEW r, r = a \o <<last>>
  PROVE  EndsWith(r, a, last)
<1>1. a \in Seq(R \cup {last}) /\ <<last>> \in Seq(R \cup {last}) /\ Len(<<last>>) = 1 /\ <<last>>[1] = last
  OBVIOUS
<1>2. /\ Len(r) = Len(a) + 1
      /\ \A i \in 1..(Len(a) + 1) : r[i] = IF i <= Len(a) THEN a[i] ELSE <<last>>[i - Len(a)]
  BY <1>1, ConcatProperties
<1>3. Len(a) \in Nat
  OBVIOUS
<1>4. r[Len(a) + 1] = last
  <2>1. Len(a) + 1 \in 1..(Len(a) + 1) /\ ~(Len(a) + 1 <= Len(a)) /\ (Len(a) + 1) - Len(a) = 1
    BY <1>3
  <2> QED BY <1>1, <1>2, <2>1
<1>5. \A i \in 1..Len(a) : r[i] = a[i]
  <2>1. \A i \in 1..Len(a) : i \in 1..(Len(a) + 1) /\ i <= Len(a)
    BY <1>3
  <2> QED BY <1>2, <2>1
<1> QED BY <1>2, <1>3, <1>4, <1>5 DEF EndsWith

LEMMA FillsListed ==
  ASSUME exchange.next_execution_id \in Nat, NEW c \in ClientIds, NEW o \in Order,
         NEW sizes \in MatchSizes(o.leaves)
  PROVE  (\E S : Fills(c, o, sizes) \in Seq(S)) /\ Len(Fills(c, o, sizes)) = Len(sizes)
<1>1. /\ Len(sizes) \in Nat /\ DOMAIN sizes = 1..Len(sizes) /\ Lots(sizes) \in 0..o.leaves
      /\ \A j \in 1..Len(sizes) :
           sizes[j] \in Nat /\ Lots(SubSeq(sizes, 1, j)) \in 0..Lots(sizes)
  BY MatchFacts DEF Order
<1> DEFINE S == {q \in FillEvents : q.client = c /\ (q.leaves = 0 => Lots(sizes) = o.leaves)}
           fills == Fills(c, o, sizes)
<1>2. fills \in Seq(S)
  BY <1>1, FillsFacts
<1>3. DOMAIN fills = 1..Len(sizes)
  BY <1>1 DEF Fills
<1> HIDE DEF S, fills
<1>4. Len(fills) = Len(sizes)
  BY <1>1, <1>2, <1>3
<1> QED BY <1>2, <1>4 DEF fills

\* The replies of a submit that is accepted.
LEMMA SubmitRepliesAre ==
  ASSUME exchange.next_execution_id \in Nat, NEW c \in ClientIds, NEW o \in Order,
         NEW sizes \in MatchSizes(o.leaves), NEW rests,
         NEW ack, ack = [kind |-> "OrderAcknowledged", client |-> c, exchange_order_id |-> o.id,
                         quantity |-> o.quantity],
         NEW last, last = [kind |-> "CancelAcknowledged", client |-> c,
                           exchange_order_id |-> o.id, cum |-> Lots(sizes)],
         NEW r, r = SubmitReplies(c, o, sizes, rests)
  PROVE  \E a : /\ Leads(a, ack, Fills(c, o, sizes))
                /\ IF rests \/ Lots(sizes) = o.quantity THEN r = a ELSE EndsWith(r, a, last)
<1> DEFINE fills == Fills(c, o, sizes)
           a == <<ack>> \o fills
           end == IF rests \/ Lots(sizes) = o.quantity THEN <<>> ELSE <<last>>
<1>1. r = a \o end
  BY Zenon DEF SubmitReplies
<1>2. PICK S : fills \in Seq(S)
  BY FillsListed
<1> HIDE DEF fills
<1>3. Leads(a, ack, fills) /\ \E R : a \in Seq(R)
  BY <1>2, AckThenFills
<1>4. PICK R : a \in Seq(R)
  BY <1>3
<1> HIDE DEF a
<1>5. CASE rests \/ Lots(sizes) = o.quantity
  <2>1. end = <<>>
    BY <1>5
  <2> HIDE DEF end
  <2>2. r = a
    BY <1>1, <1>4, <2>1
  <2> QED BY <1>3, <1>5, <2>2 DEF fills
<1>6. CASE ~(rests \/ Lots(sizes) = o.quantity)
  <2>1. end = <<last>>
    BY <1>6
  <2> HIDE DEF end
  <2>2. r = a \o <<last>>
    BY <1>1, <2>1
  <2>3. EndsWith(r, a, last)
    BY <1>4, <2>2, OneMore
  <2> QED BY <1>3, <1>6, <2>3 DEF fills
<1> QED BY <1>5, <1>6

\* An order that does not rest is cancelled once it has traded.
LEMMA TracksRemainder ==
  ASSUME NEW c, NEW k \in Child, NEW o \in Order, NEW lots \in 0..o.leaves, lots # o.leaves,
         o.leaves \in Nat, o.cum = 0,
         NEW m \in Order, MatchOf(o, m, lots, TRUE), NEW n \in Order, MatchOf(o, n, lots, FALSE),
         NEW T, Tracks(c, k, m, T), NEW e, e.id \in Nat, \A f \in T : f.id \in Nat /\ f.id < e.id,
         e.payload = [kind |-> "CancelAcknowledged", client |-> c,
                      exchange_order_id |-> o.id, cum |-> lots]
  PROVE  Tracks(c, k, n, T \cup {e})
<1>1. lots \in Nat /\ o.leaves - lots # 0 /\ o.cum + lots = lots
  OBVIOUS
<1>2. /\ m.id = o.id /\ m.quantity = o.quantity /\ m.cum = lots
      /\ m.state = IF lots = 0 THEN "Live" ELSE "PartiallyFilled"
  BY <1>1 DEF MatchOf
<1>3. /\ n.id = o.id /\ n.quantity = o.quantity /\ n.cum = lots /\ n.leaves = 0
      /\ n.state = "Cancelled"
  BY <1>1 DEF MatchOf
<1>4. m.state \in Open
  BY <1>2 DEF Open
<1>5. Closing(e.payload, c) /\ ~Opening(e.payload, c) /\ e.payload.kind = "CancelAcknowledged"
      /\ e.payload.exchange_order_id = m.id /\ e.payload.cum = m.cum
  BY <1>2 DEF Closing, Opening
<1> QED BY <1>2, <1>3, <1>4, <1>5, TracksClosed

\* The events of the first n tasks.
TaskEvents(t, n) == {t[i].event : i \in 1..n}

\* The replies are, or begin with, the acknowledgement of a new order and its fills.
OpensWith(task, t, replies, c, q, o, sizes, r, ack) ==
  /\ c \in ClientIds /\ q \in 1..ParentQuantity /\ o = NewExchangeOrder(q)
  /\ sizes \in MatchSizes(q) /\ Leads(r, ack, Fills(c, o, sizes))
  /\ Len(r) <= Len(replies) /\ \A i \in 1..Len(r) : replies[i] = r[i]
  /\ ack \in Replies /\ Opening(ack, c) /\ ~Closing(ack, c)
  /\ ack.exchange_order_id = o.id /\ ack.quantity = q

LEMMA OpenedTraded ==
  ASSUME ExchangeShape(exchange), NEW task, NEW t, NEW replies, NEW failures,
         Processing(task, t, replies, failures), NEW c, NEW q, NEW o, NEW sizes, NEW r, NEW ack,
         OpensWith(task, t, replies, c, q, o, sizes, r, ack), NEW m, m = Matched(o, sizes, TRUE)
  PROVE  OpenedAs(c, q, o, sizes, m, TaskEvents(t, Len(r)))
<1>1. /\ c \in ClientIds /\ q \in 1..ParentQuantity /\ o = NewExchangeOrder(q)
      /\ sizes \in MatchSizes(q) /\ Leads(r, ack, Fills(c, o, sizes))
      /\ Len(r) <= Len(replies) /\ (\A i \in 1..Len(r) : replies[i] = r[i])
      /\ ack \in Replies /\ Opening(ack, c) /\ ~Closing(ack, c)
      /\ ack.exchange_order_id = o.id /\ ack.quantity = q
  BY DEF OpensWith
<1> DEFINE n == Len(sizes)
           fills == Fills(c, o, sizes)
           f == [i \in 1..n |-> t[i + 1].event]
           e == t[1].event
<1>2. o \in Order /\ sizes \in MatchSizes(o.leaves) /\ exchange.next_execution_id \in Nat
  BY <1>1, NewOrderFacts, StateAssumption DEF ExchangeShape
<1>3. Len(fills) = n /\ n \in Nat /\ Len(replies) \in Nat
  <2>1. Len(replies) \in Nat
    BY DEF Processing
  <2>2. Len(fills) = Len(sizes)
    BY <1>1, <1>2, FillsListed
  <2> QED BY <1>1, <2>1, <2>2 DEF Leads
<1>4. /\ Len(r) = n + 1 /\ r[1] = ack /\ \A i \in 1..n : r[i + 1] = fills[i]
  BY <1>1, <1>3 DEF Leads
<1>5. /\ \A i \in 1..Len(replies) : t[i].event.payload = replies[i] /\ t[i].event.id \in Nat
      /\ \A i, j \in 1..Len(replies) : i < j => t[i].event.id < t[j].event.id
  BY DEF Processing
<1> HIDE DEF fills, n
<1>6. e.payload = ack /\ e.id \in Nat
  BY <1>1, <1>3, <1>4, <1>5
<1>7. ASSUME NEW i \in 1..n
      PROVE  /\ f[i].id \in Nat /\ f[i].payload = fills[i] /\ e.id < f[i].id
             /\ \A j \in 1..n : i < j => f[i].id < f[j].id
  <2>1. i + 1 \in 1..Len(replies) /\ 1 \in 1..Len(replies) /\ 1 < i + 1
        /\ i + 1 \in 1..Len(r)
    BY <1>1, <1>3, <1>4
  <2>2. f[i] = t[i + 1].event
    OBVIOUS
  <2>3. f[i].id \in Nat /\ f[i].payload = fills[i] /\ e.id < f[i].id
    BY <1>1, <1>4, <1>5, <2>1, <2>2
  <2>4. ASSUME NEW j \in 1..n, i < j PROVE f[i].id < f[j].id
    <3>1. j + 1 \in 1..Len(replies) /\ i + 1 < j + 1 /\ f[j] = t[j + 1].event
      BY <1>1, <1>3, <1>4, <2>4
    <3> HIDE DEF f
    <3> QED BY <1>5, <2>1, <2>2, <3>1
  <2> QED BY <2>3, <2>4
<1> HIDE DEF f, e
<1>8. FillsOf(c, o, {e}, f, sizes)
  BY <1>1, <1>6, <1>7 DEF FillsOf, fills, n
<1>9. OpenedAs(c, q, o, sizes, m, {e} \cup EventsOf(f, Len(sizes)))
  <2>1. e.id \in Nat /\ e.payload \in Replies /\ Opening(e.payload, c) /\ ~Closing(e.payload, c)
        /\ e.payload.exchange_order_id = o.id /\ e.payload.quantity = q
    BY <1>1, <1>6
  <2> QED BY <1>1, <1>8, <2>1, OpenedOrder
<1>10. TaskEvents(t, Len(r)) = {e} \cup EventsOf(f, Len(sizes))
  BY <1>3, <1>4, IndexShift DEF TaskEvents, e, f, n
<1> QED BY <1>9, <1>10

\* The replies after the acknowledgement are fills, and their executions are new.
LEMMA OpenedFills ==
  ASSUME ExchangeShape(exchange), NEW task, NEW t, NEW replies,
         NEW c, NEW q, NEW o, NEW sizes, NEW r, NEW ack,
         OpensWith(task, t, replies, c, q, o, sizes, r, ack)
  PROVE  /\ Len(sizes) \in Nat /\ Len(r) = Len(sizes) + 1 /\ r[1] = ack
         /\ \A i \in 1..Len(r) : i # 1 =>
              /\ i - 1 \in 1..Len(sizes) /\ r[i] \in FillEvents /\ r[i].client = c
              /\ r[i].execution = exchange.next_execution_id + (i - 1) - 1
<1>1. /\ c \in ClientIds /\ q \in 1..ParentQuantity /\ o = NewExchangeOrder(q)
      /\ sizes \in MatchSizes(q) /\ Leads(r, ack, Fills(c, o, sizes))
  BY DEF OpensWith
<1> DEFINE n == Len(sizes)
           fills == Fills(c, o, sizes)
<1>2. o \in Order /\ sizes \in MatchSizes(o.leaves) /\ exchange.next_execution_id \in Nat
  BY <1>1, NewOrderFacts, StateAssumption DEF ExchangeShape
<1>3. Len(fills) = n /\ n \in Nat
  <2>2. Len(fills) = Len(sizes)
    BY <1>1, <1>2, FillsListed
  <2> QED BY <1>1, <2>2 DEF Leads
<1>4. /\ Len(r) = n + 1 /\ r[1] = ack /\ \A i \in 1..n : r[i + 1] = fills[i]
  BY <1>1, <1>3 DEF Leads
<1> HIDE DEF fills, n
<1>5. ASSUME NEW i \in 1..Len(r), i # 1
      PROVE  /\ i - 1 \in 1..n /\ r[i] \in FillEvents /\ r[i].client = c
             /\ r[i].execution = exchange.next_execution_id + (i - 1) - 1
  <2> DEFINE j == i - 1
             p == fills[j]
             lots == Lots(SubSeq(sizes, 1, j))
  <2>1. j \in 1..n /\ j + 1 = i
    BY <1>3, <1>4, <1>5
  <2>2. r[i] = p
    BY <1>4, <2>1
  <2>3. j \in 1..Len(sizes) /\ p = Fills(c, o, sizes)[j] /\ lots = Lots(SubSeq(sizes, 1, j))
    BY <2>1 DEF fills, n
  <2> HIDE DEF p, j, lots
  <2>4. FillOf(p, c, o, j, sizes[j], lots)
    BY <1>1, <1>2, <2>3, FillParts
  <2>5. p \in FillEvents /\ p.client = c /\ p.execution = exchange.next_execution_id + j - 1
    BY <2>4 DEF FillOf
  <2> QED BY <2>1, <2>2, <2>5 DEF j
<1> QED BY <1>3, <1>4, <1>5 DEF n

\* An accepted order's executions are new, whatever else is replied.
LEMMA OpenedExecutes ==
  ASSUME ExchangeShape(exchange), NEW task, NEW t, NEW replies, Len(replies) \in Nat,
         NEW c, NEW q, NEW o, NEW sizes, NEW r, NEW ack,
         OpensWith(task, t, replies, c, q, o, sizes, r, ack), ack.kind # "Fill",
         exchange'.next_execution_id = exchange.next_execution_id + Len(sizes),
         \A i \in 1..Len(replies) : i > Len(r) => replies[i].kind # "Fill"
  PROVE  Executes(replies)
<1> DEFINE n == Len(sizes)
<1>1. /\ n \in Nat /\ Len(r) = n + 1 /\ r[1] = ack
      /\ \A i \in 1..Len(r) : i # 1 =>
           /\ i - 1 \in 1..n /\ r[i] \in FillEvents /\ r[i].client = c
           /\ r[i].execution = exchange.next_execution_id + (i - 1) - 1
  BY OpenedFills
<1>2. Len(r) <= Len(replies) /\ \A i \in 1..Len(r) : replies[i] = r[i]
  BY DEF OpensWith
<1>3. exchange.next_execution_id \in Nat /\ exchange'.next_execution_id = exchange.next_execution_id + n
  BY DEF ExchangeShape
<1> HIDE DEF n
<1>4. ASSUME NEW i \in 1..Len(replies), replies[i].kind = "Fill"
      PROVE  /\ i - 1 \in 1..n
             /\ replies[i].execution = exchange.next_execution_id + (i - 1) - 1
  <2>1. i \in 1..Len(r)
    BY <1>1, <1>4
  <2>2. replies[i] = r[i] /\ i # 1
    BY <1>1, <1>2, <1>4, <2>1
  <2> QED BY <1>1, <2>1, <2>2
<1>5. 1 \in Nat
  OBVIOUS
<1> QED BY <1>1, <1>3, <1>4, <1>5, ExecutesFills

\* An order is accepted.
LEMMA SubmitTraded ==
  ASSUME JInv, IInv, FixedReplies, NEW task, NEW p \in Submits, p = task.event.payload,
         NEW outcome, Outcome(task, outcome), NEW o, o = NewExchangeOrder(p.quantity),
         NEW sizes \in MatchSizes(p.quantity), NEW rests \in BOOLEAN,
         NEW m, m = Matched(o, sizes, rests), outcome.exchange = WithOrder(p.client, m, sizes),
         outcome.replies = SubmitReplies(p.client, o, sizes, rests), outcome.failures = <<>>
  PROVE  JInv'
<1> DEFINE c0 == p.client
           q == p.quantity
           n == Len(sizes)
           lots == Lots(sizes)
           full == Matched(o, sizes, TRUE)
           ack == [kind |-> "OrderAcknowledged", client |-> c0, exchange_order_id |-> o.id,
                   quantity |-> o.quantity]
           last == [kind |-> "CancelAcknowledged", client |-> c0,
                    exchange_order_id |-> o.id, cum |-> lots]
           replies == outcome.replies
           failures == outcome.failures
           X == {c0}
<1>1. /\ p.kind = "Submit" /\ c0 \in ClientIds /\ Names(p) = {c0} /\ Opens(p) = {c0}
  BY DEF Submits, Names, Opens
<1>2. Shapes /\ task \in Sent /\ ExchangeShape(exchange)
  BY DEF IInv, Shapes, Outcome, Processable, Sent, IsCommand
<1>3. /\ ~Has(c0) /\ Knows(c0) /\ About(Awaited, c0) = {}
      /\ SentAbout(c0) = {task} /\ FailedAbout(c0) = {}
      /\ q \in 1..ParentQuantity /\ state.children[c0] = NewChild(q)
  BY <1>1, <1>2, OpeningQuiet
<1>4. Idle /\ ~Over
  BY <1>1, <1>2, OwnIdle
<1>5. q \in Nat /\ o \in Order /\ o.quantity = q /\ o.leaves = q /\ o.id \in Nat
  <2>1. q \in Nat
    BY <1>3, StateAssumption
  <2>2. o \in Order /\ o.quantity = q /\ o.leaves = q
    BY <1>2, <2>1, NewOrderFacts
  <2> QED BY <2>1, <2>2 DEF Order
<1>6. n \in Nat /\ lots \in 0..q /\ sizes \in MatchSizes(o.leaves)
  BY <1>5, MatchFacts
<1>7. exchange.next_execution_id \in Nat
  BY <1>2 DEF ExchangeShape
<1> HIDE DEF n, lots
<1>8. PICK r : /\ Leads(r, ack, Fills(c0, o, sizes))
               /\ IF rests \/ lots = o.quantity THEN replies = r ELSE EndsWith(replies, r, last)
  BY <1>1, <1>5, <1>6, <1>7, SubmitRepliesAre DEF lots
<1>9. Len(r) = n + 1
  BY <1>1, <1>5, <1>6, <1>7, <1>8, FillsListed DEF Leads, n
<1>10. /\ Len(replies) \in Nat /\ Len(r) <= Len(replies)
       /\ \A i \in 1..Len(r) : replies[i] = r[i]
       /\ \A i \in 1..Len(replies) : i > Len(r) => replies[i] = last
  BY <1>6, <1>8, <1>9 DEF EndsWith
<1>11. ack \in Replies /\ Opening(ack, c0) /\ ~Closing(ack, c0) /\ ack.exchange_order_id = o.id
       /\ ack.quantity = q /\ ack.kind = "OrderAcknowledged" /\ Names(ack) = {c0}
  BY <1>1, <1>5 DEF Replies, Acks, Opening, Closing, Names, ChildEvents
<1>12. /\ last.kind = "CancelAcknowledged" /\ last.client = c0 /\ Names(last) = {c0}
       /\ Closing(last, c0)
  BY DEF Closing, Names, ChildEvents
<1> HIDE DEF ack, last, X
<1>13. PICK t : Processing(task, t, replies, failures) /\ ClockSound' /\ NumbersSound'
  <2>1. outcome.failures = <<>> \/ \E s : outcome.failures = <<s>>
    OBVIOUS
  <2> QED BY <1>4, <1>10, <2>1, OutcomeViews
<1>14. OpensWith(task, t, replies, c0, q, o, sizes, r, ack)
  BY <1>1, <1>3, <1>8, <1>10, <1>11 DEF OpensWith
<1> HIDE DEF replies, failures, full
<1>15. OpenedAs(c0, q, o, sizes, full, TaskEvents(t, Len(r)))
  BY <1>2, <1>13, <1>14, OpenedTraded DEF full
<1>16. /\ Len(r) = n + 1 /\ r[1] = ack
       /\ \A i \in 1..Len(r) : i # 1 => r[i] \in FillEvents /\ r[i].client = c0
  BY <1>2, <1>14, OpenedFills DEF n
<1>17. ASSUME NEW i \in 1..Len(replies)
       PROVE  /\ Names(replies[i]) = {c0}
              /\ \/ replies[i] = ack /\ i = 1
                 \/ replies[i] \in FillEvents
                 \/ replies[i] = last
  <2>1. CASE i \in 1..Len(r) /\ i # 1
    <3>1. replies[i] \in FillEvents /\ replies[i].client = c0
      BY <1>10, <1>16, <2>1
    <3>2. Names(replies[i]) = {c0}
      BY <3>1 DEF FillEvents, Names, ChildEvents
    <3> QED BY <3>1, <3>2
  <2>2. CASE i = 1
    BY <1>6, <1>10, <1>11, <1>16, <2>2
  <2>3. CASE i > Len(r)
    BY <1>10, <1>12, <2>3
  <2> QED BY <1>6, <1>16, <2>1, <2>2, <2>3
<1>18. About(Awaited, c0)' = TaskEvents(t, Len(replies))
  <2>1. Awaited' = Awaited \cup TaskEvents(t, Len(replies))
    BY <1>13 DEF Processing, TaskEvents
  <2>2. \A e \in TaskEvents(t, Len(replies)) : c0 \in Names(e.payload)
    <3>1. \A i \in 1..Len(replies) : t[i].event.payload = replies[i]
      BY <1>13 DEF Processing
    <3>2. \A i \in 1..Len(replies) : c0 \in Names(t[i].event.payload)
      BY <1>17, <3>1
    <3> QED BY <3>2 DEF TaskEvents
  <2> QED BY <1>3, <2>1, <2>2 DEF About
<1>19. /\ m \in Order /\ MatchOf(o, m, lots, rests) /\ full \in Order /\ MatchOf(o, full, lots, TRUE)
  <2>1. lots \in 0..o.leaves
    BY <1>5, <1>6
  <2>2. m \in Order /\ MatchOf(o, m, lots, rests)
    BY <1>5, <2>1, MatchedParts DEF lots
  <2> QED BY <1>15, <2>2 DEF OpenedAs, lots
<1>20. Tracks(c0, NewChild(q), m, TaskEvents(t, Len(replies)))
  <2>1. Tracks(c0, NewChild(q), full, TaskEvents(t, Len(r)))
    BY <1>15 DEF OpenedAs
  <2>2. CASE rests
    <3>1. m = full /\ replies = r
      BY <1>8, <2>2 DEF full
    <3> QED BY <2>1, <3>1
  <2>3. CASE ~rests /\ lots = o.quantity
    <3>1. m = full
      <4>1. o.leaves - lots = 0
        BY <1>5, <2>3
      <4>2. m.state = full.state /\ m.leaves = full.leaves
        BY <1>19, <4>1 DEF MatchOf
      <4> QED BY <1>19, <4>2, SameOrder DEF MatchOf
    <3>2. replies = r
      BY <1>8, <2>3
    <3> QED BY <2>1, <3>1, <3>2
  <2>4. CASE ~rests /\ lots # o.quantity
    <3>1. EndsWith(replies, r, last)
      BY <1>8, <2>4
    <3> DEFINE e == t[Len(r) + 1].event
               T == TaskEvents(t, Len(r))
    <3>2. Len(r) \in Nat /\ Len(replies) = Len(r) + 1 /\ Len(r) + 1 \in 1..Len(replies)
          /\ replies[Len(r) + 1] = last
      BY <1>6, <1>16, <3>1 DEF EndsWith
    <3>3. e.id \in Nat /\ e.payload = last
      BY <1>13, <3>2 DEF Processing
    <3>4. \A f \in T : f.id \in Nat /\ f.id < e.id
      <4>1. \A i \in 1..Len(r) : i \in 1..Len(replies) /\ i < Len(r) + 1
        BY <3>2
      <4> QED BY <1>13, <3>2, <4>1 DEF Processing, TaskEvents
    <3>5. TaskEvents(t, Len(replies)) = T \cup {e}
      <4>1. \A i \in 1..Len(replies) : i \in 1..Len(r) \/ i = Len(r) + 1
        BY <3>2
      <4>2. \A i \in 1..Len(r) : i \in 1..Len(replies)
        BY <3>2
      <4> QED BY <3>2, <4>1, <4>2 DEF TaskEvents
    <3>6. /\ NewChild(q) \in Child /\ o.cum = 0 /\ lots \in 0..o.leaves /\ lots # o.leaves
          /\ o.leaves \in Nat
      BY <1>5, <1>6, <1>15, <2>4 DEF OpenedAs
    <3>7. e.payload = [kind |-> "CancelAcknowledged", client |-> c0,
                       exchange_order_id |-> o.id, cum |-> lots]
      BY <3>3 DEF last
    <3>8. rests = FALSE /\ MatchOf(o, m, lots, FALSE)
      BY <1>19, <2>4
    <3> DEFINE k == NewChild(q)
    <3>9. Tracks(c0, k, full, T) /\ k \in Child
      BY <2>1, <3>6
    <3> HIDE DEF e, T, k
    <3>10. Tracks(c0, k, m, T \cup {e})
      BY <1>5, <1>19, <3>3, <3>4, <3>6, <3>7, <3>8, <3>9, TracksRemainder
    <3> QED BY <3>5, <3>10 DEF k
  <2> QED BY <2>2, <2>3, <2>4
<1>21. /\ ExchangeShape(exchange') /\ exchange'.orders = [exchange.orders EXCEPT ![c0] = m]
       /\ exchange'.next_execution_id = exchange.next_execution_id + n
  <2>1. exchange' = WithOrder(c0, m, sizes)
    BY DEF Outcome
  <2> QED BY <1>1, <1>2, <1>6, <1>19, <2>1, WithOrderFacts, WithOrderCounts DEF n
<1>22. /\ exchange'.orders[c0] = m /\ state' = state
       /\ \A c \in ClientIds \ X : exchange'.orders[c] = exchange.orders[c]
  BY <1>1, <1>2, <1>13, <1>21 DEF X, ExchangeShape, Processing
<1>23. ChildSound(c0)' /\ EndFits(c0)'
  <2>1. Has(c0)'
    BY <1>1, <1>2, <1>19, <1>21, OrderChanged
  <2>2. state'.children[c0] = NewChild(q) /\ NewChild(q).requested = q
        /\ NewChild(q).exchange_order_id = NoExchangeId
    BY <1>3, <1>22 DEF NewChild
  <2>3. ChildSound(c0)'
    BY <1>3, <1>18, <1>20, <1>22, <2>1, <2>2 DEF ChildSound
  <2>4. \A e \in About(Awaited, c0)' : e.available = task.timing.available
    BY <1>13, <1>18 DEF TaskEvents, Processing
  <2>5. EndFits(c0)'
    BY <2>2, <2>4 DEF EndFits
  <2> QED BY <2>3, <2>5
<1>24. \A u \in Sent \ {task} : Names(u.event.payload) \cap X = {} \/ CommandSound(u)'
  BY <1>3 DEF SentAbout, X
<1>25. \A i \in Failed : kernel.failures[i].command.client \notin X \/ FailureFits(i)'
  BY <1>2, <1>3, NotFailed DEF X
<1>26. \A i \in Failed' \ Failed : FailureFits(i)'
  <2>1. failures = <<>>
    BY DEF failures
  <2>2. Failed' = Failed
    BY <1>13, <2>1 DEF Processing
  <2> QED BY <2>2
<1>27. Executes(replies)
  <2>1. \A i \in 1..Len(replies) : i > Len(r) => replies[i].kind # "Fill"
    BY <1>10, <1>12 DEF replies
  <2>2. ack.kind # "Fill" /\ Len(replies) \in Nat
    BY <1>10, <1>11 DEF replies
  <2> QED BY <1>2, <1>14, <1>21, <2>1, <2>2, OpenedExecutes DEF n
<1>28. \A i \in 1..Len(replies) : Names(replies[i]) \subseteq X /\ replies[i].kind # "TerminalCompletion"
  BY <1>11, <1>12, <1>17 DEF X, FillEvents
<1>29. \A c \in X \cap ClientIds : (Knows(c)' => ChildSound(c)') /\ EndFits(c)'
  BY <1>23 DEF X
<1>30. Names(task.event.payload) \subseteq X
  BY <1>1 DEF X
<1>31. Over => Live' \subseteq Live /\ Len(replies) = 0
  BY <1>4
<1> QED BY <1>13, <1>22, <1>24, <1>25, <1>26, <1>27, <1>28, <1>29, <1>30, <1>31, ProcessedSound

\* A submit is processed.
LEMMA SubmitStep ==
  ASSUME JInv, IInv, FixedReplies, NEW task, NEW p \in Submits, p = task.event.payload,
         NEW outcome \in SubmitOutcomes(p), Outcome(task, outcome)
  PROVE  JInv'
<1> DEFINE o == NewExchangeOrder(p.quantity)
           rests == p.tif = "GTC"
           ack == [kind |-> "OrderRejected", client |-> p.client]
<1>1. \/ outcome = Refused(<<ack>>, NoState)
      \/ \E sizes \in MatchSizes(p.quantity) :
           outcome = [exchange |-> WithOrder(p.client, Matched(o, sizes, rests), sizes),
                      replies |-> SubmitReplies(p.client, o, sizes, rests),
                      failures |-> <<>>]
  BY Zenon DEF SubmitOutcomes
<1>2. CASE outcome = Refused(<<ack>>, NoState)
  BY <1>2, SubmitRefused
<1>3. ASSUME NEW sizes \in MatchSizes(p.quantity),
             outcome = [exchange |-> WithOrder(p.client, Matched(o, sizes, rests), sizes),
                        replies |-> SubmitReplies(p.client, o, sizes, rests),
                        failures |-> <<>>]
      PROVE  JInv'
  <2>1. rests \in BOOLEAN
    OBVIOUS
  <2> DEFINE m == Matched(o, sizes, rests)
  <2>2. outcome.exchange = WithOrder(p.client, m, sizes)
        /\ outcome.replies = SubmitReplies(p.client, o, sizes, rests) /\ outcome.failures = <<>>
    <3>1. \A a, b, c, x : x = [exchange |-> a, replies |-> b, failures |-> c]
            => x.exchange = a /\ x.replies = b /\ x.failures = c
      OBVIOUS
    <3> QED BY <1>3, <3>1, Zenon
  <2>3. o = NewExchangeOrder(p.quantity) /\ m = Matched(o, sizes, rests)
    OBVIOUS
  <2> HIDE DEF o, rests, m
  <2> QED BY <2>1, <2>2, <2>3, SubmitTraded
<1> QED BY <1>1, <1>2, <1>3, Zenon

\* A cancel or a replacement is the only message about its order but events.
LEMMA TargetFacts ==
  ASSUME JInv, IInv, NEW task \in Sent, NEW p \in Cancels \cup Replaces, p = task.event.payload,
         NEW c, c = p.client
  PROVE  /\ c \in ClientIds /\ Has(c) /\ Knows(c) /\ SentAbout(c) = {task} /\ FailedAbout(c) = {}
         /\ p.exchange_order_id = state.children[c].exchange_order_id
         /\ state.children[c].exchange_order_id # NoExchangeId
         /\ exchange.orders[c].state \notin Closed /\ exchange.orders[c] \in Order
         /\ ChildSound(c) /\ EndFits(c) /\ Asked(c) /\ state.children[c] \in Child
         /\ p.kind = "Cancel" => state.children[c].cancel_pending
         /\ p.kind = "Replace" => state.children[c].replace_pending
         /\ p.kind \in {"Cancel", "Replace"} /\ task.event.payload.kind = p.kind
<1>1. p.kind \in {"Cancel", "Replace"} /\ c \in ClientIds
  BY DEF Cancels, Replaces
<1>2. CommandSound(task) /\ Shapes
  BY DEF JInv, CommandsSound, IInv
<1>3. /\ Targets(task, c)
      /\ p.kind = "Cancel" => state.children[c].cancel_pending
      /\ p.kind = "Replace" => state.children[c].replace_pending
  BY <1>1, <1>2 DEF CommandSound
<1>4. Has(c)
  BY <1>1 DEF IInv, TargetsAccepted
<1>5. exchange.orders[c] \in Order
  BY <1>2, <1>4 DEF Has, Shapes, ExchangeShape
<1>6. Knows(c) /\ state.children[c] \in Child
  BY <1>1, <1>2, <1>3 DEF Targets, Shapes, StateShape, Knows, knows_client_order_id
<1>7. ChildSound(c) /\ EndFits(c)
  BY <1>1, <1>6, EndsFit DEF JInv, ChildrenSound
<1> QED BY <1>1, <1>3, <1>4, <1>5, <1>6, <1>7 DEF Targets, Asked

\* A cancel or a replacement is refused.
LEMMA RefusedStep ==
  ASSUME JInv, IInv, FixedReplies, NEW task, NEW p \in Cancels \cup Replaces,
         p = task.event.payload, NEW s, s # NoState => s = exchange.orders[p.client].state,
         NEW outcome, Outcome(task, outcome), outcome = Refused(<<>>, s)
  PROVE  JInv'
<1> DEFINE c0 == p.client
           X == Names(p)
           replies == outcome.replies
           failures == outcome.failures
<1>1. p.kind \in {"Cancel", "Replace"} /\ X = {c0} \cup Opens(p)
  BY DEF Cancels, Replaces, Names, Opens
<1>2. Shapes /\ task \in Sent /\ ExchangeShape(exchange)
  BY DEF IInv, Shapes, Outcome, Processable, Sent, IsCommand
<1>3. /\ c0 \in ClientIds /\ Has(c0) /\ Knows(c0) /\ SentAbout(c0) = {task} /\ FailedAbout(c0) = {}
      /\ exchange.orders[c0].state \notin Closed /\ ChildSound(c0) /\ EndFits(c0)
      /\ p.kind = "Cancel" => state.children[c0].cancel_pending
      /\ p.kind = "Replace" => state.children[c0].replace_pending
  BY <1>2, TargetFacts
<1>4. \A c \in Opens(p) :
        /\ c \in ClientIds /\ ~Has(c) /\ Knows(c) /\ About(Awaited, c) = {}
        /\ SentAbout(c) = {task} /\ FailedAbout(c) = {}
        /\ p.quantity \in 1..ParentQuantity /\ state.children[c] = NewChild(p.quantity)
  BY <1>2, OpeningQuiet
<1>5. Idle /\ ~Over
  BY <1>1, <1>2, OwnIdle
<1>6. /\ outcome.exchange = exchange /\ replies = <<>> /\ failures = <<s>> /\ Len(replies) = 0
  BY DEF Refused
<1>7. PICK t : Processing(task, t, replies, failures) /\ ClockSound' /\ NumbersSound'
  <2>1. Len(outcome.replies) \in Nat /\ (outcome.failures = <<>> \/ \E x : outcome.failures = <<x>>)
    BY <1>6
  <2> QED BY <1>5, <2>1, OutcomeViews
<1>8. exchange' = exchange /\ state' = state /\ clock' = clock
  BY <1>6, <1>7 DEF Outcome, Processing
<1>9. Awaited' = Awaited /\ Sent' = Sent \ {task} /\ task.timing.available \in Int
  <2>1. {t[i].event : i \in 1..Len(replies)} = {}
    BY <1>6
  <2> QED BY <1>7, <2>1 DEF Processing
<1>10. PICK n : /\ n \notin Failed /\ Failed' = Failed \cup {n}
                /\ kernel'.failures[n] = FailureOf(task, s)
  <2>1. failures # <<>> /\ \A x : failures = <<x>> => x = s
    BY <1>6
  <2> QED BY <1>7, <2>1 DEF Processing
<1>11. \A i \in Failed : kernel'.failures[i] = kernel.failures[i]
  BY <1>7 DEF Processing
<1> HIDE DEF X, replies, failures
<1>12. \A c \in X : SentAbout(c)' = {} /\ FailedAbout(c)' = {n}
  <2>1. \A c \in X : SentAbout(c) = {task} /\ FailedAbout(c) = {}
    BY <1>1, <1>3, <1>4
  <2>2. \A c \in X : SentAbout(c)' = {}
    BY <1>9, <2>1 DEF SentAbout
  <2>3. kernel'.failures[n].command = p
    BY <1>10 DEF FailureOf
  <2>4. \A c \in X : FailedAbout(c)' = {n}
    BY <1>10, <1>11, <2>1, <2>3 DEF FailedAbout, X
  <2> QED BY <2>2, <2>4
<1>13. ChildSound(c0)' /\ EndFits(c0)'
  <2>1. About(Awaited, c0)' = About(Awaited, c0) /\ Has(c0)'
    BY <1>3, <1>8, <1>9 DEF About, Has
  <2>2. /\ state.children[c0].requested \in 1..ParentQuantity
        /\ Tracks(c0, state.children[c0], exchange.orders[c0], About(Awaited, c0))
    BY <1>3 DEF ChildSound
  <2>3. ChildSound(c0)'
    BY <1>8, <2>1, <2>2 DEF ChildSound
  <2>4. EndFits(c0)'
    BY <1>3, <1>8, <2>1 DEF EndFits, Asked
  <2> QED BY <2>3, <2>4
<1>14. \A c \in Opens(p) : ChildSound(c)' /\ EndFits(c)'
  <2> SUFFICES ASSUME NEW c \in Opens(p) PROVE ChildSound(c)' /\ EndFits(c)'
    OBVIOUS
  <2>1. About(Awaited, c)' = {} /\ ~Has(c)'
    BY <1>4, <1>8, <1>9 DEF About, Has
  <2>2. ChildSound(c)
    BY <1>4 DEF JInv, ChildrenSound
  <2>3. FailedAbout(c)' # {}
    BY <1>1, <1>12
  <2> QED BY <1>4, <1>8, <2>1, <2>2, <2>3 DEF ChildSound, EndFits
<1>15. FailureFits(n)'
  <2> DEFINE g == kernel'.failures[n]
  <2>1. g.command = p /\ g.available = task.timing.available /\ g.current_state = s
    BY <1>10 DEF FailureOf
  <2>2. \A e \in About(Awaited, c0)' : e.available <= task.timing.available
    <3>1. About(Awaited, c0)' = About(Awaited, c0)
      BY <1>9 DEF About
    <3>2. \A e \in About(Awaited, c0) : e \in Awaited /\ e.payload.kind # "TerminalCompletion"
      BY <1>2, AboutTold DEF Replies, Acks, Rejections, CancelAcks, FillEvents, ReplaceAcks
    <3> QED BY <1>7, <3>1, <3>2 DEF Processing
  <2>3. Knows(c0)' /\ SentAbout(c0)' = {} /\ FailedAbout(c0)' = {n}
    BY <1>1, <1>3, <1>8, <1>12 DEF Knows
  <2> HIDE DEF g
  <2> QED BY <1>3, <1>8, <1>9, <2>1, <2>2, <2>3 DEF FailureFits, g
<1>16. \A u \in Sent \ {task} : Names(u.event.payload) \cap X = {} \/ CommandSound(u)'
  <2>1. \A c \in X : SentAbout(c) = {task}
    BY <1>1, <1>3, <1>4
  <2> QED BY <2>1 DEF SentAbout
<1>17. \A i \in Failed : kernel.failures[i].command.client \notin X \/ FailureFits(i)'
  <2>1. \A c \in X : FailedAbout(c) = {}
    BY <1>1, <1>3, <1>4
  <2> QED BY <1>2, <2>1, NotFailed
<1>18. \A i \in Failed' \ Failed : FailureFits(i)'
  BY <1>10, <1>15
<1>19. Executes(replies)
  <2>1. exchange.next_execution_id \in Nat /\ exchange'.next_execution_id = exchange.next_execution_id + 0
    BY <1>2, <1>8 DEF ExchangeShape
  <2>2. \A i \in 1..Len(replies) : replies[i].kind # "Fill"
    BY <1>6 DEF replies
  <2>3. 0 \in Nat /\ Len(replies) \in Nat
    BY <1>6 DEF replies
  <2> QED BY <2>1, <2>2, <2>3, ExecutesFills
<1>20. \A i \in 1..Len(replies) : Names(replies[i]) \subseteq X /\ replies[i].kind # "TerminalCompletion"
  BY <1>6 DEF replies
<1>21. \A c \in X \cap ClientIds : (Knows(c)' => ChildSound(c)') /\ EndFits(c)'
  BY <1>1, <1>13, <1>14
<1>22. Names(task.event.payload) \subseteq X
  BY DEF X
<1>23. (Over => Live' \subseteq Live /\ Len(replies) = 0)
       /\ \A c \in ClientIds \ X : exchange'.orders[c] = exchange.orders[c]
  BY <1>5, <1>8
<1> QED BY <1>7, <1>16, <1>17, <1>18, <1>19, <1>20, <1>21, <1>22, <1>23, ProcessedSound

\* What is left of an order that is ended.
LEMMA EndedParts ==
  ASSUME ExchangeShape(exchange), NEW c \in ClientIds, Has(c), NEW ending \in Terminals,
         NEW o, o = exchange.orders[c], NEW m, m = Ended(c, ending).orders[c]
  PROVE  /\ m \in Order /\ m.id = o.id /\ m.quantity = o.quantity /\ m.cum = o.cum
         /\ m.leaves = 0 /\ m.state = ending
<1>1. o \in Order /\ c \in DOMAIN exchange.orders
  BY DEF Has, ExchangeShape
<1>2. m = [o EXCEPT !.leaves = 0, !.state = ending]
  <2> DEFINE n == [o EXCEPT !.leaves = 0, !.state = ending]
             orders == [exchange.orders EXCEPT ![c] = n]
  <2>1. Ended(c, ending) = [exchange EXCEPT !.orders = orders]
    BY <1>1 DEF Ended, ExchangeShape
  <2>2. orders[c] = n
    BY <1>1
  <2> HIDE DEF orders, n
  <2>3. Ended(c, ending).orders = orders
    BY <2>1 DEF ExchangeShape
  <2> QED BY <2>2, <2>3 DEF n
<1>3. /\ o = [id |-> o.id, quantity |-> o.quantity, cum |-> o.cum, leaves |-> o.leaves,
              state |-> o.state]
      /\ o.id \in Nat /\ o.quantity \in Nat /\ o.cum \in Nat
  BY <1>1 DEF Order
<1>4. m = [id |-> o.id, quantity |-> o.quantity, cum |-> o.cum, leaves |-> 0, state |-> ending]
  BY <1>2, <1>3
<1> QED BY <1>3, <1>4 DEF Order

\* The events about a client once one more has been caused.
LEMMA OneTold ==
  ASSUME NEW task, NEW t, NEW replies, NEW failures, Processing(task, t, replies, failures),
         Len(replies) = 1, NEW c, c \in Names(replies[1]), NEW e, e = t[1].event
  PROVE  /\ About(Awaited, c)' = About(Awaited, c) \cup {e} /\ e.payload = replies[1]
         /\ e.id \in Nat /\ \A f \in About(Awaited, c) : f.id \in Nat /\ f.id < e.id
<1>1. 1 \in 1..Len(replies) /\ \A i \in 1..Len(replies) : i = 1
  OBVIOUS
<1>2. e.payload = replies[1] /\ e.id \in Nat /\ \A f \in Awaited : f.id \in Nat /\ f.id < e.id
  BY <1>1 DEF Processing
<1>3. {t[i].event : i \in 1..Len(replies)} = {e}
  BY <1>1
<1>4. Awaited' = Awaited \cup {e}
  BY <1>3 DEF Processing
<1> QED BY <1>2, <1>4 DEF About

\* A cancel ends its order.
LEMMA CancelEnded ==
  ASSUME JInv, IInv, FixedReplies, NEW task, NEW p \in Cancels, p = task.event.payload,
         NEW outcome, Outcome(task, outcome), p.client \in Live,
         NEW r, r = [kind |-> "CancelAcknowledged", client |-> p.client,
                     exchange_order_id |-> p.exchange_order_id,
                     cum |-> exchange.orders[p.client].cum],
         outcome.exchange = Ended(p.client, "Cancelled"), outcome.replies = <<r>>,
         outcome.failures = <<>>
  PROVE  JInv'
<1> DEFINE c0 == p.client
           X == {c0}
           o == exchange.orders[c0]
           m == exchange'.orders[c0]
           k == state.children[c0]
           T == About(Awaited, c0)
           replies == outcome.replies
           failures == outcome.failures
<1>1. p.kind = "Cancel" /\ Names(p) = X /\ p \in Cancels \cup Replaces
  BY DEF Cancels, Names, Opens
<1>2. Shapes /\ task \in Sent /\ ExchangeShape(exchange)
  BY DEF IInv, Shapes, Outcome, Processable, Sent, IsCommand
<1>3. /\ c0 \in ClientIds /\ Has(c0) /\ Knows(c0) /\ SentAbout(c0) = {task} /\ FailedAbout(c0) = {}
      /\ p.exchange_order_id = k.exchange_order_id /\ k.exchange_order_id # NoExchangeId
      /\ o \in Order /\ ChildSound(c0) /\ Asked(c0)
  BY <1>1, <1>2, TargetFacts
<1>4. Idle /\ ~Over
  BY <1>1, <1>2, OwnIdle
<1>5. Len(replies) = 1 /\ replies[1] = r /\ failures = <<>>
  OBVIOUS
<1>6. PICK t : Processing(task, t, replies, failures) /\ ClockSound' /\ NumbersSound'
  <2>1. Len(outcome.replies) \in Nat /\ (outcome.failures = <<>> \/ \E x : outcome.failures = <<x>>)
    BY <1>5
  <2> QED BY <1>4, <2>1, OutcomeViews
<1>7. state' = state /\ clock' = clock /\ exchange' = Ended(c0, "Cancelled") /\ Failed' = Failed
  <2>1. exchange' = Ended(c0, "Cancelled")
    BY DEF Outcome
  <2> HIDE DEF replies, failures
  <2>2. \A s : failures # <<s>>
    BY <1>5
  <2> QED BY <1>6, <2>1, <2>2 DEF Processing
<1>8. /\ m \in Order /\ m.id = o.id /\ m.quantity = o.quantity /\ m.cum = o.cum
      /\ m.leaves = 0 /\ m.state = "Cancelled"
      /\ ExchangeShape(exchange') /\ exchange'.orders = [exchange.orders EXCEPT ![c0] = m]
  <2>1. "Cancelled" \in Terminals
    BY DEF Terminals
  <2>2. c0 \in ClientIds /\ Has(c0) /\ ExchangeShape(exchange)
    BY <1>2, <1>3
  <2>3. o = exchange.orders[c0] /\ m = exchange'.orders[c0]
    OBVIOUS
  <2>4. PICK x : x = exchange'
    OBVIOUS
  <2>5. x = Ended(c0, "Cancelled") /\ m = x.orders[c0]
    BY <1>7, <2>3, <2>4
  <2> HIDE DEF X, o, m, k, T, replies, failures, c0
  <2>6. /\ m \in Order /\ m.id = o.id /\ m.quantity = o.quantity /\ m.cum = o.cum
        /\ m.leaves = 0 /\ m.state = "Cancelled"
    BY <2>1, <2>2, <2>3, <2>5, EndedParts
  <2>7. ExchangeShape(x) /\ x.orders = [exchange.orders EXCEPT ![c0] = m]
    BY <2>1, <2>2, <2>5, EndedFacts
  <2> QED BY <2>4, <2>6, <2>7
<1>11. /\ state.children[c0].requested \in 1..ParentQuantity
       /\ Tracks(c0, state.children[c0], exchange.orders[c0], About(Awaited, c0))
  <2>1. ChildSound(c0) /\ Has(c0)
    BY <1>3
  <2> HIDE DEF X, m, o, replies, failures, k, T, c0
  <2> QED BY <2>1 DEF ChildSound
<1> DEFINE e == t[1].event
<1>9. r.kind = "CancelAcknowledged" /\ r.client = c0 /\ Names(r) = X
      /\ r.exchange_order_id = p.exchange_order_id /\ r.cum = o.cum
  BY DEF Names, ChildEvents
<1> HIDE DEF X, m, o, replies, failures, k, T
<1>10. /\ About(Awaited, c0)' = T \cup {e} /\ e.payload = r /\ e.id \in Nat
       /\ \A f \in T : f.id \in Nat /\ f.id < e.id
  <2>1. e = t[1].event /\ Len(replies) = 1 /\ c0 \in Names(replies[1])
    BY <1>5, <1>9 DEF X
  <2> HIDE DEF e
  <2> QED BY <1>5, <1>6, <2>1, OneTold DEF T
<1> HIDE DEF e
<1>12. k.exchange_order_id = o.id /\ Tracks(c0, k, o, T)
  <2>1. Tracks(c0, k, o, T)
    BY <1>11 DEF k, o, T
  <2> QED BY <1>3, <2>1, TracksKnown
<1>13. o.state \in Open
  BY DEF Live, Open, o
<1>14. Tracks(c0, k, m, T \cup {e})
  <2>1. Closing(e.payload, c0) /\ ~Opening(e.payload, c0)
    BY <1>9, <1>10 DEF Closing, Opening
  <2>2. /\ e.payload.kind = "CancelAcknowledged" /\ m.state = "Cancelled"
        /\ e.payload.exchange_order_id = o.id /\ e.payload.cum = o.cum
    BY <1>3, <1>8, <1>9, <1>10, <1>12
  <2> QED BY <1>8, <1>10, <1>12, <1>13, <2>1, <2>2, TracksClosed
<1>15. ChildSound(c0)' /\ EndFits(c0)'
  <2>1. Has(c0)'
    BY <1>2, <1>3, <1>8, OrderChanged
  <2>2. ChildSound(c0)'
    <3>1. Tracks(c0, state'.children[c0], exchange'.orders[c0], About(Awaited, c0)')
      BY <1>7, <1>10, <1>14 DEF k, m
    <3>2. state'.children[c0].requested \in 1..ParentQuantity
      BY <1>7, <1>11
    <3> QED BY <2>1, <3>1, <3>2 DEF ChildSound
  <2>3. Asked(c0)'
    BY <1>3, <1>7 DEF Asked
  <2> QED BY <2>2, <2>3 DEF EndFits
<1>16. \A u \in Sent \ {task} : Names(u.event.payload) \cap X = {} \/ CommandSound(u)'
  BY <1>3 DEF SentAbout, X
<1>17. \A i \in Failed : kernel.failures[i].command.client \notin X \/ FailureFits(i)'
  BY <1>2, <1>3, NotFailed DEF X
<1>18. \A i \in Failed' \ Failed : FailureFits(i)'
  BY <1>7
<1>19. Executes(replies)
  <2>1. exchange'.next_execution_id = exchange.next_execution_id
    BY <1>2, <1>7 DEF Ended, ExchangeShape
  <2>2. exchange.next_execution_id \in Nat /\ exchange'.next_execution_id = exchange.next_execution_id + 0
    BY <1>2, <2>1 DEF ExchangeShape
  <2>3. \A i \in 1..Len(replies) : replies[i].kind # "Fill"
    BY <1>5, <1>9
  <2>4. 0 \in Nat /\ Len(replies) \in Nat
    BY <1>5
  <2> QED BY <2>2, <2>3, <2>4, ExecutesFills
<1>20. \A i \in 1..Len(replies) : Names(replies[i]) \subseteq X /\ replies[i].kind # "TerminalCompletion"
  BY <1>5, <1>9
<1>21. \A c \in X \cap ClientIds : (Knows(c)' => ChildSound(c)') /\ EndFits(c)'
  BY <1>15 DEF X
<1>22. Names(task.event.payload) \subseteq X
  BY <1>1
<1>23. (Over => Live' \subseteq Live /\ Len(replies) = 0)
       /\ \A c \in ClientIds \ X : exchange'.orders[c] = exchange.orders[c]
  BY <1>2, <1>4, <1>8 DEF ExchangeShape, X
<1> QED BY <1>6, <1>16, <1>17, <1>18, <1>19, <1>20, <1>21, <1>22, <1>23, ProcessedSound

\* A cancel is processed.
LEMMA CancelStep ==
  ASSUME JInv, IInv, FixedReplies, NEW task, NEW p \in Cancels, p = task.event.payload,
         NEW outcome \in CancelOutcomes(p), Outcome(task, outcome)
  PROVE  JInv'
<1> DEFINE c0 == p.client
           s == exchange.orders[c0].state
           r == [kind |-> "CancelAcknowledged", client |-> c0,
                 exchange_order_id |-> p.exchange_order_id, cum |-> exchange.orders[c0].cum]
<1>1. CASE c0 \notin Live
  <2>1. outcome = Refused(<<>>, s)
    <3>1. CancelOutcomes(p) = {Refused(<<>>, s)}
      BY <1>1, Zenon DEF CancelOutcomes
    <3> QED BY <3>1, Zenon
  <2>2. p \in Cancels \cup Replaces
    OBVIOUS
  <2> QED BY <2>1, <2>2, RefusedStep
<1>2. CASE c0 \in Live
  <2>1. /\ outcome.exchange = Ended(c0, "Cancelled") /\ outcome.replies = <<r>>
        /\ outcome.failures = <<>>
    BY <1>2 DEF CancelOutcomes
  <2> QED BY <1>2, <2>1, CancelEnded
<1> QED BY <1>1, <1>2

\* What an accepted replacement answers with, and how it leaves the exchange.
AckOf(p, o) ==
  [kind |-> "ReplaceAcknowledged", client |-> p.client, new_client |-> p.new_client,
   exchange_order_id |-> o.id, quantity |-> p.quantity]
EndedOf(c) == Ended(c, "Replaced").orders[c]
ReplacedAt(c0, c1, m, sizes) == [WithOrder(c1, m, sizes) EXCEPT !.orders[c0] = EndedOf(c0)]
Replacing(p, outcome, o, sizes, m, ack) ==
  /\ o = NewExchangeOrder(p.quantity) /\ m = Matched(o, sizes, TRUE) /\ ack = AckOf(p, o)
  /\ outcome.exchange = ReplacedAt(p.client, p.new_client, m, sizes)
  /\ outcome.replies = <<ack>> \o Fills(p.new_client, o, sizes) /\ outcome.failures = <<>>

\* The exchange once a replacement has ended its order and traded.
LEMMA ReplacedExchange ==
  ASSUME ExchangeShape(exchange), NEW c0 \in ClientIds, Has(c0), NEW c1 \in ClientIds, c0 # c1,
         NEW m \in Order, NEW sizes, Len(sizes) \in Nat,
         NEW ended, ended = EndedOf(c0), NEW x, x = ReplacedAt(c0, c1, m, sizes)
  PROVE  /\ ExchangeShape(x) /\ x.orders[c0] = ended /\ x.orders[c1] = m
         /\ \A c \in ClientIds \ {c0, c1} : x.orders[c] = exchange.orders[c]
         /\ x.next_execution_id = exchange.next_execution_id + Len(sizes)
<1> DEFINE y == WithOrder(c1, m, sizes)
           orders == [y.orders EXCEPT ![c0] = ended]
<1>1. /\ ExchangeShape(y) /\ y.orders = [exchange.orders EXCEPT ![c1] = m]
      /\ y.next_execution_id = exchange.next_execution_id + Len(sizes)
  BY WithOrderFacts, WithOrderCounts
<1>2. ended \in Order
  BY EndedOrder DEF EndedOf
<1>3. x = [y EXCEPT !.orders[c0] = ended]
  BY Zenon DEF ReplacedAt
<1> HIDE DEF y
<1>4. /\ orders \in [ClientIds -> Order \cup {NoOrder}] /\ orders[c0] = ended
      /\ orders[c1] = m /\ \A c \in ClientIds \ {c0, c1} : orders[c] = exchange.orders[c]
  BY <1>1, <1>2 DEF ExchangeShape
<1> HIDE DEF orders
<1>5. x = [y EXCEPT !.orders = orders]
  BY <1>1, <1>3 DEF ExchangeShape, orders
<1>6. x.orders = orders /\ x.next_execution_id = y.next_execution_id
  BY <1>1, <1>5 DEF ExchangeShape
<1>7. ExchangeShape(x)
  BY <1>1, <1>4, <1>5 DEF ExchangeShape
<1> QED BY <1>1, <1>4, <1>6, <1>7

\* A replacement is accepted: its order ends, and another is opened.
LEMMA ReplaceTraded ==
  ASSUME JInv, IInv, FixedReplies, NEW task, NEW p \in Replaces, p = task.event.payload,
         NEW outcome, Outcome(task, outcome), p.client \in Live,
         NEW sizes \in MatchSizes(p.quantity), NEW o, NEW m, NEW ack,
         Replacing(p, outcome, o, sizes, m, ack)
  PROVE  JInv'
<1> DEFINE c0 == p.client
           c1 == p.new_client
           X == {c0, c1}
           q == p.quantity
           n == Len(sizes)
           old == exchange.orders[c0]
           ended == EndedOf(c0)
           k == state.children[c0]
           T == About(Awaited, c0)
           replies == outcome.replies
           failures == outcome.failures
<1>1. /\ p.kind = "Replace" /\ Names(p) = X /\ Opens(p) = {c1} /\ p \in Cancels \cup Replaces
      /\ c0 \in ClientIds /\ c1 \in ClientIds
  BY DEF Replaces, Names, Opens
<1>0. p \in Cancels \cup Replaces
  OBVIOUS
<1>2. Shapes /\ task \in Sent /\ ExchangeShape(exchange)
  BY DEF IInv, Shapes, Outcome, Processable, Sent, IsCommand
<1>3. /\ Has(c0) /\ Knows(c0) /\ SentAbout(c0) = {task} /\ FailedAbout(c0) = {}
      /\ p.exchange_order_id = k.exchange_order_id /\ k.exchange_order_id # NoExchangeId
      /\ old \in Order /\ ChildSound(c0) /\ Asked(c0)
  <2>1. Has(c0) /\ Knows(c0) /\ ChildSound(c0) /\ Asked(c0)
    BY <1>0, <1>2, TargetFacts
  <2>2. SentAbout(c0) = {task}
    BY <1>0, <1>2, TargetFacts
  <2>3. FailedAbout(c0) = {}
    BY <1>0, <1>2, TargetFacts
  <2>4. p.exchange_order_id = k.exchange_order_id /\ k.exchange_order_id # NoExchangeId
    BY <1>0, <1>2, TargetFacts
  <2>5. old \in Order
    BY <1>0, <1>2, TargetFacts
  <2> QED BY <2>1, <2>2, <2>3, <2>4, <2>5
<1>4. /\ ~Has(c1) /\ Knows(c1) /\ About(Awaited, c1) = {}
      /\ SentAbout(c1) = {task} /\ FailedAbout(c1) = {}
      /\ q \in 1..ParentQuantity /\ state.children[c1] = NewChild(q)
  BY <1>1, <1>2, OpeningQuiet
<1>5. Idle /\ ~Over /\ c0 # c1
  BY <1>1, <1>2, <1>3, <1>4, OwnIdle
<1>50. /\ o = NewExchangeOrder(q) /\ m = Matched(o, sizes, TRUE) /\ ack = AckOf(p, o)
       /\ outcome.exchange = ReplacedAt(c0, c1, m, sizes) /\ failures = <<>>
  BY Zenon DEF Replacing
<1>6. q \in Nat /\ o \in Order /\ o.quantity = q /\ o.leaves = q /\ o.id \in Nat
  <2>1. q \in Nat
    BY <1>4, StateAssumption
  <2>2. o \in Order /\ o.quantity = q /\ o.leaves = q
    BY <1>2, <1>50, <2>1, NewOrderFacts
  <2> QED BY <2>1, <2>2 DEF Order
<1>7. /\ n \in Nat /\ Leads(replies, ack, Fills(c1, o, sizes)) /\ Len(replies) \in Nat
  <2>1. sizes \in MatchSizes(o.leaves) /\ exchange.next_execution_id \in Nat
    BY <1>2, <1>6 DEF ExchangeShape
  <2> DEFINE fills == Fills(c1, o, sizes)
  <2>2. PICK S : fills \in Seq(S)
    BY <1>1, <1>6, <2>1, FillsListed
  <2>3. replies = <<ack>> \o fills
    BY Zenon DEF Replacing
  <2> HIDE DEF fills, replies
  <2>4. Leads(replies, ack, fills)
    BY <2>2, <2>3, AckThenFills
  <2>5. n \in Nat
    BY <1>6, MatchFacts
  <2> QED BY <2>4, <2>5 DEF fills, Leads
<1>8. /\ ack \in Replies /\ Opening(ack, c1) /\ ~Closing(ack, c1) /\ ack.exchange_order_id = o.id
      /\ ack.quantity = q /\ ack.kind = "ReplaceAcknowledged" /\ Names(ack) = X
      /\ Closing(ack, c0) /\ ~Opening(ack, c0)
  <2>1. /\ ack.kind = "ReplaceAcknowledged" /\ ack.client = c0 /\ ack.new_client = c1
        /\ ack.exchange_order_id = o.id /\ ack.quantity = q
    BY <1>50 DEF AckOf
  <2>2. ack \in Replies
    BY <1>1, <1>6, <1>50 DEF AckOf, Replies, ReplaceAcks
  <2> QED BY <1>5, <2>1, <2>2 DEF Opening, Closing, Names
<1>9. state.children[c0].requested \in 1..ParentQuantity
      /\ Tracks(c0, state.children[c0], exchange.orders[c0], About(Awaited, c0))
  <2>1. ChildSound(c0) /\ Has(c0)
    BY <1>3
  <2> HIDE DEF X, n, old, replies, failures, k, T, c0, c1, q
  <2> QED BY <2>1 DEF ChildSound
<1>10. PICK t : Processing(task, t, replies, failures) /\ ClockSound' /\ NumbersSound'
  <2>1. Len(outcome.replies) \in Nat /\ (outcome.failures = <<>> \/ \E x : outcome.failures = <<x>>)
    BY <1>7, <1>50
  <2> QED BY <1>5, <2>1, OutcomeViews
<1>11. failures = <<>> /\ exchange' = ReplacedAt(c0, c1, m, sizes)
  BY <1>50 DEF Outcome
<1> HIDE DEF X, replies, failures, old, k, T, n, ended
<1>12. state' = state /\ clock' = clock /\ Failed' = Failed
  <2>1. \A s : failures # <<s>>
    BY <1>11
  <2> QED BY <1>10, <1>11, <2>1 DEF Processing
<1>13. OpensWith(task, t, replies, c1, q, o, sizes, replies, ack)
  BY <1>1, <1>4, <1>7, <1>8, <1>50 DEF OpensWith
<1>14. /\ Len(replies) = n + 1 /\ replies[1] = ack
       /\ \A i \in 1..Len(replies) : i # 1 => replies[i] \in FillEvents /\ replies[i].client = c1
  BY <1>2, <1>13, OpenedFills DEF n
<1>15. OpenedAs(c1, q, o, sizes, m, TaskEvents(t, Len(replies)))
  BY <1>2, <1>10, <1>13, <1>50, OpenedTraded
<1>16. /\ \A i \in 1..Len(replies) : t[i].event.payload = replies[i] /\ c1 \in Names(replies[i])
       /\ \A i \in 1..Len(replies) : i # 1 => Names(replies[i]) = {c1}
       /\ 1 \in 1..Len(replies)
  <2>1. 1 \in 1..Len(replies)
    BY <1>7, <1>14
  <2>2. \A i \in 1..Len(replies) : i # 1 => Names(replies[i]) = {c1}
    BY <1>14 DEF FillEvents, Names, ChildEvents
  <2>3. \A i \in 1..Len(replies) : c1 \in Names(replies[i])
    BY <1>8, <1>14, <2>2 DEF X
  <2>4. \A i \in 1..Len(replies) : t[i].event.payload = replies[i]
    BY <1>10 DEF Processing
  <2> QED BY <2>1, <2>2, <2>3, <2>4
<1> DEFINE e == t[1].event
           E == TaskEvents(t, Len(replies))
<1>17. /\ About(Awaited, c1)' = E /\ About(Awaited, c0)' = T \cup {e}
       /\ e.payload = ack /\ e.id \in Nat /\ \A f \in T : f.id \in Nat /\ f.id < e.id
  <2>1. Awaited' = Awaited \cup E
    BY <1>10 DEF Processing, TaskEvents
  <2>2. \A f \in E : c1 \in Names(f.payload) /\ (c0 \in Names(f.payload) => f = e)
    BY <1>5, <1>16 DEF TaskEvents
  <2>3. e \in E /\ e.payload = ack
    BY <1>14, <1>16 DEF TaskEvents
  <2>4. c0 \in Names(e.payload)
    BY <1>8, <2>3 DEF X
  <2>5. e.id \in Nat /\ \A f \in Awaited : f.id \in Nat /\ f.id < e.id
    BY <1>10, <1>16 DEF Processing
  <2> HIDE DEF e, E
  <2>6. About(Awaited, c1)' = E
    BY <1>4, <2>1, <2>2 DEF About
  <2>7. About(Awaited, c0)' = T \cup {e}
    BY <2>1, <2>2, <2>3, <2>4 DEF About, T
  <2> QED BY <2>3, <2>5, <2>6, <2>7 DEF About, T
<1> HIDE DEF e
<1>18. /\ ended \in Order /\ ended.id = old.id /\ ended.quantity = old.quantity
       /\ ended.cum = old.cum /\ ended.leaves = 0 /\ ended.state = "Replaced"
  <2>1. "Replaced" \in Terminals
    BY DEF Terminals
  <2> QED BY <1>1, <1>2, <1>3, <2>1, EndedParts DEF old, ended, EndedOf
<1>19. Tracks(c0, k, ended, T \cup {e})
  <2>1. Tracks(c0, k, old, T)
    BY <1>9 DEF k, old, T
  <2>2. old.state \in Open
    BY DEF Live, Open, old
  <2>3. Closing(e.payload, c0) /\ ~Opening(e.payload, c0)
        /\ e.payload.kind = "ReplaceAcknowledged" /\ ended.state = "Replaced"
    BY <1>8, <1>17, <1>18
  <2> QED BY <1>17, <1>18, <2>1, <2>2, <2>3, TracksClosed
<1>20. m \in Order /\ Tracks(c1, NewChild(q), m, E)
  BY <1>15 DEF OpenedAs
<1>21. /\ ExchangeShape(exchange') /\ exchange'.orders[c0] = ended /\ exchange'.orders[c1] = m
       /\ (\A c \in ClientIds \ X : exchange'.orders[c] = exchange.orders[c])
       /\ exchange'.next_execution_id = exchange.next_execution_id + n
  <2>1. ExchangeShape(exchange) /\ Len(sizes) \in Nat /\ ended = EndedOf(c0)
    BY <1>2, <1>7 DEF n, ended
  <2> QED BY <1>1, <1>3, <1>5, <1>11, <1>20, <2>1, ReplacedExchange DEF X, n
<1>22. Has(c0)' /\ Has(c1)'
  <2>1. ended # NoOrder /\ m # NoOrder
    BY <1>18, <1>20, SystemAssumption
  <2> QED BY <1>1, <1>21, <2>1 DEF Has
<1> HIDE DEF E
<1>23. ChildSound(c0)' /\ EndFits(c0)'
  <2>1. Tracks(c0, state'.children[c0], exchange'.orders[c0], About(Awaited, c0)')
    BY <1>12, <1>17, <1>19, <1>21 DEF k
  <2>2. state'.children[c0].requested \in 1..ParentQuantity
    BY <1>9, <1>12
  <2>3. ChildSound(c0)'
    BY <1>22, <2>1, <2>2 DEF ChildSound
  <2>4. Asked(c0)'
    BY <1>3, <1>12 DEF Asked
  <2> QED BY <2>3, <2>4 DEF EndFits
<1>24. ChildSound(c1)' /\ EndFits(c1)'
  <2>1. state'.children[c1] = NewChild(q) /\ NewChild(q).requested = q
        /\ NewChild(q).exchange_order_id = NoExchangeId
    BY <1>4, <1>12 DEF NewChild
  <2>2. Tracks(c1, state'.children[c1], exchange'.orders[c1], About(Awaited, c1)')
    BY <1>17, <1>20, <1>21, <2>1
  <2>3. ChildSound(c1)'
    BY <1>4, <1>22, <2>1, <2>2 DEF ChildSound
  <2>4. \A f \in About(Awaited, c1)' : f.available = task.timing.available
    BY <1>10, <1>17 DEF TaskEvents, Processing, E
  <2>5. EndFits(c1)'
    BY <2>1, <2>4 DEF EndFits
  <2> QED BY <2>3, <2>5
<1>25. \A u \in Sent \ {task} : Names(u.event.payload) \cap X = {} \/ CommandSound(u)'
  BY <1>3, <1>4 DEF SentAbout, X
<1>26. \A i \in Failed : kernel.failures[i].command.client \notin X \/ FailureFits(i)'
  BY <1>2, <1>3, <1>4, NotFailed DEF X
<1>27. \A i \in Failed' \ Failed : FailureFits(i)'
  BY <1>12
<1>28. Executes(replies)
  <2>1. \A i \in 1..Len(replies) : i > Len(replies) => replies[i].kind # "Fill"
    BY <1>7
  <2>2. ack.kind # "Fill"
    BY <1>8
  <2> QED BY <1>2, <1>7, <1>13, <1>21, <2>1, <2>2, OpenedExecutes DEF n
<1>29. \A i \in 1..Len(replies) : Names(replies[i]) \subseteq X /\ replies[i].kind # "TerminalCompletion"
  BY <1>8, <1>14, <1>16 DEF X, FillEvents
<1>30. \A c \in X \cap ClientIds : (Knows(c)' => ChildSound(c)') /\ EndFits(c)'
  BY <1>23, <1>24 DEF X
<1>31. Names(task.event.payload) \subseteq X /\ (Over => Live' \subseteq Live /\ Len(replies) = 0)
  BY <1>1, <1>5 DEF X
<1> QED BY <1>10, <1>21, <1>25, <1>26, <1>27, <1>28, <1>29, <1>30, <1>31, ProcessedSound

\* A replacement is processed.
LEMMA ReplaceStep ==
  ASSUME JInv, IInv, FixedReplies, NEW task, NEW p \in Replaces, p = task.event.payload,
         NEW outcome \in ReplaceOutcomes(p), Outcome(task, outcome)
  PROVE  JInv'
<1> DEFINE c0 == p.client
           s == exchange.orders[c0].state
           o == NewExchangeOrder(p.quantity)
<1>0. p \in Cancels \cup Replaces
  OBVIOUS
<1>1. CASE c0 \notin Live
  <2>1. outcome = Refused(<<>>, s)
    <3>1. ReplaceOutcomes(p) = {Refused(<<>>, s)}
      BY <1>1, Zenon DEF ReplaceOutcomes
    <3> QED BY <3>1, Zenon
  <2> QED BY <1>0, <2>1, RefusedStep
<1>2. CASE outcome = Refused(<<>>, NoState)
  BY <1>0, <1>2, RefusedStep
<1>3. ASSUME c0 \in Live, outcome # Refused(<<>>, NoState)
      PROVE  \E sizes \in MatchSizes(p.quantity) :
               Replacing(p, outcome, o, sizes, Matched(o, sizes, TRUE), AckOf(p, o))
  <2>1. PICK sizes \in MatchSizes(p.quantity) :
          outcome = [exchange |-> ReplacedAt(c0, p.new_client, Matched(o, sizes, TRUE), sizes),
                     replies |-> <<AckOf(p, o)>> \o Fills(p.new_client, o, sizes),
                     failures |-> <<>>]
    BY <1>3 DEF ReplaceOutcomes, ReplacedAt, EndedOf, AckOf
  <2>2. \A a, b, c, x : x = [exchange |-> a, replies |-> b, failures |-> c]
          => x.exchange = a /\ x.replies = b /\ x.failures = c
    OBVIOUS
  <2>3. /\ outcome.exchange = ReplacedAt(c0, p.new_client, Matched(o, sizes, TRUE), sizes)
        /\ outcome.replies = <<AckOf(p, o)>> \o Fills(p.new_client, o, sizes)
        /\ outcome.failures = <<>>
    BY <2>1, <2>2, Zenon
  <2> QED BY <2>3, Zenon DEF Replacing
<1>4. ASSUME c0 \in Live, outcome # Refused(<<>>, NoState)
      PROVE  JInv'
  <2> HIDE DEF c0, o
  <2>1. PICK sizes \in MatchSizes(p.quantity) :
          Replacing(p, outcome, o, sizes, Matched(o, sizes, TRUE), AckOf(p, o))
    BY <1>3, <1>4
  <2>2. p.client \in Live
    BY <1>4 DEF c0
  <2> QED BY <2>1, <2>2, ReplaceTraded
<1> QED BY <1>1, <1>2, <1>4

\* Another participant trades q lots of an open order.
TakenAt(c, m) == [exchange EXCEPT !.orders[c] = m,
                                  !.next_execution_id = exchange.next_execution_id + 1]
Taking(outcome, c, q, o, m) ==
  /\ o = exchange.orders[c] /\ m = Matched(o, <<q>>, TRUE)
  /\ outcome.exchange = TakenAt(c, m) /\ outcome.replies = Fills(c, o, <<q>>)
  /\ outcome.failures = <<>>

\* It is one fill.
LEMMA OneFill ==
  ASSUME exchange.next_execution_id \in Nat, NEW c \in ClientIds, NEW o \in Order,
         NEW q \in 1..o.leaves, NEW replies, replies = Fills(c, o, <<q>>)
  PROVE  Len(replies) = 1 /\ FillOf(replies[1], c, o, 1, q, q)
<1> DEFINE sizes == <<q>>
<1>1. q \in Nat /\ sizes \in MatchSizes(o.leaves)
  BY DEF MatchSizes, Order
<1>2. Len(sizes) = 1 /\ 1 \in 1..Len(sizes) /\ sizes[1] = q
  OBVIOUS
<1>3. SubSeq(sizes, 1, 1) = <<q>>
  BY ShortSequences
<1>4. Lots(SubSeq(sizes, 1, 1)) = q
  BY <1>1, <1>3, LotsOf
<1>5. o.leaves \in Nat
  BY DEF Order
<1>6. DOMAIN sizes = 1..1
  OBVIOUS
<1> HIDE DEF sizes
<1>7. FillOf(Fills(c, o, sizes)[1], c, o, 1, sizes[1], q)
  BY <1>1, <1>2, <1>4, FillParts
<1>8. Len(Fills(c, o, sizes)) = 1
  BY <1>2, <1>6 DEF Fills
<1> QED BY <1>2, <1>7, <1>8 DEF sizes

\* The exchange once the order has traded.
LEMMA TakenExchange ==
  ASSUME ExchangeShape(exchange), NEW c0 \in ClientIds, NEW m \in Order,
         NEW x, x = TakenAt(c0, m)
  PROVE  /\ ExchangeShape(x) /\ x.orders[c0] = m
         /\ \A c \in ClientIds \ {c0} : x.orders[c] = exchange.orders[c]
         /\ x.next_execution_id = exchange.next_execution_id + 1
<1> DEFINE orders == [exchange.orders EXCEPT ![c0] = m]
           b == exchange.next_execution_id + 1
<1>1. x = [exchange EXCEPT !.orders = orders, !.next_execution_id = b]
  BY DEF ExchangeShape, TakenAt
<1>2. /\ orders \in [ClientIds -> Order \cup {NoOrder}] /\ b \in Nat /\ orders[c0] = m
      /\ \A c \in ClientIds \ {c0} : orders[c] = exchange.orders[c]
  BY DEF ExchangeShape
<1> HIDE DEF orders, b
<1>3. ExchangeShape(x)
  BY <1>1, <1>2 DEF ExchangeShape
<1>4. x.orders = orders /\ x.next_execution_id = b
  BY <1>1 DEF ExchangeShape
<1> QED BY <1>2, <1>3, <1>4 DEF orders, b

\* The commands and the failures that are under way say what they said.
CommandsHold(task) == \A u \in Sent \ {task} : CommandSound(u)'
FailuresHold(c0)   == \A i \in Failed : kernel.failures[i].command.client = c0 => FailureFits(i)'

\* Only a failure could tell that the order is closed, and none does.
LEMMA TakeKeeps ==
  ASSUME JInv, IInv, NEW task, NEW t, NEW replies, NEW failures,
         Processing(task, t, replies, failures), failures = <<>>,
         Names(task.event.payload) = {}, NEW c0 \in Live,
         exchange'.orders[c0].state \notin Closed,
         \A c \in ClientIds \ {c0} : exchange'.orders[c] = exchange.orders[c]
  PROVE  CommandsHold(task) /\ FailuresHold(c0)
<1>1. Shapes /\ CommandsSound /\ FailuresFit /\ FailuresTrue
  BY DEF JInv, IInv
<1>2. /\ Sent' = Sent \ {task} /\ Failed' = Failed /\ state' = state
      /\ \A i \in Failed : kernel'.failures[i] = kernel.failures[i]
  <2>1. \A s : failures # <<s>>
    OBVIOUS
  <2> QED BY <2>1 DEF Processing
<1>3. \A c : SentAbout(c)' = SentAbout(c) /\ FailedAbout(c)' = FailedAbout(c)
  BY <1>2 DEF SentAbout, FailedAbout
<1>4. \A c \in ClientIds : exchange.orders[c].state \notin Closed
                             => exchange'.orders[c].state \notin Closed
  OBVIOUS
<1>5. ASSUME NEW u \in Sent, NEW c \in ClientIds, Targets(u, c) PROVE Targets(u, c)'
  <2>1. Knows(c)'
    BY <1>2, <1>5 DEF Targets, Knows, knows_client_order_id
  <2> QED BY <1>2, <1>3, <1>4, <1>5, <2>1 DEF Targets
<1>6. ASSUME NEW u \in Sent PROVE CommandSound(u)'
  <2>1. CommandSound(u)
    BY <1>1 DEF CommandsSound
  <2>2. u.event.payload \in Commands \cup {[kind |-> "Take"]}
    BY <1>1, SentNames
  <2>3. u.event.payload.kind \in {"Cancel", "Replace"} => u.event.payload.client \in ClientIds
    BY <2>2 DEF Commands, Submits, Cancels, Replaces
  <2> QED BY <1>2, <1>5, <2>1, <2>3 DEF CommandSound
<1>7. ASSUME NEW i \in Failed, kernel.failures[i].command.client = c0 PROVE FailureFits(i)'
  <2> DEFINE g == kernel.failures[i]
  <2>1. g.command.kind # "Submit" /\ g.current_state = NoState
    <3>1. c0 \in ClientIds /\ Has(c0)
      BY DEF Live, Has
    <3> QED BY <1>1, <1>7, <3>1 DEF FailuresTrue
  <2>2. FailureFits(i) /\ kernel'.failures[i] = g
    BY <1>1, <1>2 DEF FailuresFit
  <2>3. /\ g.available \in Int /\ Knows(c0) /\ SentAbout(c0) = {} /\ FailedAbout(c0) = {i}
        /\ (g.command.kind = "Cancel" => state.children[c0].cancel_pending)
        /\ (g.command.kind = "Replace" => state.children[c0].replace_pending)
    BY <1>7, <2>1, <2>2 DEF FailureFits
  <2>4. Knows(c0)'
    BY <1>2, <2>3 DEF Knows, knows_client_order_id
  <2> QED BY <1>2, <1>3, <1>7, <2>1, <2>2, <2>3, <2>4 DEF FailureFits
<1> QED BY <1>6, <1>7 DEF CommandsHold, FailuresHold

\* Another participant's command trades with an order.
LEMMA TakeTraded ==
  ASSUME JInv, IInv, FixedReplies, NEW task, NEW p, p = task.event.payload, Names(p) = {},
         NEW outcome, Outcome(task, outcome), NEW c0 \in Live,
         NEW o, NEW q \in 1..exchange.orders[c0].leaves, NEW m, Taking(outcome, c0, q, o, m)
  PROVE  JInv'
<1> DEFINE X == {c0}
           k == state.children[c0]
           T == About(Awaited, c0)
           replies == outcome.replies
           failures == outcome.failures
           r == replies[1]
<1>1. /\ o = exchange.orders[c0] /\ m = Matched(o, <<q>>, TRUE) /\ failures = <<>>
      /\ outcome.exchange = TakenAt(c0, m) /\ replies = Fills(c0, o, <<q>>)
  BY Zenon DEF Taking
<1>2. Shapes /\ task \in Sent /\ ExchangeShape(exchange) /\ ChildrenSound /\ UnknownUntouched
  BY DEF IInv, JInv, Shapes, Outcome, Processable, Sent, IsCommand
<1>3. /\ c0 \in ClientIds /\ Has(c0) /\ o \in Order /\ o.state \in Open /\ o.leaves \in Nat
      /\ exchange.next_execution_id \in Nat /\ q \in 1..o.leaves
  BY <1>1, <1>2 DEF Live, Has, ExchangeShape, Order, Open
<1>4. Knows(c0) /\ ChildSound(c0)
  BY <1>2, <1>3 DEF ChildrenSound, UnknownUntouched
<1>5. Idle /\ ~Over
  <2>1. ~Over
    BY DEF Over
  <2> QED BY <2>1, IdleOrOver DEF JInv
<1>6. Len(replies) = 1 /\ FillOf(r, c0, o, 1, q, q)
  BY <1>1, <1>3, OneFill
<1>7. /\ r \in FillEvents /\ r.client = c0 /\ r.exchange_order_id = o.id /\ r.kind = "Fill"
      /\ r.execution = exchange.next_execution_id + 1 - 1
      /\ r.quantity = q /\ r.cum = o.cum + q /\ r.leaves = o.leaves - q
  BY <1>6 DEF FillOf, FillEvents
<1>8. Names(r) = X /\ Filling(r, c0) /\ ~Opening(r, c0) /\ ~Closing(r, c0)
  <2>1. Names(r) = X /\ Filling(r, c0)
    BY <1>7 DEF Names, ChildEvents, Filling
  <2> QED BY <2>1, EventKinds
<1>9. PICK t : Processing(task, t, replies, failures) /\ ClockSound' /\ NumbersSound'
  <2>1. Len(outcome.replies) \in Nat /\ (outcome.failures = <<>> \/ \E x : outcome.failures = <<x>>)
    BY <1>1, <1>6
  <2> QED BY <1>5, <2>1, OutcomeViews
<1>10. failures = <<>> /\ exchange' = TakenAt(c0, m)
  BY <1>1 DEF Outcome
<1> DEFINE e == t[1].event
<1> HIDE DEF X, k, T, replies, failures, r, e
<1>11. /\ state' = state /\ Failed' = Failed
  <2>1. \A s : failures # <<s>>
    BY <1>10
  <2> QED BY <1>9, <1>10, <2>1 DEF Processing
<1>12. /\ About(Awaited, c0)' = T \cup {e} /\ e.payload = r /\ e.id \in Nat
       /\ \A f \in T : f.id \in Nat /\ f.id < e.id
  <2>1. e = t[1].event /\ Len(replies) = 1 /\ c0 \in Names(replies[1]) /\ r = replies[1]
    BY <1>6, <1>8 DEF X, e, r
  <2> QED BY <1>9, <2>1, OneTold DEF T
<1>13. /\ state.children[c0].requested \in 1..ParentQuantity
       /\ Tracks(c0, state.children[c0], exchange.orders[c0], About(Awaited, c0))
  BY <1>3, <1>4 DEF ChildSound
<1>14. Tracks(c0, k, o, T) /\ k \in Child
  <2>1. k \in Child
    BY <1>2, <1>3, <1>4 DEF k, Shapes, StateShape, Knows, knows_client_order_id
  <2> QED BY <1>1, <1>13, <2>1 DEF k, T
<1>15. \A f \in T : f.payload \in Replies
  BY <1>2, AboutTold DEF T
<1>16. Tracks(c0, k, m, T \cup {e})
  <2>1. q \in Nat \ {0} /\ q <= o.leaves
    BY <1>3
  <2>2. NextFill(c0, o, T, e, q)
    BY <1>7, <1>12, <1>15 DEF NextFill
  <2> QED BY <1>1, <1>3, <1>14, <2>1, <2>2, TracksTrade
<1>17. m \in Order /\ m.state \notin Closed
  <2>1. q \in Nat /\ Lots(<<q>>) = q /\ q \in 0..o.leaves /\ TRUE \in BOOLEAN
    BY <1>3, LotsOf
  <2> DEFINE sizes == <<q>>
  <2>2. q = Lots(sizes) /\ m = Matched(o, sizes, TRUE)
    BY <1>1, <2>1
  <2> HIDE DEF sizes
  <2>3. m \in Order /\ MatchOf(o, m, q, TRUE)
    BY <1>3, <2>1, <2>2, MatchedParts
  <2> QED BY <2>3 DEF MatchOf, Closed, Terminals
<1>18. /\ ExchangeShape(exchange') /\ exchange'.orders[c0] = m
       /\ (\A c \in ClientIds \ {c0} : exchange'.orders[c] = exchange.orders[c])
       /\ exchange'.next_execution_id = exchange.next_execution_id + 1
  <2> DEFINE x == exchange'
  <2>1. x = TakenAt(c0, m) /\ m \in Order /\ c0 \in ClientIds /\ ExchangeShape(exchange)
    BY <1>2, <1>3, <1>10, <1>17
  <2> HIDE DEF x
  <2>2. /\ ExchangeShape(x) /\ x.orders[c0] = m
        /\ (\A c \in ClientIds \ {c0} : x.orders[c] = exchange.orders[c])
        /\ x.next_execution_id = exchange.next_execution_id + 1
    BY <2>1, TakenExchange
  <2> QED BY <2>2 DEF x
<1>19. Has(c0)'
  BY <1>3, <1>17, <1>18, SystemAssumption DEF Has
<1>20. ChildSound(c0)' /\ EndFits(c0)'
  <2>1. Tracks(c0, state'.children[c0], exchange'.orders[c0], About(Awaited, c0)')
    BY <1>11, <1>12, <1>16, <1>18 DEF k
  <2>2. state'.children[c0].requested \in 1..ParentQuantity
    BY <1>11, <1>13
  <2>3. ChildSound(c0)'
    BY <1>19, <2>1, <2>2 DEF ChildSound
  <2>4. \A f \in T : ~Closing(f.payload, c0)
    <3>1. o.state \notin Closed
      BY <1>3 DEF Open, Closed
    <3> QED BY <1>14, <3>1 DEF Tracks, TellsOf, ClosesOrder
  <2>5. EndFits(c0)'
    BY <1>8, <1>12, <2>4 DEF EndFits
  <2> QED BY <2>3, <2>5
<1>21. CommandsHold(task) /\ FailuresHold(c0)
  <2>1. Names(task.event.payload) = {} /\ exchange'.orders[c0].state \notin Closed
    BY <1>17, <1>18
  <2> QED BY <1>9, <1>10, <1>18, <2>1, TakeKeeps
<1>22. Executes(replies)
  <2>1. ASSUME NEW i \in 1..Len(replies)
        PROVE  i - 0 \in 1..1 /\ replies[i].execution = exchange.next_execution_id + (i - 0) - 1
    <3>1. i = 1
      BY <1>6
    <3> QED BY <1>3, <1>7, <3>1 DEF r
  <2>2. 0 \in Nat /\ 1 \in Nat /\ Len(replies) \in Nat
    BY <1>6
  <2> QED BY <1>3, <1>18, <2>1, <2>2, ExecutesFills
<1>23. \A i \in 1..Len(replies) : Names(replies[i]) \subseteq X /\ replies[i].kind # "TerminalCompletion"
  BY <1>6, <1>7, <1>8 DEF r
<1>24. Names(task.event.payload) \subseteq X /\ (Over => Live' \subseteq Live /\ Len(replies) = 0)
  BY <1>5
<1>25. /\ (\A u \in Sent \ {task} : Names(u.event.payload) \cap X = {} \/ CommandSound(u)')
       /\ (\A i \in Failed : kernel.failures[i].command.client \notin X \/ FailureFits(i)')
       /\ (\A i \in Failed' \ Failed : FailureFits(i)')
       /\ (\A c \in ClientIds \ X : exchange'.orders[c] = exchange.orders[c])
       /\ \A c \in X \cap ClientIds : (Knows(c)' => ChildSound(c)') /\ EndFits(c)'
  BY <1>11, <1>18, <1>20, <1>21 DEF CommandsHold, FailuresHold, X
<1> QED BY <1>9, <1>22, <1>23, <1>24, <1>25, ProcessedSound

\* It trades with none.
LEMMA TakeNothing ==
  ASSUME JInv, IInv, FixedReplies, NEW task, Names(task.event.payload) = {},
         NEW outcome, Outcome(task, outcome), outcome.exchange = exchange,
         outcome.replies = <<>>, outcome.failures = <<>>
  PROVE  JInv'
<1> DEFINE X == {}
           replies == outcome.replies
           failures == outcome.failures
<1>1. Len(replies) = 0 /\ failures = <<>>
  OBVIOUS
<1>2. PICK t : Processing(task, t, replies, failures) /\ ClockSound' /\ NumbersSound'
  <2>1. /\ Len(outcome.replies) \in Nat /\ (outcome.failures = <<>> \/ \E x : outcome.failures = <<x>>)
        /\ Len(outcome.replies) = 0
    BY <1>1
  <2> QED BY <2>1, OutcomeViews
<1>3. exchange' = exchange /\ Live' = Live
  <2>1. exchange' = exchange
    BY DEF Outcome
  <2> QED BY <2>1 DEF Live
<1>4. Shapes /\ CommandsSound /\ FailuresFit /\ ExchangeShape(exchange)
  BY DEF JInv, IInv, Shapes
<1> HIDE DEF X, replies, failures
<1>5. /\ Sent' = Sent \ {task} /\ Failed' = Failed /\ state' = state
      /\ \A i \in Failed : kernel'.failures[i] = kernel.failures[i]
  <2>1. \A s : failures # <<s>>
    BY <1>1
  <2> QED BY <1>2, <2>1 DEF Processing
<1>6. Executes(replies)
  <2>1. exchange.next_execution_id \in Nat /\ exchange'.next_execution_id = exchange.next_execution_id + 0
    BY <1>3, <1>4 DEF ExchangeShape
  <2>2. 0 \in Nat /\ Len(replies) \in Nat /\ \A i \in 1..Len(replies) : FALSE
    BY <1>1
  <2> QED BY <2>1, <2>2, ExecutesFills
<1>7. /\ Names(task.event.payload) \subseteq X /\ (Over => Live' \subseteq Live /\ Len(replies) = 0)
      /\ \A i \in 1..Len(replies) :
           Names(replies[i]) \subseteq X /\ replies[i].kind # "TerminalCompletion"
  BY <1>1, <1>3
<1>8. \A i \in Failed : kernel.failures[i].command.client \notin X \/ FailureFits(i)'
  BY DEF X
<1>9. /\ (\A u \in Sent \ {task} : Names(u.event.payload) \cap X = {} \/ CommandSound(u)')
      /\ (\A i \in Failed' \ Failed : FailureFits(i)')
      /\ (\A c \in ClientIds \ X : exchange'.orders[c] = exchange.orders[c])
      /\ \A c \in X \cap ClientIds : (Knows(c)' => ChildSound(c)') /\ EndFits(c)'
  BY <1>3, <1>5 DEF X
<1> QED BY <1>2, <1>6, <1>7, <1>8, <1>9, ProcessedSound

\* Another participant's command is processed.
LEMMA TakeStep ==
  ASSUME JInv, IInv, FixedReplies, NEW task, NEW p, p = [kind |-> "Take"],
         p = task.event.payload, NEW outcome \in TakeOutcomes, Outcome(task, outcome)
  PROVE  JInv'
<1>1. Names(p) = {}
  BY DEF Names, ChildEvents
<1>2. CASE outcome = [exchange |-> exchange, replies |-> <<>>, failures |-> <<>>]
  <2>1. outcome.exchange = exchange /\ outcome.replies = <<>> /\ outcome.failures = <<>>
    BY <1>2
  <2> QED BY <1>1, <2>1, TakeNothing
<1>3. ASSUME NEW c0 \in Live, NEW q \in 1..exchange.orders[c0].leaves,
             outcome = [exchange |-> TakenAt(c0, Matched(exchange.orders[c0], <<q>>, TRUE)),
                        replies |-> Fills(c0, exchange.orders[c0], <<q>>), failures |-> <<>>]
      PROVE  JInv'
  <2> DEFINE o == exchange.orders[c0]
             m == Matched(o, <<q>>, TRUE)
  <2>1. /\ outcome.exchange = TakenAt(c0, m) /\ outcome.replies = Fills(c0, o, <<q>>)
        /\ outcome.failures = <<>>
    <3>1. \A a, b, c, x : x = [exchange |-> a, replies |-> b, failures |-> c]
            => x.exchange = a /\ x.replies = b /\ x.failures = c
      OBVIOUS
    <3> QED BY <1>3, <3>1, Zenon
  <2>2. Taking(outcome, c0, q, o, m)
    BY <2>1, Zenon DEF Taking
  <2> HIDE DEF o, m
  <2> QED BY <1>1, <2>2, TakeTraded
<1>4. \/ outcome = [exchange |-> exchange, replies |-> <<>>, failures |-> <<>>]
      \/ \E c0 \in Live : \E q \in 1..exchange.orders[c0].leaves :
           outcome = [exchange |-> TakenAt(c0, Matched(exchange.orders[c0], <<q>>, TRUE)),
                      replies |-> Fills(c0, exchange.orders[c0], <<q>>), failures |-> <<>>]
  <2>1. outcome \in TakeOutcomes
    OBVIOUS
  <2> QED BY <2>1, Zenon DEF TakeOutcomes, TakenAt
<1> QED BY <1>2, <1>3, <1>4, Zenon

\* The exchange processes a command.
LEMMA ProcessStep ==
  ASSUME JInv, IInv, FixedReplies, NEW task,
         NEW outcome \in Outcomes(task.event.payload), Outcome(task, outcome)
  PROVE  JInv'
<1> DEFINE p == task.event.payload
<1>1. p \in Commands \cup {[kind |-> "Take"]}
  <2>1. Shapes /\ task \in Sent
    BY DEF IInv, Outcome, Processable, Sent, IsCommand
  <2> QED BY <2>1, SentNames
<1>2. outcome \in Outcomes(p) /\ p = task.event.payload
  OBVIOUS
<1> HIDE DEF p
<1>3. CASE p \in Submits
  <2>1. outcome \in SubmitOutcomes(p)
    BY <1>2, <1>3 DEF Outcomes, Submits
  <2> QED BY <1>2, <1>3, <2>1, SubmitStep
<1>4. CASE p \in Cancels
  <2>1. outcome \in CancelOutcomes(p)
    BY <1>2, <1>4 DEF Outcomes, Cancels
  <2> QED BY <1>2, <1>4, <2>1, CancelStep
<1>5. CASE p \in Replaces
  <2>1. outcome \in ReplaceOutcomes(p)
    BY <1>2, <1>5 DEF Outcomes, Replaces
  <2> QED BY <1>2, <1>5, <2>1, ReplaceStep
<1>6. CASE p = [kind |-> "Take"]
  <2>1. outcome \in TakeOutcomes
    BY <1>2, <1>6 DEF Outcomes
  <2> QED BY <1>2, <1>6, <2>1, TakeStep
<1> QED BY <1>1, <1>3, <1>4, <1>5, <1>6 DEF Commands

-----------------------------------------------------------------------------
(***************************************************************************)
(* Issues are noted, and never withdrawn.                                  *)
(***************************************************************************)

IsState(s) ==
  s = [children |-> s.children, filled |-> s.filled,
       terminal_applied |-> s.terminal_applied, terminal_pending |-> s.terminal_pending,
       events |-> s.events, executions |-> s.executions, issues |-> s.issues]

\* State q has the issues of s, and perhaps others.
Notes(s, q) == IsState(q) /\ s.issues \subseteq q.issues

LEMMA IssueNotes ==
  ASSUME NEW s, IsState(s), NEW code
  PROVE  Notes(s, Issue(s, code)) /\ code \in Issue(s, code).issues
<1> DEFINE q == Issue(s, code)
<1>1. q = [s EXCEPT !.issues = s.issues \cup {code}]
  BY DEF Issue
<1> HIDE DEF q
<1>2. IsState(q) /\ q.issues = s.issues \cup {code}
  BY <1>1 DEF IsState
<1> QED BY <1>2 DEF Notes, q

LEMMA ChildrenNote ==
  ASSUME NEW s, IsState(s), NEW children, NEW q, q = [s EXCEPT !.children = children]
  PROVE  Notes(s, q)
BY DEF IsState, Notes

LEMMA ChildNotes ==
  ASSUME NEW s, IsState(s), NEW c, NEW child, NEW q, q = [s EXCEPT !.children[c] = child]
  PROVE  Notes(s, q)
<1>1. q = [s EXCEPT !.children = [s.children EXCEPT ![c] = child]]
  BY DEF IsState
<1> QED BY <1>1, ChildrenNote

LEMMA NotesAll ==
  ASSUME NEW s, NEW q, NEW r, Notes(s, q), Notes(q, r)
  PROVE  Notes(s, r)
BY DEF Notes

LEMMA FillNotes ==
  ASSUME NEW s, IsState(s), NEW p, NEW q, q = apply_fill(s, p)
  PROVE  Notes(s, q)
<1> DEFINE u == update_parent_fill(s, p)
<1>1. Notes(s, s)
  BY DEF Notes
<1>2. Notes(s, u)
  <2>1. CASE p.quantity > Remaining(s)
    <3>1. u = Issue(s, "parent_overfill")
      BY <2>1 DEF update_parent_fill
    <3> QED BY <3>1, IssueNotes
  <2>2. CASE ~(p.quantity > Remaining(s))
    <3>1. u = [s EXCEPT !.filled = s.filled + p.quantity,
                        !.executions = s.executions \cup {p.execution}]
      BY <2>2 DEF update_parent_fill
    <3> QED BY <3>1 DEF IsState, Notes
  <2> QED BY <2>1, <2>2
<1> HIDE DEF u
<1>3. \/ \E code : q = Issue(s, code)
      \/ q = u
      \/ \E child : q = [u EXCEPT !.children[p.client] = child]
  BY Zenon DEF apply_fill, u
<1>4. ASSUME NEW child, q = [u EXCEPT !.children[p.client] = child] PROVE Notes(s, q)
  <2>1. IsState(u)
    BY <1>2 DEF Notes
  <2>2. Notes(u, q)
    BY <1>4, <2>1, ChildNotes
  <2> QED BY <1>2, <2>2, NotesAll
<1> QED BY <1>2, <1>3, <1>4, IssueNotes

LEMMA PayloadNotes ==
  ASSUME NEW s, IsState(s), NEW p \in Replies \cup Completed, NEW q, q = apply_payload(s, p)
  PROVE  Notes(s, q)
<1>1. p.kind \in {"OrderAcknowledged", "OrderRejected", "CancelAcknowledged", "Fill",
                  "ReplaceAcknowledged", "TerminalCompletion"}
  BY DEF Replies, Completed, Acks, Rejections, CancelAcks, FillEvents, ReplaceAcks
<1>2. Notes(s, s)
  BY DEF Notes
<1>3. CASE p.kind = "TerminalCompletion"
  <2>1. q = apply_terminal(s, p)
    BY <1>3 DEF apply_payload, ChildEvents
  <2>2. \/ \E code : q = Issue(s, code)
        \/ q = [s EXCEPT !.filled = ParentQuantity, !.terminal_applied = TRUE,
                         !.terminal_pending = FALSE]
    BY <2>1, Zenon DEF apply_terminal
  <2>3. ASSUME q = [s EXCEPT !.filled = ParentQuantity, !.terminal_applied = TRUE,
                             !.terminal_pending = FALSE]
        PROVE  Notes(s, q)
    BY <2>3 DEF IsState, Notes
  <2> QED BY <2>2, <2>3, IssueNotes
<1>4. CASE p.kind = "ReplaceAcknowledged"
  <2>1. q = apply_replace_ack(s, p)
    BY <1>4 DEF apply_payload, ChildEvents
  <2>2. \E a, b : \E r : r = [s EXCEPT !.children[p.client] = a]
                         /\ q = [r EXCEPT !.children[p.new_client] = b]
    BY <2>1, Zenon DEF apply_replace_ack
  <2>3. PICK a, b : \E r : r = [s EXCEPT !.children[p.client] = a]
                           /\ q = [r EXCEPT !.children[p.new_client] = b]
    BY <2>2
  <2>4. PICK r : r = [s EXCEPT !.children[p.client] = a]
                 /\ q = [r EXCEPT !.children[p.new_client] = b]
    BY <2>3
  <2>5. Notes(s, r)
    BY <2>4, ChildNotes
  <2>6. Notes(r, q)
    <3>1. IsState(r)
      BY <2>5 DEF Notes
    <3> QED BY <2>4, <3>1, ChildNotes
  <2> QED BY <2>5, <2>6, NotesAll
<1>5. CASE p.kind \in ChildEvents /\ ~knows_client_order_id(s, p.client)
  <2>1. q = s
    BY <1>5 DEF apply_payload, ChildEvents
  <2> QED BY <1>2, <2>1
<1>6. CASE p.kind \in {"OrderAcknowledged", "OrderRejected", "CancelAcknowledged"}
           /\ knows_client_order_id(s, p.client)
  <2>1. \/ q = apply_order_ack(s, p)
        \/ q = apply_order_rejection(s, p)
        \/ q = apply_cancel_ack(s, p)
    BY <1>6 DEF apply_payload, ChildEvents
  <2>2. \E child : q = [s EXCEPT !.children[p.client] = child]
    BY <2>1, Zenon DEF apply_order_ack, apply_order_rejection, apply_cancel_ack
  <2> QED BY <2>2, ChildNotes
<1>7. CASE p.kind = "Fill" /\ knows_client_order_id(s, p.client)
  <2>1. q = apply_fill(s, p)
    BY <1>7 DEF apply_payload, ChildEvents
  <2> QED BY <2>1, FillNotes
<1>8. {"OrderAcknowledged", "OrderRejected", "CancelAcknowledged", "Fill"} \subseteq ChildEvents
  BY DEF ChildEvents
<1> QED BY <1>1, <1>3, <1>4, <1>5, <1>6, <1>7, <1>8

LEMMA EventNotes ==
  ASSUME NEW s, IsState(s), NEW e, e.payload \in Replies \cup Completed, NEW time,
         NEW q, q = apply_delivered_event(s, e, time)
  PROVE  Notes(s, q)
<1> DEFINE r == [s EXCEPT !.events = s.events \cup {e.id}]
<1>1. Notes(s, r)
  BY DEF IsState, Notes
<1> HIDE DEF r
<1>2. \/ \E code : q = Issue(s, code)
      \/ q = apply_payload(r, e.payload)
  BY Zenon DEF apply_delivered_event, r
<1>3. ASSUME q = apply_payload(r, e.payload) PROVE Notes(s, q)
  <2>1. IsState(r)
    BY <1>1 DEF Notes
  <2>2. Notes(r, q)
    BY <1>3, <2>1, PayloadNotes
  <2> QED BY <1>1, <2>2, NotesAll
<1> QED BY <1>2, <1>3, IssueNotes

LEMMA FailureNotes ==
  ASSUME NEW s, IsState(s), NEW command \in Commands, NEW current_state,
         NEW q, q = apply_engine_failure(s, command, current_state)
  PROVE  Notes(s, q)
<1>1. command.kind \in {"Submit", "Cancel", "Replace"}
  BY DEF Commands, Submits, Cancels, Replaces
<1>2. CASE q = s
  BY <1>2 DEF Notes
<1>3. CASE \E child : q = [s EXCEPT !.children[command.client] = child]
  BY <1>3, ChildNotes
<1>5. CASE knows_client_order_id(s, command.client)
  <2>1. CASE command.kind = "Submit"
    <3>1. q = apply_order_rejection(s, command)
      BY <1>5, <2>1 DEF apply_engine_failure
    <3> QED BY <1>3, <3>1, Zenon DEF apply_order_rejection
  <2>2. CASE command.kind = "Cancel"
    <3> DEFINE child == [Resolved(s.children[command.client], current_state)
                           EXCEPT !.cancel_pending = FALSE]
    <3>1. q = [s EXCEPT !.children[command.client] = child]
      BY <1>5, <2>2 DEF apply_engine_failure
    <3> QED BY <1>3, <3>1, Zenon
  <2>3. CASE command.kind = "Replace"
    <3> DEFINE child == [Resolved(s.children[command.client], current_state)
                           EXCEPT !.replace_pending = FALSE]
    <3>1. q = [s EXCEPT !.children[command.client] = child,
                        !.children[command.new_client] = NoChild]
      BY <1>5, <2>3 DEF apply_engine_failure
    <3> HIDE DEF child
    <3> QED BY <3>1 DEF IsState, Notes
  <2> QED BY <1>1, <2>1, <2>2, <2>3
<1> QED BY <1>2, <1>5 DEF apply_engine_failure

LEMMA CommandNotes ==
  ASSUME NEW s, IsState(s), NEW command, command.kind \in {"Submit", "Cancel", "Replace"},
         NEW q, q = register_command(s, command)
  PROVE  Notes(s, q)
<1>1. CASE command.kind = "Submit"
  <2>1. q = [s EXCEPT !.children[command.client] = NewChild(command.quantity)]
    BY <1>1 DEF register_command
  <2> QED BY <2>1, ChildNotes
<1>2. CASE command.kind = "Cancel"
  <2>1. q = [s EXCEPT !.children[command.client].cancel_pending = TRUE]
    BY <1>2 DEF register_command
  <2> QED BY <2>1 DEF IsState, Notes
<1>3. CASE command.kind = "Replace"
  <2>1. q = [s EXCEPT !.children[command.client].replace_pending = TRUE,
                      !.children[command.new_client] = NewChild(command.quantity)]
    BY <1>3 DEF register_command
  <2> QED BY <2>1 DEF IsState, Notes
<1> QED BY <1>1, <1>2, <1>3

AreCommands(commands) ==
  \A i \in 1..Len(commands) : commands[i].kind \in {"Submit", "Cancel", "Replace"}

LEMMA ActionNotes ==
  ASSUME NEW s, IsState(s), NEW commands, Len(commands) \in Nat, AreCommands(commands)
  PROVE  Notes(s, register_action(s, commands))
<1>0. Len(commands) \in Nat
  OBVIOUS
<1>1. PICK f : /\ f[0] = s
               /\ \A i \in 1..Len(commands) : f[i] = register_command(f[i - 1], commands[i])
               /\ register_action(s, commands) = f[Len(commands)]
  BY ONLY <1>0, RegisteredSteps
<1> DEFINE Good == {m \in Nat : m <= Len(commands) => Notes(s, f[m])}
<1>2. 0 \in Good
  BY <1>1 DEF Notes
<1>3. ASSUME NEW m \in Nat, m \in Good PROVE m + 1 \in Good
  <2> SUFFICES ASSUME m + 1 <= Len(commands) PROVE Notes(s, f[m + 1])
    OBVIOUS
  <2>1. Notes(s, f[m])
    BY <1>3
  <2>2. /\ f[m + 1] = register_command(f[m], commands[m + 1])
        /\ commands[m + 1].kind \in {"Submit", "Cancel", "Replace"}
    BY <1>1 DEF AreCommands
  <2>3. IsState(f[m])
    BY <2>1 DEF Notes
  <2>4. Notes(f[m], f[m + 1])
    BY <2>2, <2>3, CommandNotes
  <2> QED BY <2>1, <2>4, NotesAll
<1>4. Nat \subseteq Good
  <2> HIDE DEF Good
  <2> QED BY <1>2, <1>3, NaturalInduction
<1>5. Notes(s, f[Len(commands)])
  <2>1. \A m \in Nat : m <= Len(commands) => Notes(s, f[m])
    BY <1>4
  <2>2. \A n \in Nat : n <= n
    OBVIOUS
  <2> QED BY <2>1, <2>2, Zenon
<1> QED BY <1>1, <1>5

\* What is dispatched is registered, or nothing happens to the state.
LEMMA DispatchNotes ==
  ASSUME IsState(state), NEW commands, dispatch_validated_action(commands),
         \/ \E command : /\ commands = <<command>>
                         /\ command.kind \in {"Submit", "Cancel", "Replace"}
         \/ \E clients \in SUBSET ClientIds : commands = CancelCommands(clients)
  PROVE  Notes(state, state')
<1>1. state' = state \/ state' = register_action(state, commands)
  BY DEF dispatch_validated_action
<1>2. /\ Len(commands) \in Nat
      /\ \A i \in 1..Len(commands) : commands[i].kind \in {"Submit", "Cancel", "Replace"}
  <2>1. CASE \E command : /\ commands = <<command>>
                          /\ command.kind \in {"Submit", "Cancel", "Replace"}
    BY <2>1
  <2>2. CASE \E clients \in SUBSET ClientIds : commands = CancelCommands(clients)
    <3>1. PICK clients \in SUBSET ClientIds : commands = CancelCommands(clients)
      BY <2>2
    <3> QED BY <3>1, CancelClients
  <2> QED BY <2>1, <2>2
<1>3. Notes(state, register_action(state, commands))
  BY <1>2, ActionNotes DEF AreCommands
<1> QED BY <1>1, <1>3 DEF Notes

\* No step of the system withdraws an issue.
LEMMA StepNotes ==
  ASSUME IInv, [Next]_vars
  PROVE  state.issues \subseteq state'.issues
<1>1. Shapes /\ IsState(state)
  BY DEF IInv, Shapes, StateShape, IsState
<1>2. CASE ApplyDelivered
  <2> DEFINE d == kernel.delivered_events
             e == d[cursor + 1]
  <2>1. /\ state' = apply_delivered_event(state, e, e.available)
        /\ cursor < Len(d) /\ cursor \in 0..Len(d) /\ Len(d) \in Nat
        /\ \A i \in 1..Len(d) : d[i].payload \in Replies \cup Completed
    BY <1>1, <1>2, ListedAppend DEF ApplyDelivered, Shapes
  <2>2. cursor + 1 \in 1..Len(d)
    <3> HIDE DEF d
    <3> QED BY <2>1
  <2>3. e.payload \in Replies \cup Completed
    BY <2>1, <2>2
  <2> HIDE DEF e
  <2> QED BY <1>1, <2>1, <2>3, EventNotes DEF Notes
<1>3. CASE RouteFailure
  <2> DEFINE d == kernel.failures
             g == d[routed + 1]
  <2>1. /\ state' = apply_engine_failure(state, g.command, g.current_state)
        /\ routed < Len(d) /\ routed \in 0..Len(d) /\ Len(d) \in Nat
    BY <1>1, <1>3, ListedAppend DEF RouteFailure, FailureDue, Shapes
  <2>2. routed + 1 \in Failed
    <3>1. Failed = (routed + 1)..Len(d)
      BY DEF Failed
    <3> HIDE DEF d
    <3> QED BY <2>1, <3>1
  <2>3. g.command \in Commands
    BY <1>1, <2>2, FailedNames
  <2> HIDE DEF g
  <2> QED BY <1>1, <2>1, <2>3, FailureNotes DEF Notes
<1>4. CASE Decide
  <2>1. StrategyIds \subseteq ClientIds
    BY SystemAssumption
  <2>2. CASE StrategySubmit
    <3>1. PICK c \in StrategyIds, q \in ChildQuantities, tif \in {"GTC", "IOC"} :
            dispatch_validated_action(<<[kind |-> "Submit", client |-> c, tif |-> tif,
                                         quantity |-> q]>>)
      BY <2>2 DEF StrategySubmit
    <3> DEFINE command == [kind |-> "Submit", client |-> c, tif |-> tif, quantity |-> q]
    <3>2. dispatch_validated_action(<<command>>) /\ command.kind \in {"Submit", "Cancel", "Replace"}
      BY <3>1
    <3> HIDE DEF command
    <3> QED BY <1>1, <3>2, DispatchNotes DEF Notes
  <2>3. CASE StrategyCancel
    <3>1. PICK clients \in SUBSET StrategyIds : dispatch_validated_action(CancelCommands(clients))
      BY <2>3 DEF StrategyCancel
    <3>2. clients \in SUBSET ClientIds
      BY <2>1
    <3> QED BY <1>1, <3>1, <3>2, DispatchNotes DEF Notes
  <2>4. CASE StrategyReplace
    <3>1. PICK c \in StrategyIds, new \in StrategyIds, q \in ChildQuantities :
            dispatch_validated_action(<<[kind |-> "Replace", client |-> c, new_client |-> new,
              quantity |-> q, exchange_order_id |-> state.children[c].exchange_order_id]>>)
      BY <2>4 DEF StrategyReplace
    <3> DEFINE command == [kind |-> "Replace", client |-> c, new_client |-> new,
              quantity |-> q, exchange_order_id |-> state.children[c].exchange_order_id]
    <3>2. dispatch_validated_action(<<command>>) /\ command.kind \in {"Submit", "Cancel", "Replace"}
      BY <3>1
    <3> HIDE DEF command
    <3> QED BY <1>1, <3>2, DispatchNotes DEF Notes
  <2> QED BY <1>4, <2>2, <2>3, <2>4 DEF Decide
<1>5. CASE PlanTerminal
  <2>1. CASE CancelActiveChildren
    <3>1. acknowledged_active_orders(state) \in SUBSET ClientIds
      BY DEF acknowledged_active_orders, Known
    <3>2. dispatch_validated_action(CancelCommands(acknowledged_active_orders(state)))
      BY <2>1 DEF CancelActiveChildren
    <3> QED BY <1>1, <3>1, <3>2, DispatchNotes DEF Notes
  <2>2. CASE SubmitAggressiveResidual
    <3>1. PICK c \in ClientIds \ StrategyIds :
            dispatch_validated_action(<<[kind |-> "Submit", client |-> c, tif |-> "IOC",
                                         quantity |-> Remaining(state)]>>)
      BY <2>2 DEF SubmitAggressiveResidual
    <3> DEFINE command == [kind |-> "Submit", client |-> c, tif |-> "IOC",
                           quantity |-> Remaining(state)]
    <3>2. dispatch_validated_action(<<command>>) /\ command.kind \in {"Submit", "Cancel", "Replace"}
      BY <3>1
    <3> HIDE DEF command
    <3> QED BY <1>1, <3>2, DispatchNotes DEF Notes
  <2>3. CASE ExplicitFallback
    <3>1. state' = [state EXCEPT !.terminal_pending = TRUE]
      BY <2>3 DEF ExplicitFallback, mark_terminal_completion_pending
    <3> QED BY <1>1, <3>1 DEF IsState
  <2> QED BY <1>5, <2>1, <2>2, <2>3 DEF PlanTerminal
<1>6. CASE DispatchTask \/ OtherParticipant \/ AdvanceClock \/ UNCHANGED vars
  BY <1>6 DEF DispatchTask, OtherParticipant, AdvanceClock, vars
<1> QED BY <1>2, <1>3, <1>4, <1>5, <1>6 DEF Next

-----------------------------------------------------------------------------
(***************************************************************************)
(* Every step.                                                             *)
(***************************************************************************)

\* The kernel dispatches a task.
LEMMA DispatchStep ==
  ASSUME JInv, IInv, FixedReplies, DispatchTask, ~kernel'.thrown
  PROVE  JInv'
<1>1. PICK task \in kernel.queue :
        /\ IsTop(kernel, task) /\ task.time <= clock
        /\ \/ /\ task.stage # ExchangeProcess
              /\ kernel' = dispatch(kernel, task)
              /\ UNCHANGED exchange
           \/ /\ task.stage = ExchangeProcess
              /\ \E outcome \in Outcomes(task.event.payload) :
                   /\ kernel' = process_exchange(kernel, task, outcome.replies,
                                                 outcome.failures)
                   /\ exchange' = outcome.exchange
        /\ UNCHANGED <<state, clock, cursor, routed>>
  BY DEF DispatchTask
<1>2. CASE task.stage = ExchangeProcess
  <2>1. PICK outcome \in Outcomes(task.event.payload) :
          /\ kernel' = process_exchange(kernel, task, outcome.replies, outcome.failures)
          /\ exchange' = outcome.exchange
    BY <1>1, <1>2
  <2>2. Outcome(task, outcome)
    BY <1>1, <1>2, <2>1 DEF Outcome, Processable
  <2> QED BY <2>2, ProcessStep
<1>3. CASE task.stage # ExchangeProcess
  <2>1. /\ kernel' = dispatch(kernel, task) /\ UNCHANGED <<state, exchange, clock, cursor, routed>>
        /\ IsTop(kernel, task) /\ task.time <= clock
    BY <1>1, <1>3
  <2>2. CASE task.stage = ExchangeReceive
    BY <2>1, <2>2, ReceiveStep
  <2>3. CASE task.stage # ExchangeReceive
    <3>1. ~IsCommand(task)
      BY <1>3, <2>3 DEF IsCommand
    <3> QED BY <2>1, <3>1, DeliverStep
  <2> QED BY <2>2, <2>3
<1> QED BY <1>2, <1>3

\* Until an event is refused, the state follows its children; the first event
\* to be refused is a fill that no longer fits.
LEMMA TrackingStep ==
  ASSUME Tracking, IInv, FixedReplies, [Next]_vars, ~kernel'.thrown
  PROVE  Tracking'
<1>1. state.issues \subseteq state'.issues
  BY StepNotes
<1>2. CASE state.issues # {}
  <2>1. "parent_overfill" \in state.issues
    BY <1>2 DEF Tracking
  <2>2. "parent_overfill" \in state'.issues
    BY <1>1, <2>1
  <2> QED BY <2>2 DEF Tracking
<1>3. CASE state.issues = {}
  <2>1. JInv
    BY <1>3 DEF Tracking
  <2>2. (JInv' /\ state'.issues = state.issues) => Tracking'
    BY <1>3 DEF Tracking
  <2>3. "parent_overfill" \in state'.issues => Tracking'
    BY DEF Tracking
  <2>4. CASE DispatchTask
    <3>1. JInv'
      BY <2>1, <2>4, DispatchStep
    <3>2. state' = state
      BY <2>4 DEF DispatchTask
    <3> QED BY <2>2, <3>1, <3>2
  <2>5. CASE ApplyDelivered
    BY <2>1, <2>2, <2>3, <2>5, ApplyStep
  <2>6. CASE RouteFailure
    BY <2>1, <2>2, <2>6, RouteStep
  <2>7. CASE Decide
    BY <2>1, <2>2, <2>7, DecideStep
  <2>8. CASE PlanTerminal
    BY <2>1, <2>2, <2>8, PlanStep
  <2>9. CASE OtherParticipant
    <3>1. JInv'
      BY <2>1, <2>9, OtherStep
    <3>2. state' = state
      BY <2>9 DEF OtherParticipant
    <3> QED BY <2>2, <3>1, <3>2
  <2>10. CASE AdvanceClock \/ UNCHANGED vars
    <3>1. JInv'
      BY <2>1, <2>10, ClockMoves
    <3>2. state' = state
      BY <2>10 DEF AdvanceClock, vars
    <3> QED BY <2>2, <3>1, <3>2
  <2> QED BY <2>4, <2>5, <2>6, <2>7, <2>8, <2>9, <2>10 DEF Next
<1> QED BY <1>2, <1>3

\* At the start no child is known, and nothing has happened.
LEMMA InitTracks == Init => Tracking
<1> SUFFICES ASSUME Init
             PROVE  Tracking
  OBVIOUS
<1>1. /\ kernel.queue = {} /\ kernel.delivered_events = <<>> /\ kernel.failures = <<>>
      /\ kernel.current_time = NoTime /\ kernel.next_event_id = 1 /\ kernel.next_sequence = 1
      /\ state.children = [c \in ClientIds |-> NoChild] /\ state.filled = 0
      /\ state.terminal_applied = FALSE /\ state.terminal_pending = FALSE
      /\ state.events = {} /\ state.executions = {} /\ state.issues = {}
      /\ clock = 0 /\ cursor = 0 /\ routed = 0
  BY DEF Init, KernelInit, StateInit
<1>2. Len(kernel.delivered_events) = 0 /\ Len(kernel.failures) = 0
  BY <1>1
<1>3. EventTasks = {} /\ Waiting = {} /\ Sent = {} /\ Failed = {}
  BY <1>1, <1>2 DEF EventTasks, Waiting, Sent, Failed
<1>4. Awaited = {}
  BY <1>3 DEF Awaited
<1>5. \A c \in ClientIds : ~Knows(c)
  BY <1>1 DEF Knows, knows_client_order_id
<1>6. ClockSound
  <2>1. clock \in Time /\ kernel.current_time \in Int /\ kernel.current_time <= clock
    BY <1>1, KernelAssumption DEF Time, NoTime
  <2> QED BY <1>1, <1>3, <2>1 DEF ClockSound
<1>7. NumbersSound
  BY <1>1, <1>3, <1>4 DEF NumbersSound
<1>8. ExecutionsSound /\ CommandsSound /\ FailuresFit /\ EndsInTime
  BY <1>1, <1>3, <1>4 DEF ExecutionsSound, CommandsSound, FailuresFit, EndsInTime
<1>9. ChildrenSound
  BY <1>5 DEF ChildrenSound
<1>10. LedgerSound
  <2>1. \A c \in ClientIds : BookedLots(state)[c] = 0
    BY <1>5 DEF BookedLots, Knows
  <2>2. DOMAIN BookedLots(state) = ClientIds
    BY DEF BookedLots
  <2>3. Booked(state) = 0
    BY <2>1, <2>2, SumOfZeros, StateAssumption DEF Booked, SumFunction
  <2>4. Completions = {}
    BY <1>1 DEF Completions
  <2> QED BY <1>1, <1>4, <2>3, <2>4 DEF LedgerSound
<1> QED BY <1>6, <1>7, <1>8, <1>9, <1>10, <1>1 DEF Tracking, JInv

-----------------------------------------------------------------------------
(***************************************************************************)
(* Nothing in flight.                                                      *)
(***************************************************************************)

LEMMA SettledViews ==
  ASSUME Settled, Shapes
  PROVE  Awaited = {} /\ Sent = {} /\ Failed = {}
<1>1. /\ kernel.queue = {} /\ cursor = Len(kernel.delivered_events)
      /\ routed = Len(kernel.failures)
  BY DEF Settled
<1>2. Len(kernel.delivered_events) \in Nat /\ Len(kernel.failures) \in Nat
  <2>1. \A s : Listed(s) => Len(s) \in Nat
    BY ListedAppend
  <2> QED BY <2>1 DEF Shapes
<1>3. EventTasks = {} /\ Waiting = {} /\ Sent = {} /\ Failed = {}
  BY <1>1, <1>2 DEF EventTasks, Waiting, Sent, Failed
<1> QED BY <1>3 DEF Awaited

\* What the state knows of each child is what the exchange did with it.
LEMMA ChildrenSettled ==
  ASSUME JInv, IInv, Settled, NEW c \in ClientIds
  PROVE  /\ Has(c) => /\ Knows(c)
                      /\ state.children[c].exchange_order_id = exchange.orders[c].id
                      /\ state.children[c].cum = exchange.orders[c].cum
                      /\ state.children[c].leaves = exchange.orders[c].leaves
                      /\ state.children[c].state = exchange.orders[c].state
         /\ Knows(c) /\ ~Has(c) => /\ state.children[c].cum = 0
                                   /\ state.children[c].state = "Rejected"
<1>1. Awaited = {} /\ Sent = {} /\ Failed = {}
  BY SettledViews DEF IInv
<1>2. About(Awaited, c) = {} /\ SentAbout(c) = {} /\ FailedAbout(c) = {}
  BY <1>1 DEF About, SentAbout, FailedAbout
<1>3. Knows(c) => ChildSound(c)
  BY DEF JInv, ChildrenSound
<1>4. CASE Has(c)
  <2>1. Knows(c)
    BY <1>4 DEF IInv, UnknownUntouched
  <2>2. state.children[c] \in Child
    <3>1. StateShape(state)
      BY DEF IInv, Shapes
    <3> QED BY <2>1, <3>1 DEF StateShape, Knows, knows_client_order_id
  <2>3. Tracks(c, state.children[c], exchange.orders[c], {})
    BY <1>2, <1>3, <1>4, <2>1 DEF ChildSound
  <2> QED BY <1>4, <2>1, <2>2, <2>3, TracksSettled
<1>5. CASE ~Has(c) /\ Knows(c)
  <2>1. /\ Untraded(state.children[c], {})
        /\ state.children[c].state # "PendingNew"
    BY <1>2, <1>3, <1>5 DEF ChildSound
  <2> QED BY <1>5, <2>1 DEF Untraded
<1> QED BY <1>4, <1>5

\* The lots booked are the lots traded.
LEMMA BookedSettled ==
  ASSUME JInv, IInv, Settled
  PROVE  Booked(state) = Traded /\ Booked(state) \in Int
<1> DEFINE f == BookedLots(state)
           g == [c \in Accepted |-> exchange.orders[c].cum]
<1>1. StateShape(state) /\ IsFiniteSet(ClientIds) /\ Accepted \subseteq ClientIds
  BY StateAssumption DEF IInv, Shapes, Accepted
<1>2. \A c \in ClientIds : f[c] \in Int
  BY <1>1 DEF BookedLots, StateShape, knows_client_order_id, Child
<1>3. \A c \in ClientIds \ Accepted : f[c] = 0
  BY ChildrenSettled DEF BookedLots, Accepted, Has, Knows
<1>4. \A c \in Accepted : f[c] = g[c]
  BY ChildrenSettled DEF BookedLots, Accepted, Has, Knows
<1>5. DOMAIN f = ClientIds /\ DOMAIN g = Accepted
  BY DEF BookedLots
<1>6. Booked(state) = SumFunctionOnSet(f, ClientIds) /\ Traded = SumFunctionOnSet(g, Accepted)
  BY <1>5 DEF Booked, Traded, SumFunction
<1> HIDE DEF f, g
<1>7. SumFunctionOnSet(f, ClientIds) = SumFunctionOnSet(f, Accepted)
  BY <1>1, <1>2, <1>3, SumOfRest
<1>8. IsFiniteSet(Accepted)
  BY <1>1, FS_Subset
<1>9. SumFunctionOnSet(f, Accepted) = SumFunctionOnSet(g, Accepted)
  BY <1>4, <1>8, SumOfEquals
<1>10. SumFunctionOnSet(f, ClientIds) \in Int
  BY <1>1, <1>2, SumIsInt
<1> QED BY <1>6, <1>7, <1>9, <1>10

\* The explicit completion covers what has not been booked.
LEMMA FallbackSettled ==
  ASSUME JInv, IInv, Settled
  PROVE  state.filled = Booked(state) + FallbackLots
<1> DEFINE f == [i \in Completions |-> kernel.delivered_events[i].payload.quantity]
<1>1. Awaited = {}
  BY SettledViews DEF IInv
<1>2. LedgerSound /\ Booked(state) \in Int
  BY BookedSettled DEF JInv
<1>3. FallbackLots = SumFunctionOnSet(f, Completions)
  <2>1. DOMAIN f = Completions
    OBVIOUS
  <2> QED BY <2>1 DEF FallbackLots, SumFunction
<1>4. CASE ~state.terminal_applied
  <2>1. ~state.terminal_pending
    BY <1>1, <1>2 DEF LedgerSound
  <2>2. Completions = {} /\ state.filled = Booked(state)
    BY <1>2, <1>4, <2>1 DEF LedgerSound
  <2> HIDE DEF f
  <2>3. FallbackLots = 0
    BY <1>3, <2>2, SumOfNone
  <2> QED BY <1>2, <2>2, <2>3
<1>5. CASE state.terminal_applied
  <2>1. PICK i : /\ Completions = {i}
                 /\ kernel.delivered_events[i].payload.quantity = ParentQuantity - Booked(state)
    BY <1>2, <1>5 DEF LedgerSound
  <2>2. state.filled = ParentQuantity
    BY <1>2, <1>5 DEF LedgerSound
  <2>3. f[i] = ParentQuantity - Booked(state) /\ f[i] \in Int
    BY <1>2, <2>1, StateAssumption
  <2> HIDE DEF f
  <2>4. SumFunctionOnSet(f, {} \cup {i}) = f[i] + SumFunctionOnSet(f, {})
    <3>1. IsFiniteSet({})
      BY FS_EmptySet
    <3>2. i \notin {} /\ \A x \in {} \cup {i} : f[x] \in Int
      BY <2>3
    <3> QED BY <3>1, <3>2, SumWith
  <2>5. SumFunctionOnSet(f, {}) = 0
    BY SumOfNone
  <2>6. {} \cup {i} = Completions
    BY <2>1
  <2>7. FallbackLots = f[i]
    <3>1. FallbackLots = f[i] + 0
      BY <1>3, <2>4, <2>5, <2>6
    <3> QED BY <2>3, <3>1
  <2> QED BY <1>2, <2>2, <2>3, <2>7, StateAssumption
<1> QED BY <1>4, <1>5

\* Until an event is refused, the ledger and the children are exact whenever
\* nothing is in flight.
LEMMA SettledExact ==
  ASSUME JInv, IInv
  PROVE  LedgerExact /\ ChildrenAgree
<1>1. LedgerExact
  BY BookedSettled, FallbackSettled DEF LedgerExact
<1>2. ASSUME Settled
      PROVE  Accepted \subseteq Known(state)
  BY <1>2, ChildrenSettled DEF Accepted, Known, Has, Knows, knows_client_order_id
<1>3. ASSUME Settled, NEW c \in Known(state)
      PROVE  LET child == state.children[c]
                 order == exchange.orders[c]
             IN  IF order = NoOrder THEN child.state = "Rejected"
                 ELSE /\ child.exchange_order_id = order.id
                      /\ child.cum = order.cum
                      /\ child.leaves = order.leaves
                      /\ child.state = order.state
  <2>1. c \in ClientIds /\ Knows(c)
    BY DEF Known, Knows, knows_client_order_id
  <2> QED BY <1>3, <2>1, ChildrenSettled DEF Has
<1> QED BY <1>1, <1>2, <1>3 DEF ChildrenAgree

-----------------------------------------------------------------------------
(***************************************************************************)
(* The ledger.                                                             *)
(***************************************************************************)

\* The state follows its children and the ledger follows the state for as long
\* as the kernel throws no exception, which ends the loop.
LEMMA TrackedThroughout ==
  ASSUME FixedReplies
  PROVE  Spec /\ [](~kernel.thrown) => []Tracking
<1>1. Init => Tracking
  BY InitTracks
<1>2. Tracking /\ IInv /\ [Next]_vars /\ (~kernel.thrown)' => Tracking'
  BY TrackingStep
<1> QED BY <1>1, <1>2, SystemInvariance, PTL DEF Spec

\* With replies that take a fixed time, and whatever the latency of commands,
\* the moves of the strategies, the number of children and their sizes, and the
\* market: ExecutionState neither drops, doubles nor invents a fill, and agrees
\* with the exchange about every child, until it refuses an event, and the first
\* that it refuses is a fill that no longer fits the parent (policy/state.cpp,
\* simulation/kernel_exchange.cpp).
THEOREM ExactUntilOverfill ==
  ASSUME FixedReplies
  PROVE  Spec /\ [](~kernel.thrown) => []ExactUnlessOverfill
<1>1. IInv /\ Tracking => ExactUnlessOverfill
  BY SettledExact DEF Tracking, ExactUnlessOverfill, OverfillRefusedFirst
<1> QED BY <1>1, TrackedThroughout, SystemInvariance, PTL

\* An issue that ExecutionState has noted stays noted: no later event, failure or
\* decision takes it back, so that a run that ends without an issue never had one
\* (policy/state.cpp).
THEOREM IssuesStay == Spec => [][state.issues \subseteq state'.issues]_vars
<1>1. IInv /\ [Next]_vars => [state.issues \subseteq state'.issues]_vars
  BY StepNotes
<1> QED BY <1>1, SystemInvariance, PTL DEF Spec

-----------------------------------------------------------------------------
(***************************************************************************)
(* One child at a time.                                                    *)
(***************************************************************************)

\* Replies take a fixed time, the validator admits one live child, and no
\* strategy replaces orders.
OneAtATime == FixedReplies /\ maximum_live_children = 1 /\ "Replace" \notin Moves

LEMMA CalmFits ==
  ASSUME OneChild, Calms, state'.issues = state.issues, Counters'
  PROVE  OneChild'
<1>1. Remaining(state') = Remaining(state)
  BY DEF Calms, Remaining
<1>2. \A c \in ClientIds : Engaged(c)' => Engaged(c)
  BY DEF Calms, Calmer, Engaged
<1>3. NoReplacement'
  BY DEF Calms, Calmer, OneChild, NoReplacement
<1>4. Alone'
  BY <1>2 DEF OneChild, Alone
<1>5. ASSUME ~state'.terminal_applied, NEW c \in ClientIds, Engaged(c)'
      PROVE  state'.children[c].requested - state'.children[c].cum <= Remaining(state)
  <2>1. Engaged(c) /\ ~state.terminal_applied
    BY <1>2, <1>5 DEF Calms
  <2>2. state.children[c].requested - state.children[c].cum <= Remaining(state)
    BY <2>1 DEF OneChild, FitsParent
  <2>3. /\ state'.children[c].requested = state.children[c].requested
        /\ state'.children[c].cum = state.children[c].cum
    BY <1>5 DEF Calms, Calmer, Engaged
  <2> QED BY <2>2, <2>3
<1>6. FitsParent'
  BY <1>1, <1>5 DEF FitsParent
<1> QED BY <1>3, <1>4, <1>6 DEF OneChild

\* A child is opened when none is engaged.
LEMMA OpeningFits ==
  ASSUME OneChild, NEW c, NEW q \in Nat, OpensChild(c, q), q <= Remaining(state),
         \A d \in ClientIds : ~Engaged(d), state'.issues = state.issues, Counters'
  PROVE  OneChild'
<1>1. Remaining(state') = Remaining(state)
  BY DEF OpensChild, Remaining
<1>2. \A d \in ClientIds : Engaged(d)' => d = c
  BY DEF OpensChild, Engaged, Knows, knows_client_order_id
<1>3. PICK new : new = NewChild(q)
  OBVIOUS
<1>4. /\ new.requested = q /\ new.cum = 0 /\ ~new.replace_pending
      /\ state'.children[c] = new
  BY <1>3 DEF NewChild, OpensChild
<1>5. NoReplacement'
  BY <1>4 DEF OpensChild, OneChild, NoReplacement, Knows, knows_client_order_id
<1>6. Alone'
  BY <1>2 DEF Alone
<1>7. FitsParent'
  <2>1. new.requested - new.cum = q
    BY <1>4
  <2>2. ASSUME NEW d \in ClientIds, Engaged(d)'
        PROVE  state'.children[d].requested - state'.children[d].cum <= Remaining(state')
    <3>1. state'.children[d] = new
      BY <1>2, <1>4, <2>2
    <3> QED BY <1>1, <2>1, <3>1
  <2> QED BY <2>2 DEF FitsParent
<1> QED BY <1>5, <1>6, <1>7 DEF OneChild

\* Nothing happens to the state.
LEMMA StillFits ==
  ASSUME OneChild, state' = state, Counters'
  PROVE  OneChild'
<1>1. Calms
  BY SameCalmer DEF Calms
<1> QED BY <1>1, CalmFits


\* When the validator lets a decision submit, nothing is engaged.
LEMMA NobodyEngaged ==
  ASSUME JInv, IInv, FixedReplies, Ready, pending_command_count(state) = 0,
         parent_status(state, clock) # "Completed", acknowledged_active_orders(state) = {}
  PROVE  \A c \in ClientIds : ~Engaged(c)
<1>1. Over
  BY DecisionIdle, NothingLeft
<1>2. \A c \in ClientIds : Knows(c) => ~state.children[c].cancel_pending
  BY NothingPending DEF Asked
<1> QED BY <1>1, <1>2 DEF Over, Engaged, Busy

LEMMA NoneActive ==
  ASSUME maximum_live_children = 1, NEW command, validate_submit(command)
  PROVE  acknowledged_active_orders(state) = {}
<1> DEFINE active == acknowledged_active_orders(state)
<1>1. IsFiniteSet(active)
  <2>1. active \in SUBSET ClientIds
    BY DEF acknowledged_active_orders, Known
  <2> QED BY <2>1, StateAssumption, FS_Subset
<1>2. Cardinality(active) < 1
  BY DEF validate_submit
<1> HIDE DEF active
<1>3. Cardinality(active) = 0
  BY <1>1, <1>2, FS_CardinalityType
<1>4. active = {}
  BY <1>1, <1>3, FS_EmptySet
<1> QED BY <1>4 DEF active

\* A submit that the validator lets pass.
LEMMA SubmitFits ==
  ASSUME OneChild, JInv, IInv, OneAtATime, Ready, NEW command \in Submits,
         validate_submit(command), command.quantity \in 1..Remaining(state),
         dispatch_validated_action(<<command>>), ~kernel'.thrown,
         UNCHANGED <<exchange, clock, cursor, routed>>, Counters'
  PROVE  OneChild'
<1>1. FixedReplies /\ maximum_live_children = 1
  BY DEF OneAtATime
<1>2. /\ pending_command_count(state) = 0 /\ parent_status(state, clock) # "Completed"
      /\ ~Knows(command.client)
  BY DEF validate_submit, validate_common, Knows
<1>3. \A c \in ClientIds : ~Engaged(c)
  BY <1>1, <1>2, NobodyEngaged, NoneActive
<1>4. /\ Remaining(state) \in 0..ParentQuantity /\ ParentQuantity \in Nat
  BY QuantityFits, StateAssumption DEF IInv, Shapes
<1>5. command.quantity \in Nat /\ command.quantity \in 1..ParentQuantity
  BY <1>4 DEF Submits
<1>6. OpensChild(command.client, command.quantity) /\ state'.issues = state.issues
  BY <1>1, <1>2, <1>5, SubmitDecided
<1> QED BY <1>3, <1>5, <1>6, OpeningFits

LEMMA DecideFits ==
  ASSUME OneChild, JInv, IInv, OneAtATime, Decide, ~kernel'.thrown
  PROVE  OneChild'
<1>1. /\ UNCHANGED <<exchange, clock, cursor, routed>> /\ Ready
      /\ attempts' = attempts /\ takes' = takes
  BY DEF Decide
<1>2. Counters'
  BY <1>1 DEF OneChild, Counters
<1>3. "Replace" \notin Moves /\ FixedReplies
  BY DEF OneAtATime
<1>4. CASE StrategySubmit
  <2>1. PICK c \in StrategyIds, q \in ChildQuantities, tif \in {"GTC", "IOC"} :
          LET command == [kind |-> "Submit", client |-> c, tif |-> tif, quantity |-> q]
          IN  validate_submit(command) /\ dispatch_validated_action(<<command>>)
    BY <1>4 DEF StrategySubmit
  <2>2. PICK command : command = [kind |-> "Submit", client |-> c, tif |-> tif, quantity |-> q]
    OBVIOUS
  <2>3. q \in 1..Remaining(state) /\ q \in Nat
    <3>1. StateShape(state) /\ ParentQuantity \in Nat
      BY StateAssumption DEF IInv, Shapes
    <3>2. q \in 1..Remaining(state) /\ q \in 1..ParentQuantity
      BY <3>1, QuantityFits
    <3> QED BY <3>1, <3>2
  <2>4. command \in Submits /\ command.quantity \in 1..Remaining(state)
    BY <2>2, <2>3, SystemAssumption DEF Submits
  <2>5. validate_submit(command) /\ dispatch_validated_action(<<command>>)
    BY <2>1, <2>2
  <2> QED BY <1>1, <1>2, <2>4, <2>5, SubmitFits
<1>5. CASE StrategyCancel
  <2>1. PICK clients \in SUBSET StrategyIds :
          validate_cancel(clients) /\ dispatch_validated_action(CancelCommands(clients))
    BY <1>5 DEF StrategyCancel
  <2>2. /\ clients \in SUBSET acknowledged_active_orders(state)
        /\ pending_command_count(state) = 0 /\ parent_status(state, clock) # "Completed"
    BY <2>1 DEF validate_cancel, validate_common
  <2>3. Calms /\ state'.issues = state.issues
    BY <1>1, <1>3, <2>1, <2>2, CancelsDecided
  <2> QED BY <1>2, <2>3, CalmFits
<1> QED BY <1>3, <1>4, <1>5 DEF Decide

LEMMA PlanFits ==
  ASSUME OneChild, JInv, IInv, OneAtATime, PlanTerminal, ~kernel'.thrown
  PROVE  OneChild'
<1>1. /\ UNCHANGED <<exchange, clock, cursor, routed>> /\ Ready /\ takes' = takes
      /\ pending_command_count(state) = 0 /\ FixedReplies
      /\ parent_status(state, clock) # "Completed"
  BY DEF PlanTerminal, OneAtATime
<1>2. state'.issues = state.issues
  BY <1>1, PlanStep
<1>3. StateShape(state)
  BY DEF IInv, Shapes
<1>4. attempts \in 0..maximum_aggressive_attempts /\ takes \in 0..MaxTakes
      /\ maximum_aggressive_attempts \in Nat
  BY SystemAssumption DEF OneChild, Counters
<1>5. CASE CancelActiveChildren
  <2>1. dispatch_validated_action(CancelCommands(acknowledged_active_orders(state)))
        /\ attempts' = attempts
    BY <1>5 DEF CancelActiveChildren
  <2>2. acknowledged_active_orders(state) \in SUBSET acknowledged_active_orders(state)
    OBVIOUS
  <2>3. Calms
    BY <1>1, <2>1, <2>2, CancelsDecided
  <2>4. Counters'
    BY <1>1, <1>4, <2>1 DEF Counters
  <2> QED BY <1>2, <2>3, <2>4, CalmFits
<1>6. CASE SubmitAggressiveResidual
  <2>1. PICK c \in ClientIds \ StrategyIds :
          LET command == [kind |-> "Submit", client |-> c, tif |-> "IOC",
                          quantity |-> Remaining(state)]
          IN  validate_submit(command) /\ dispatch_validated_action(<<command>>)
    BY <1>6 DEF SubmitAggressiveResidual
  <2>2. PICK command : command = [kind |-> "Submit", client |-> c, tif |-> "IOC",
                                  quantity |-> Remaining(state)]
    OBVIOUS
  <2>3. Remaining(state) # 0 /\ Remaining(state) \in 0..ParentQuantity /\ ParentQuantity \in Nat
    BY <1>1, <1>3, QuantityFits, StateAssumption DEF parent_status
  <2>4. command \in Submits /\ command.quantity \in 1..Remaining(state)
    <3>1. Remaining(state) \in Nat /\ Remaining(state) \in 1..Remaining(state)
      BY <2>3
    <3> QED BY <2>2, <3>1 DEF Submits
  <2>5. validate_submit(command) /\ dispatch_validated_action(<<command>>)
    BY <2>1, <2>2
  <2>6. Counters'
    <3>1. attempts < maximum_aggressive_attempts /\ attempts' = attempts + 1
      BY <1>6 DEF SubmitAggressiveResidual
    <3>2. attempts + 1 \in 0..maximum_aggressive_attempts
      BY <1>4, <3>1
    <3> QED BY <1>1, <1>4, <3>1, <3>2 DEF Counters
  <2> QED BY <1>1, <2>4, <2>5, <2>6, SubmitFits
<1>7. CASE ExplicitFallback
  <2>1. /\ state'.children = state.children /\ state'.filled = state.filled
        /\ state'.terminal_applied = state.terminal_applied
    BY <1>3, <1>7 DEF ExplicitFallback, mark_terminal_completion_pending, StateShape
  <2>2. Calms
    BY <2>1, SameCalmer DEF Calms
  <2>3. Counters'
    BY <1>1, <1>4, <1>7 DEF ExplicitFallback, Counters
  <2> QED BY <1>2, <2>2, <2>3, CalmFits
<1> QED BY <1>5, <1>6, <1>7 DEF PlanTerminal

-----------------------------------------------------------------------------
(***************************************************************************)
(* The loop hears of a failure or applies an event.                        *)
(***************************************************************************)

LEMMA RouteFits ==
  ASSUME OneChild, JInv, IInv, FixedReplies, RouteFailure
  PROVE  OneChild'
<1>1. PICK i, p, cs, c0 : /\ i = routed + 1 /\ p = kernel.failures[i].command
                          /\ cs = kernel.failures[i].current_state /\ c0 = p.client
  OBVIOUS
<1>2. /\ i \in Failed /\ p \in Commands /\ cs \in {NoState} \cup Terminals
      /\ state' = apply_engine_failure(state, p, cs)
  BY <1>1, RoutedViews
<1>3. /\ c0 \in Names(p) /\ c0 \in ClientIds /\ p.kind \in {"Submit", "Cancel", "Replace"}
      /\ p.kind # "Replace" => Names(p) = {c0}
  BY <1>1, <1>2 DEF Commands, Submits, Cancels, Replaces, Names
<1>4. StateShape(state) /\ state'.issues = state.issues
  BY RouteStep DEF IInv, Shapes
<1>5. Knows(c0)
  <2>1. i \in FailedAbout(c0)
    BY <1>1, <1>2, <1>3 DEF FailedAbout
  <2> QED BY <1>3, <2>1, StrangersQuiet
<1>6. p.kind # "Replace"
  <2>1. ASSUME p.kind = "Replace" PROVE FALSE
    <3>1. PICK f : f = kernel.failures[i]
      OBVIOUS
    <3>2. FailureFits(i)
      BY <1>2 DEF JInv, FailuresFit
    <3>3. state.children[c0].replace_pending
      BY <1>1, <2>1, <3>2 DEF FailureFits
    <3> QED BY <1>3, <1>5, <3>3 DEF OneChild, NoReplacement
  <2> QED BY <2>1
<1>7. PICK k, n : k = state.children[c0] /\ n = state'.children[c0]
  OBVIOUS
<1>8. /\ state'.filled = state.filled /\ state'.terminal_applied = state.terminal_applied
      /\ \A c \in ClientIds \ {c0} : state'.children[c] = state.children[c]
      /\ n.requested = k.requested /\ n.cum = k.cum
      /\ p.kind = "Submit" => /\ n.state = "Rejected"
                              /\ n.cancel_pending = k.cancel_pending
                              /\ n.replace_pending = k.replace_pending
      /\ p.kind = "Cancel" => /\ n.state = IF cs = NoState THEN k.state ELSE cs
                              /\ ~n.cancel_pending /\ n.replace_pending = k.replace_pending
  <2>1. knows_client_order_id(state, p.client)
    BY <1>1, <1>5 DEF Knows
  <2>2. Names(p) = {c0}
    BY <1>3, <1>6
  <2>3. PICK q : q = state' /\ q = apply_engine_failure(state, p, cs)
    BY <1>2
  <2>4. /\ k = state.children[p.client] /\ n = q.children[p.client]
        /\ p.kind = "Replace" => p.new_client # p.client
    BY <1>1, <1>6, <1>7, <2>3
  <2>5. /\ q.filled = state.filled /\ q.terminal_applied = state.terminal_applied
        /\ \A c \in ClientIds \ Names(p) : q.children[c] = state.children[c]
        /\ n.requested = k.requested /\ n.cum = k.cum
        /\ p.kind = "Submit" => /\ n.state = "Rejected" /\ n.leaves = 0
                                /\ n.cancel_pending = k.cancel_pending
                                /\ n.replace_pending = k.replace_pending
        /\ p.kind # "Submit" => n.state = IF cs = NoState THEN k.state ELSE cs
        /\ p.kind = "Cancel" => ~n.cancel_pending /\ n.replace_pending = k.replace_pending
    BY <1>2, <1>4, <2>1, <2>3, <2>4, FailureSettles
  <2> QED BY <1>6, <2>2, <2>3, <2>5
<1>9. Busy(n) => Busy(k)
  <2>1. CASE p.kind = "Submit"
    <3>1. ~Has(c0)
      BY <1>1, <1>2, <2>1 DEF IInv, FailuresTrue
    <3>2. Untraded(k, About(Awaited, c0))
      BY <1>3, <1>5, <1>7, <3>1 DEF JInv, ChildrenSound, ChildSound
    <3> QED BY <1>8, <2>1, <3>2 DEF Busy, Untraded, ActiveStates
  <2>2. CASE p.kind = "Cancel"
    BY <1>2, <1>8, <2>2 DEF Busy, ActiveStates, Terminals
  <2> QED BY <1>3, <1>6, <2>1, <2>2
<1>10. n.replace_pending => k.replace_pending
  BY <1>3, <1>6, <1>8
<1>11. Calmer(c0)
  BY <1>3, <1>5, <1>7, <1>8, <1>9, <1>10, OneCalmer
<1>12. Calms
  BY <1>8, <1>11, SameCalmer DEF Calms
<1>13. Counters'
  BY DEF RouteFailure, OneChild, Counters
<1> QED BY <1>4, <1>12, <1>13, CalmFits

\* Nothing acknowledges a replacement.
LEMMA NeverReplaced ==
  ASSUME OneChild, JInv, IInv, FixedReplies, NEW e, Applying(e)
  PROVE  e.payload.kind # "ReplaceAcknowledged"
<1>0. SUFFICES ASSUME e.payload.kind = "ReplaceAcknowledged" PROVE FALSE
  OBVIOUS
<1>1. PICK c, d, p : p = e.payload /\ c = p.client /\ d = p.new_client
  OBVIOUS
<1>2. /\ Names(p) = {c, d} /\ Closing(p, c) /\ Opening(p, d)
  BY <1>0, <1>1 DEF Names, ChildEvents, Closing, Opening
<1>3. /\ e \in Awaited /\ (\A f \in Awaited : f.id \in Nat)
      /\ (\A f \in Awaited : f # e => e.id < f.id)
  BY DEF Applying
<1>4. PICK k, o, T : k = state.children[c] /\ o = exchange.orders[c] /\ T = About(Awaited, c)
  OBVIOUS
<1>5. PICK l, q, U : l = state.children[d] /\ q = exchange.orders[d] /\ U = About(Awaited, d)
  OBVIOUS
<1>6. /\ c \in ClientIds /\ Knows(c) /\ e \in T /\ k \in Child /\ Tracks(c, k, o, T)
      /\ \A f \in T : f \in Awaited
  BY <1>0, <1>1, <1>2, <1>3, <1>4, ToldClient
<1>7. /\ d \in ClientIds /\ Knows(d) /\ e \in U /\ Tracks(d, l, q, U)
  BY <1>0, <1>1, <1>2, <1>3, <1>5, ToldClient
<1>8. c # d
  <2>1. TellsOf(c, k, o, T, e)
    BY <1>6 DEF Tracks
  <2> QED BY <1>1, <1>2, <2>1 DEF TellsOf
<1>9. k.state \in Open
  <2>1. (\A f \in T : f.id \in Nat) /\ \A f \in T : f # e => e.id < f.id
    BY <1>3, <1>6
  <2>2. Closing(e.payload, c)
    BY <1>1, <1>2
  <2> QED BY <1>6, <2>1, <2>2, TracksEnd
<1>10. l.state = "PendingNew"
  <2>1. OpensOrder(l, q, U, e)
    BY <1>1, <1>2, <1>7 DEF Tracks, TellsOf
  <2>2. l.exchange_order_id = NoExchangeId
    BY <2>1 DEF OpensOrder
  <2> QED BY <1>7, <2>2, TracksKnown DEF NoExchangeId
<1>11. Engaged(c) /\ Engaged(d)
  BY <1>4, <1>5, <1>6, <1>7, <1>9, <1>10 DEF Engaged, Busy, Open, ActiveStates
<1> QED BY <1>6, <1>7, <1>8, <1>11 DEF OneChild, Alone

\* A fill of the child that is engaged fits the parent, and leaves as much room as
\* it takes.
LEMMA FillFits ==
  ASSUME OneChild, JInv, IInv, FixedReplies, NEW e, Applying(e), NEW s, Noting(s, e),
         e.payload.kind = "Fill", state' = apply_payload(s, e.payload), Counters'
  PROVE  OneChild'
<1>1. PICK c, k, o, T, n : Continuing(e, c, k, o, T, n)
  BY FillContinuing
<1>2. PICK p : p = e.payload
  OBVIOUS
<1>3. /\ k = state.children[c] /\ c \in ClientIds /\ Knows(c) /\ k \in Child /\ n \in Child
      /\ p \in FillEvents /\ k.state \in Open /\ k.cum + p.quantity = p.cum
      /\ p.cum + p.leaves = k.requested /\ n.requested = k.requested /\ n.cum = p.cum
      /\ n.replace_pending = k.replace_pending
  BY <1>1, <1>2 DEF Continuing
<1>4. /\ k.cum \in Nat /\ k.requested \in Nat /\ p.quantity \in Nat /\ p.leaves \in Nat
      /\ p.cum \in Nat
  BY <1>3 DEF Child, FillEvents
<1>5. Engaged(c)
  BY <1>3 DEF Engaged, Busy, Open, ActiveStates
<1>6. state.terminal_applied = FALSE /\ StateShape(state)
  <2>1. e \in Awaited /\ e.payload.kind # "TerminalCompletion"
    BY DEF Applying
  <2> QED BY <2>1, TalkIdle DEF IInv, Shapes
<1>7. k.requested - k.cum <= Remaining(state)
  BY <1>3, <1>5, <1>6 DEF OneChild, FitsParent
<1>8. Remaining(state) \in Int
  BY <1>6, QuantityFits
<1>9. ~(p.quantity > Remaining(state))
  BY <1>3, <1>4, <1>7, <1>8
<1>10. Books(e, c, n)
  BY <1>1, <1>2, <1>9, FillBooks
<1>11. /\ state'.children[c] = n /\ state'.filled = state.filled + p.quantity
       /\ \A d \in ClientIds \ {c} : state'.children[d] = state.children[d]
       /\ state'.issues = state.issues
  BY <1>2, <1>10 DEF Books
<1>12. Remaining(state') = Remaining(state) - p.quantity
  <2>1. state.filled \in Int /\ ParentQuantity \in Int
    BY <1>6, StateAssumption DEF StateShape
  <2> QED BY <1>4, <1>11, <2>1 DEF Remaining
<1>13. \A d \in ClientIds : Engaged(d)' => Engaged(d)
  BY <1>5, <1>11 DEF Engaged, Knows, knows_client_order_id
<1>14. \A d \in ClientIds : Engaged(d) => d = c
  BY <1>3, <1>5 DEF OneChild, Alone
<1>15. NoReplacement'
  BY <1>3, <1>11 DEF OneChild, NoReplacement, Knows, knows_client_order_id
<1>16. Alone'
  BY <1>13 DEF OneChild, Alone
<1>17. FitsParent'
  <2>1. n.requested - n.cum <= Remaining(state')
    BY <1>3, <1>4, <1>7, <1>8, <1>12
  <2> QED BY <1>11, <1>13, <1>14, <2>1 DEF FitsParent
<1> QED BY <1>11, <1>15, <1>16, <1>17 DEF OneChild

\* The explicit completion leaves nothing to fit.
LEMMA TerminalFits ==
  ASSUME OneChild, JInv, IInv, FixedReplies, NEW e, Applying(e), NEW s, Noting(s, e),
         e.payload.kind = "TerminalCompletion", state' = apply_payload(s, e.payload), Counters'
  PROVE  OneChild'
<1>1. /\ state'.children = state.children /\ state'.terminal_applied = TRUE
      /\ state'.issues = state.issues
  BY TerminalStep
<1>2. \A d \in ClientIds : Engaged(d)' => Engaged(d)
  BY <1>1 DEF Engaged, Knows, knows_client_order_id
<1>3. NoReplacement'
  BY <1>1 DEF OneChild, NoReplacement, Knows, knows_client_order_id
<1>4. Alone'
  BY <1>2 DEF OneChild, Alone
<1>5. FitsParent'
  BY <1>1 DEF FitsParent
<1> QED BY <1>1, <1>3, <1>4, <1>5 DEF OneChild

LEMMA ApplyFits ==
  ASSUME OneChild, JInv, IInv, FixedReplies, ApplyDelivered
  PROVE  OneChild'
<1>1. PICK e, s : Applying(e) /\ Noting(s, e) /\ state' = apply_payload(s, e.payload)
  BY AppliedViews
<1>2. Counters'
  BY DEF ApplyDelivered, OneChild, Counters
<1>3. e.payload.kind \in {"OrderAcknowledged", "OrderRejected", "CancelAcknowledged", "Fill",
                          "TerminalCompletion"}
  <2>1. e \in Awaited
    BY <1>1 DEF Applying
  <2>2. e.payload \in Replies \cup Completed
    BY <2>1, AwaitedReplies DEF IInv
  <2>3. e.payload.kind # "ReplaceAcknowledged"
    BY <1>1, NeverReplaced
  <2> QED BY <2>2, <2>3
       DEF Replies, Acks, Rejections, CancelAcks, FillEvents, ReplaceAcks, Completed
<1>4. CASE e.payload.kind = "OrderAcknowledged"
  BY <1>1, <1>2, <1>4, AckStep, CalmFits
<1>5. CASE e.payload.kind = "OrderRejected"
  BY <1>1, <1>2, <1>5, RejectStep, CalmFits
<1>6. CASE e.payload.kind = "CancelAcknowledged"
  BY <1>1, <1>2, <1>6, CancelAckStep, CalmFits
<1>7. CASE e.payload.kind = "Fill"
  BY <1>1, <1>2, <1>7, FillFits
<1>8. CASE e.payload.kind = "TerminalCompletion"
  BY <1>1, <1>2, <1>8, TerminalFits
<1> QED BY <1>3, <1>4, <1>5, <1>6, <1>7, <1>8

\* Every step leaves at most one child engaged, with room for it.
LEMMA FitStep ==
  ASSUME OneChild, JInv, IInv, OneAtATime, [Next]_vars, ~kernel'.thrown
  PROVE  OneChild'
<1>1. FixedReplies
  BY DEF OneAtATime
<1>2. CASE DispatchTask \/ AdvanceClock \/ UNCHANGED vars
  <2>1. state' = state /\ attempts' = attempts /\ takes' = takes
    BY <1>2 DEF DispatchTask, AdvanceClock, vars
  <2> QED BY <2>1, StillFits DEF OneChild, Counters
<1>3. CASE OtherParticipant
  <2>1. state' = state /\ attempts' = attempts /\ takes < MaxTakes /\ takes' = takes + 1
    BY <1>3 DEF OtherParticipant
  <2>2. takes' \in 0..MaxTakes
    BY <2>1, SystemAssumption DEF OneChild, Counters
  <2> QED BY <2>1, <2>2, StillFits DEF OneChild, Counters
<1>4. CASE ApplyDelivered
  BY <1>1, <1>4, ApplyFits
<1>5. CASE RouteFailure
  BY <1>1, <1>5, RouteFits
<1>6. CASE Decide
  BY <1>6, DecideFits
<1>7. CASE PlanTerminal
  BY <1>7, PlanFits
<1> QED BY <1>2, <1>3, <1>4, <1>5, <1>6, <1>7 DEF Next

LEMMA FollowStep ==
  ASSUME JInv, OneChild, IInv, OneAtATime, [Next]_vars, ~kernel'.thrown
  PROVE  JInv' /\ OneChild'
<1>1. OneChild' /\ FixedReplies
  BY FitStep DEF OneAtATime
<1>2. Tracking'
  <2>1. Tracking
    BY DEF Tracking, OneChild
  <2> QED BY <1>1, <2>1, TrackingStep
<1> QED BY <1>1, <1>2 DEF Tracking, OneChild

LEMMA InitFits == Init => JInv /\ OneChild
<1>1. SUFFICES ASSUME Init PROVE JInv /\ OneChild
  OBVIOUS
<1>2. state.issues = {} /\ \A c \in ClientIds : ~Knows(c)
  BY <1>1 DEF Init, StateInit, Knows, knows_client_order_id
<1>3. JInv
  BY <1>1, <1>2, InitTracks DEF Tracking
<1>4. NoReplacement /\ Alone /\ FitsParent
  BY <1>2 DEF NoReplacement, Alone, FitsParent, Engaged
<1>5. Counters
  BY <1>1, SystemAssumption DEF Init, Counters
<1> QED BY <1>2, <1>3, <1>4, <1>5 DEF OneChild

LEMMA AloneThroughout ==
  ASSUME OneAtATime
  PROVE  Spec /\ [](~kernel.thrown) => [](JInv /\ OneChild)
<1>1. Init => JInv /\ OneChild
  BY InitFits
<1>2. (JInv /\ OneChild) /\ IInv /\ [Next]_vars /\ (~kernel.thrown)' => (JInv /\ OneChild)'
  BY FollowStep
<1> QED BY <1>1, <1>2, SystemInvariance, PTL DEF Spec

-----------------------------------------------------------------------------
(***************************************************************************)
(* What is traded for the parent order.                                    *)
(***************************************************************************)

\* An order trades no more than its child asked for, and what a child that can no
\* longer trade has booked is what its order has traded.
LEMMA OrderBooked ==
  ASSUME JInv, IInv, NEW c \in ClientIds, Has(c),
         NEW k, k = state.children[c], NEW o, o = exchange.orders[c]
  PROVE  /\ Knows(c) /\ k \in Child /\ o.cum \in Nat /\ o.quantity \in Nat
         /\ k.requested = o.quantity /\ k.cum <= o.cum /\ o.cum <= o.quantity
         /\ k.state \notin {"PendingNew"} \cup ActiveStates => k.cum = o.cum
         /\ o.state \in Open => o.cum < o.quantity
<1>1. Knows(c) /\ StateShape(state)
  BY DEF IInv, UnknownUntouched, Shapes
<1>2. k \in Child /\ Tracks(c, k, o, About(Awaited, c))
  BY <1>1 DEF JInv, ChildrenSound, ChildSound, StateShape, Knows, knows_client_order_id
<1>3. SoundOrder(o) /\ k.requested = o.quantity /\ k.cum <= o.cum
  BY <1>2 DEF Tracks
<1>4. /\ o.cum \in Nat /\ o.quantity \in Nat /\ o.cum <= o.quantity
      /\ o.state \in Open => o.cum < o.quantity
  BY <1>3 DEF SoundOrder, Order
<1>5. k.cum \in Nat /\ k.leaves \in Nat
  BY <1>2 DEF Child
<1>6. ASSUME k.state \notin {"PendingNew"} \cup ActiveStates PROVE k.cum = o.cum
  <2>1. CASE k = NewChild(o.quantity)
    BY <1>6, <2>1 DEF NewChild
  <2>2. CASE FollowsOrder(k, o)
    <3>1. k.leaves = 0 /\ k.leaves = o.quantity - k.cum
      BY <1>6, <2>2 DEF FollowsOrder, ActiveStates
    <3> QED BY <1>3, <1>4, <1>5, <3>1
  <2>3. CASE k.cum = o.cum
    BY <2>3
  <2> QED BY <1>2, <2>1, <2>2, <2>3 DEF Tracks
<1> QED BY <1>1, <1>2, <1>3, <1>4, <1>6

\* A bound of what each order has traded bounds what all have.
LEMMA TradedBelow ==
  ASSUME IInv, NEW h,
         \A c \in ClientIds : /\ h[c] \in Int /\ 0 <= h[c]
                              /\ Has(c) => exchange.orders[c].cum <= h[c]
  PROVE  Traded \in Int /\ Traded <= SumFunctionOnSet(h, ClientIds)
<1> DEFINE f == [c \in Accepted |-> exchange.orders[c].cum]
           g == [c \in ClientIds |-> IF Has(c) THEN exchange.orders[c].cum ELSE 0]
<1>1. IsFiniteSet(ClientIds) /\ Accepted \in SUBSET ClientIds /\ IsFiniteSet(Accepted)
  <2>1. IsFiniteSet(ClientIds) /\ Accepted \in SUBSET ClientIds
    BY StateAssumption DEF Accepted
  <2> QED BY <2>1, FS_Subset
<1>2. \A c \in ClientIds : g[c] \in Int /\ g[c] <= h[c]
  <2>1. ASSUME NEW c \in ClientIds, Has(c) PROVE exchange.orders[c].cum \in Int
    <3>1. exchange.orders[c] \in Order
      BY <2>1 DEF IInv, Shapes, ExchangeShape, Has
    <3> QED BY <3>1 DEF Order
  <2> QED BY <2>1
<1>3. \A c \in ClientIds \ Accepted : g[c] = 0
  BY DEF Accepted, Has
<1>4. \A c \in Accepted : g[c] = f[c]
  BY <1>1 DEF Accepted, Has
<1>5. Traded = SumFunctionOnSet(f, Accepted)
  <2>1. DOMAIN f = Accepted
    OBVIOUS
  <2> QED BY <2>1 DEF Traded, SumFunction
<1> HIDE DEF f, g
<1>6. SumFunctionOnSet(g, ClientIds) = SumFunctionOnSet(g, Accepted)
  BY <1>1, <1>2, <1>3, SumOfRest
<1>7. SumFunctionOnSet(g, Accepted) = SumFunctionOnSet(f, Accepted)
  BY <1>1, <1>4, SumOfEquals
<1>8. SumFunctionOnSet(g, ClientIds) <= SumFunctionOnSet(h, ClientIds)
  BY <1>1, <1>2, SumOfSmaller
<1>9. SumFunctionOnSet(g, ClientIds) \in Int
  BY <1>1, <1>2, SumIsInt
<1> QED BY <1>5, <1>6, <1>7, <1>8, <1>9

\* What is booked is the sum of what is booked on the children.
LEMMA BookedParts ==
  ASSUME IInv
  PROVE  /\ Booked(state) = SumFunctionOnSet(BookedLots(state), ClientIds)
         /\ Booked(state) \in Int
         /\ \A c \in ClientIds : /\ BookedLots(state)[c] \in Nat
                                 /\ Knows(c) => BookedLots(state)[c] = state.children[c].cum
<1> DEFINE f == BookedLots(state)
<1>1. StateShape(state) /\ IsFiniteSet(ClientIds)
  BY StateAssumption DEF IInv, Shapes
<1>2. \A c \in ClientIds : f[c] \in Nat /\ (Knows(c) => f[c] = state.children[c].cum)
  BY <1>1 DEF BookedLots, StateShape, Knows, knows_client_order_id, Child
<1>3. DOMAIN f = ClientIds
  BY DEF BookedLots
<1>4. Booked(state) = SumFunctionOnSet(f, ClientIds)
  BY <1>3 DEF Booked, SumFunction
<1> HIDE DEF f
<1>5. SumFunctionOnSet(f, ClientIds) \in Int
  BY <1>1, <1>2, SumIsInt
<1> QED BY <1>2, <1>4, <1>5 DEF f

\* Once nothing can trade, the orders have traded what is booked.
LEMMA OverTraded ==
  ASSUME JInv, IInv, Over
  PROVE  Traded \in Int /\ Traded <= Booked(state)
<1> DEFINE f == BookedLots(state)
<1>1. \A c \in ClientIds : f[c] \in Nat /\ (Knows(c) => f[c] = state.children[c].cum)
  BY BookedParts
<1> HIDE DEF f
<1>2. ASSUME NEW c \in ClientIds, Has(c) PROVE exchange.orders[c].cum <= f[c]
  <2>1. Knows(c) /\ exchange.orders[c].cum \in Nat
    BY <1>2, OrderBooked
  <2>2. state.children[c].cum = exchange.orders[c].cum
    BY <1>2, <2>1, OrderBooked DEF Over
  <2> QED BY <1>1, <2>1, <2>2
<1>3. Traded \in Int /\ Traded <= SumFunctionOnSet(f, ClientIds)
  BY <1>1, <1>2, TradedBelow
<1> QED BY <1>3, BookedParts DEF f

\* Before, they have traded no more than the child that is engaged may.
LEMMA IdleTraded ==
  ASSUME JInv, IInv, OneChild, Idle
  PROVE  Traded \in Int /\ Traded <= ParentQuantity
<1> DEFINE f == BookedLots(state)
<1>1. \A c \in ClientIds : f[c] \in Nat /\ (Knows(c) => f[c] = state.children[c].cum)
  BY BookedParts
<1>2. /\ Booked(state) = SumFunctionOnSet(f, ClientIds) /\ Booked(state) \in Int
      /\ IsFiniteSet(ClientIds)
  BY BookedParts, StateAssumption
<1>3. /\ Remaining(state) \in 0..ParentQuantity /\ ParentQuantity \in Nat
      /\ Remaining(state) = ParentQuantity - Booked(state)
  <2>1. StateShape(state) /\ state.filled = Booked(state) /\ ParentQuantity \in Nat
    BY StateAssumption DEF IInv, Shapes, JInv, LedgerSound, Idle
  <2> QED BY <2>1, QuantityFits DEF Remaining
<1> HIDE DEF f
<1>4. ASSUME NEW c \in ClientIds, Has(c), ~Engaged(c) PROVE exchange.orders[c].cum <= f[c]
  <2>1. Knows(c) /\ exchange.orders[c].cum \in Nat
    BY <1>4, OrderBooked
  <2>2. state.children[c].cum = exchange.orders[c].cum
    BY <1>4, <2>1, OrderBooked DEF Engaged, Busy
  <2> QED BY <1>1, <2>1, <2>2
<1>5. CASE \A c \in ClientIds : ~Engaged(c)
  <2>1. Traded \in Int /\ Traded <= SumFunctionOnSet(f, ClientIds)
    BY <1>1, <1>4, <1>5, TradedBelow
  <2> QED BY <1>2, <1>3, <2>1
<1>6. ASSUME NEW c0 \in ClientIds, Engaged(c0) PROVE Traded \in Int /\ Traded <= ParentQuantity
  <2> DEFINE h == [c \in ClientIds |-> IF c = c0 THEN f[c] + Remaining(state) ELSE f[c]]
  <2>1. \A c \in ClientIds : h[c] \in Int /\ 0 <= h[c]
    BY <1>1, <1>3
  <2>2. h[c0] = f[c0] + Remaining(state) /\ \A c \in ClientIds \ {c0} : h[c] = f[c]
    OBVIOUS
  <2> HIDE DEF h
  <2>3. ASSUME NEW c \in ClientIds, Has(c) PROVE exchange.orders[c].cum <= h[c]
    <3>1. CASE c = c0
      <4>1. PICK k, o : k = state.children[c0] /\ o = exchange.orders[c0]
        OBVIOUS
      <4>2. Knows(c0) /\ k.requested - k.cum <= Remaining(state)
        BY <1>6, <4>1 DEF OneChild, FitsParent, Idle, Engaged
      <4>3. /\ k \in Child /\ o.cum \in Nat /\ o.quantity \in Nat /\ k.requested = o.quantity
            /\ o.cum <= o.quantity
        BY <2>3, <3>1, <4>1, OrderBooked
      <4>4. f[c0] = k.cum /\ k.cum \in Nat
        BY <1>1, <4>1, <4>2, <4>3 DEF Child
      <4> QED BY <1>3, <2>2, <3>1, <4>1, <4>2, <4>3, <4>4
    <3>2. CASE c # c0
      <4>1. ~Engaged(c)
        BY <1>6, <3>2 DEF OneChild, Alone
      <4> QED BY <1>4, <2>2, <2>3, <3>2, <4>1
    <3> QED BY <3>1, <3>2
  <2>4. Traded \in Int /\ Traded <= SumFunctionOnSet(h, ClientIds)
    BY <2>1, <2>3, TradedBelow
  <2>5. SumFunctionOnSet(h, ClientIds) = SumFunctionOnSet(f, ClientIds) - f[c0] + h[c0]
    <3>1. \A c \in ClientIds : f[c] \in Int /\ h[c] \in Int
      BY <1>1, <2>1
    <3>2. \A c \in ClientIds \ {c0} : f[c] = h[c]
      BY <2>2
    <3> QED BY <1>2, <3>1, <3>2, SumOfUpdate
  <2>6. f[c0] \in Int
    BY <1>1
  <2> QED BY <1>2, <1>3, <2>2, <2>4, <2>5, <2>6
<1> QED BY <1>5, <1>6

\* At most one explicit completion.
LEMMA OneCompletion ==
  ASSUME NEW i, Completions \subseteq {i}, NEW q \in Nat,
         i \in Completions => kernel.delivered_events[i].payload.quantity = q
  PROVE  FallbackLots \in Int /\ FallbackLots <= q
<1> DEFINE f == [j \in Completions |-> kernel.delivered_events[j].payload.quantity]
<1>1. FallbackLots = SumFunctionOnSet(f, Completions)
  <2>1. DOMAIN f = Completions
    OBVIOUS
  <2> QED BY <2>1 DEF FallbackLots, SumFunction
<1>2. i \in Completions => f[i] = q
  OBVIOUS
<1> HIDE DEF f
<1>3. SumFunctionOnSet(f, {}) = 0
  BY SumOfNone
<1>4. CASE Completions = {}
  BY <1>1, <1>3, <1>4
<1>5. CASE i \in Completions
  <2>1. Completions = {} \cup {i} /\ IsFiniteSet({})
    BY <1>5, FS_EmptySet
  <2>2. i \notin {} /\ \A x \in {} \cup {i} : f[x] \in Int
    BY <1>2, <1>5
  <2>3. SumFunctionOnSet(f, {} \cup {i}) = f[i] + SumFunctionOnSet(f, {})
    BY <2>1, <2>2, SumWith
  <2>4. FallbackLots = q + 0
    BY <1>1, <1>2, <1>3, <1>5, <2>1, <2>3
  <2> QED BY <2>4
<1> QED BY <1>4, <1>5

\* The explicit completion leaves room for what is booked.
LEMMA FallbackFits ==
  ASSUME JInv, IInv
  PROVE  /\ FallbackLots \in Int
         /\ Idle => FallbackLots <= 0
         /\ ~Idle => FallbackLots <= ParentQuantity - Booked(state)
<1>0. /\ LedgerSound /\ NumbersSound /\ Shapes /\ Booked(state) \in Int /\ ParentQuantity \in Nat
      /\ Remaining(state) \in 0..ParentQuantity
  <2>1. StateShape(state)
    BY DEF IInv, Shapes
  <2> QED BY <2>1, BookedParts, QuantityFits, StateAssumption DEF JInv, IInv
<1>1. CASE Idle
  <2>1. Completions = {}
    BY <1>0, <1>1 DEF Idle, LedgerSound
  <2> QED BY <1>1, <2>1, OneCompletion
<1>2. CASE state.terminal_pending
  <2>1. /\ Completions \subseteq Waiting
        /\ \E e \in Awaited :
             /\ Awaited = {e}
             /\ e.payload = [kind |-> "TerminalCompletion", quantity |-> Remaining(state)]
        /\ state.filled = Booked(state)
    BY <1>0, <1>2 DEF LedgerSound
  <2>2. PICK e : /\ Awaited = {e} /\ e.payload.quantity = Remaining(state)
    BY <2>1
  <2>3. \A j \in Waiting : kernel.delivered_events[j] = e
    BY <2>2 DEF Awaited
  <2>4. e.id \in Nat
    BY <1>0, <2>2 DEF NumbersSound, Below
  <2>5. ASSUME NEW i \in Completions, NEW j \in Completions PROVE i = j
    <3>1. i \in Waiting /\ j \in Waiting
      BY <2>1
    <3>2. i \in Int /\ j \in Int
      BY <1>0, <3>1 DEF Waiting, Shapes
    <3>3. ~(i < j) /\ ~(j < i)
      <4>1. \A a, b \in Waiting : a < b =>
              kernel.delivered_events[a].id < kernel.delivered_events[b].id
        BY <1>0 DEF NumbersSound
      <4> QED BY <2>3, <2>4, <3>1, <4>1
    <3> QED BY <3>2, <3>3
  <2>6. PICK i : Completions \subseteq {i}
    BY <2>5
  <2>7. i \in Completions => kernel.delivered_events[i].payload.quantity = Remaining(state)
    BY <2>1, <2>2, <2>3
  <2>8. Remaining(state) \in Nat /\ Remaining(state) = ParentQuantity - Booked(state)
    BY <1>0, <2>1 DEF Remaining
  <2>9. FallbackLots \in Int /\ FallbackLots <= Remaining(state)
    BY <2>6, <2>7, <2>8, OneCompletion
  <2> QED BY <1>2, <2>8, <2>9 DEF Idle
<1>3. CASE state.terminal_applied
  <2>1. PICK i : /\ i \in DOMAIN kernel.delivered_events /\ Completions = {i}
                 /\ kernel.delivered_events[i].payload.quantity = ParentQuantity - Booked(state)
    BY <1>0, <1>3 DEF LedgerSound
  <2>2. ParentQuantity - Booked(state) \in Nat
    <3>1. /\ DOMAIN kernel.delivered_events = 1..Len(kernel.delivered_events)
          /\ kernel.delivered_events[i].payload.kind = "TerminalCompletion"
      BY <1>0, <2>1, ListedAppend DEF Shapes, Listed, Completions
    <3>2. kernel.delivered_events[i].payload \in Replies \cup Completed
      BY <1>0, <2>1, <3>1 DEF Shapes
    <3>3. kernel.delivered_events[i].payload \in Completed
      BY <3>1, <3>2 DEF Replies, Acks, Rejections, CancelAcks, FillEvents, ReplaceAcks
    <3> QED BY <2>1, <3>3 DEF Completed
  <2>3. FallbackLots \in Int /\ FallbackLots <= ParentQuantity - Booked(state)
    BY <2>1, <2>2, OneCompletion
  <2> QED BY <1>3, <2>3 DEF Idle
<1> QED BY <1>1, <1>2, <1>3 DEF Idle

LEMMA ParentNeverOverfilled ==
  ASSUME JInv, IInv, OneChild
  PROVE  NeverOverfilled
<1>1. ParentQuantity \in Nat /\ Booked(state) \in Int /\ FallbackLots \in Int
  BY StateAssumption, BookedParts, FallbackFits
<1>2. CASE Idle
  BY <1>1, <1>2, IdleTraded, FallbackFits DEF NeverOverfilled
<1>3. CASE ~Idle
  <2>1. Over
    BY <1>3, IdleOrOver DEF JInv
  <2> QED BY <1>1, <1>3, <2>1, OverTraded, FallbackFits DEF NeverOverfilled
<1> QED BY <1>2, <1>3

\* A command of the loop's own is the only one, about a child that is engaged.
LEMMA OwnCommand ==
  ASSUME JInv, IInv, OneChild, NEW task \in OwnCommands
  PROVE  LET p == task.event.payload
         IN  /\ p.client \in ClientIds /\ Engaged(p.client) /\ SentAbout(p.client) = {task}
             /\ p.kind \in {"Submit", "Cancel"}
             /\ p.kind = "Submit" => /\ state.children[p.client] = NewChild(p.quantity)
                                     /\ p.quantity \in 1..ParentQuantity
<1>1. PICK p, c : p = task.event.payload /\ c = p.client
  OBVIOUS
<1>2. /\ task \in Sent /\ p \in Commands /\ p.kind \in {"Submit", "Cancel", "Replace"}
      /\ c \in ClientIds
  <2>1. task \in Sent /\ p.kind # "Take" /\ TaskSound(task) /\ IsCommand(task)
    BY <1>1 DEF OwnCommands, Sent, IsCommand, IInv, Shapes
  <2>2. p \in Commands
    BY <1>1, <2>1 DEF TaskSound, IsCommand, ExchangeReceive, ExchangeProcess,
                       ObserverAvailable, System
  <2> QED BY <1>1, <2>1, <2>2 DEF Commands, Submits, Cancels, Replaces
<1>3. CommandSound(task)
  BY <1>2 DEF JInv, CommandsSound
<1>4. CASE p.kind = "Submit"
  <2>1. c \in Opens(p)
    BY <1>1, <1>4 DEF Opens
  <2>2. Fresh(c) /\ SentAbout(c) = {task}
    BY <1>1, <1>2, <2>1 DEF IInv, OpeningAlone
  <2>3. state.children[c] = NewChild(p.quantity) /\ p.quantity \in 1..ParentQuantity
    BY <1>1, <1>3, <1>4, <2>1 DEF CommandSound
  <2> QED BY <1>1, <1>2, <1>4, <2>2, <2>3 DEF Fresh, Engaged, Busy
<1>5. CASE p.kind = "Cancel"
  <2>1. state.children[c].cancel_pending /\ Targets(task, c)
    BY <1>1, <1>3, <1>5 DEF CommandSound
  <2> QED BY <1>1, <1>2, <1>5, <2>1 DEF Targets, Engaged, Busy
<1>6. CASE p.kind = "Replace"
  <2>1. state.children[c].replace_pending /\ Targets(task, c)
    BY <1>1, <1>3, <1>6 DEF CommandSound
  <2> QED BY <1>2, <2>1 DEF Targets, OneChild, NoReplacement
<1> QED BY <1>2, <1>4, <1>5, <1>6

LEMMA DecisionsOneByOne ==
  ASSUME JInv, IInv, OneChild
  PROVE  OneDecisionInFlight
<1>1. ASSUME NEW t \in OwnCommands, NEW u \in OwnCommands PROVE t = u
  <2>1. /\ t.event.payload.client \in ClientIds /\ Engaged(t.event.payload.client)
        /\ SentAbout(t.event.payload.client) = {t}
    BY OwnCommand
  <2>2. /\ u.event.payload.client \in ClientIds /\ Engaged(u.event.payload.client)
        /\ SentAbout(u.event.payload.client) = {u}
    BY OwnCommand
  <2>3. t.event.payload.client = u.event.payload.client
    BY <2>1, <2>2 DEF OneChild, Alone
  <2> QED BY <2>1, <2>2, <2>3
<1>2. Cardinality(OwnCommands) <= 1
  <2>1. CASE OwnCommands = {}
    BY <2>1, FS_EmptySet
  <2>2. CASE OwnCommands # {}
    <3>1. PICK t : t \in OwnCommands
      BY <2>2
    <3>2. OwnCommands = {t}
      BY <1>1, <3>1
    <3>3. Cardinality(OwnCommands) = 1
      BY <3>2, FS_Singleton
    <3> QED BY <3>3
  <2> QED BY <2>1, <2>2
<1>3. Cardinality(OwnCommands) <= maximum_commands_per_decision
  <2>1. Cardinality(OwnCommands) \in Int
    <3>1. IsFiniteSet(OwnCommands)
      <4>1. CASE OwnCommands = {}
        BY <4>1, FS_EmptySet
      <4>2. ASSUME NEW t \in OwnCommands PROVE IsFiniteSet(OwnCommands)
        <5>1. OwnCommands = {t}
          BY <1>1, <4>2
        <5> QED BY <5>1, FS_Singleton
      <4> QED BY <4>1, <4>2
    <3> QED BY <3>1, FS_CardinalityType
  <2> QED BY <1>2, <2>1, SystemAssumption
<1> QED BY <1>1, <1>3 DEF OneDecisionInFlight

LEMMA CompletedIsFlat ==
  ASSUME JInv, IInv, OneChild
  PROVE  CompletedMeansFlat
<1>1. SUFFICES ASSUME parent_status(state, clock) = "Completed"
               PROVE  Live = {} /\ \A task \in OwnCommands : task.event.payload.kind = "Cancel"
  BY DEF CompletedMeansFlat
<1>2. Remaining(state) = 0
  BY <1>1 DEF parent_status
<1>3. CASE ~Idle
  <2>1. Over
    BY <1>3, IdleOrOver DEF JInv
  <2>2. OwnCommands = {}
    BY <2>1 DEF Over, OwnCommands, Sent, IsCommand
  <2> QED BY <2>1, <2>2 DEF Over
<1>4. CASE Idle
  <2>1. \A c \in ClientIds : Engaged(c) => state.children[c].requested - state.children[c].cum <= 0
    BY <1>2, <1>4 DEF OneChild, FitsParent, Idle
  <2>2. ASSUME NEW c \in Live PROVE FALSE
    <3>1. PICK k, o : k = state.children[c] /\ o = exchange.orders[c]
      OBVIOUS
    <3>2. /\ c \in ClientIds /\ Has(c) /\ o.state \in Open
          /\ Knows(c) /\ k.state \in {"PendingNew"} \cup ActiveStates
      BY <3>1 DEF Live, Has, Open, IInv, NoForgottenOrder, Knows
    <3>3. k.requested - k.cum <= 0
      BY <2>1, <3>1, <3>2 DEF Engaged, Busy
    <3>4. /\ k \in Child /\ o.cum \in Nat /\ o.quantity \in Nat /\ k.requested = o.quantity
          /\ k.cum <= o.cum /\ o.cum < o.quantity
      BY <3>1, <3>2, OrderBooked
    <3>5. k.cum \in Nat
      BY <3>4 DEF Child
    <3> QED BY <3>3, <3>4, <3>5
  <2>3. ASSUME NEW task \in OwnCommands PROVE task.event.payload.kind = "Cancel"
    <3>1. PICK p, c : p = task.event.payload /\ c = p.client
      OBVIOUS
    <3>2. /\ c \in ClientIds /\ Engaged(c) /\ p.kind \in {"Submit", "Cancel"}
          /\ p.kind = "Submit" => /\ state.children[c] = NewChild(p.quantity)
                                  /\ p.quantity \in 1..ParentQuantity
      BY <3>1, OwnCommand
    <3>3. p.kind # "Submit"
      <4>1. ASSUME p.kind = "Submit" PROVE FALSE
        <5>1. NewChild(p.quantity).requested - NewChild(p.quantity).cum <= 0
          BY <2>1, <3>2, <4>1
        <5>2. p.quantity - 0 <= 0 /\ p.quantity \in 1..ParentQuantity /\ ParentQuantity \in Nat
          BY <3>2, <4>1, <5>1, StateAssumption DEF NewChild
        <5> QED BY <5>2
      <4> QED BY <4>1
    <3> QED BY <3>1, <3>2, <3>3
  <2> QED BY <2>2, <2>3
<1> QED BY <1>3, <1>4

\* The shape of what the loop, the planner and the execution state keep.
LEMMA ShapeKept ==
  ASSUME JInv, IInv, OneChild
  PROVE  TypeOK
<1>0. Shapes /\ StateShape(state) /\ ClockSound
  BY DEF IInv, JInv, Shapes
<1>1. ASSUME NEW c \in Known(state)
      PROVE  LET child == state.children[c]
             IN  /\ child.requested \in 1..ParentQuantity
                 /\ child.cum \in 0..child.requested
                 /\ child.leaves \in 0..child.requested
                 /\ child.state \in {"PendingNew"} \cup ActiveStates \cup Terminals
  <2>1. PICK k, o : k = state.children[c] /\ o = exchange.orders[c]
    OBVIOUS
  <2>2. c \in ClientIds /\ Knows(c) /\ k \in Child
    BY <1>0, <2>1 DEF Known, Knows, knows_client_order_id, StateShape
  <2>3. ChildSound(c)
    BY <2>2 DEF JInv, ChildrenSound
  <2>4. /\ k.requested \in 1..ParentQuantity /\ k.requested \in Nat /\ k.cum \in Nat
        /\ k.leaves \in Nat /\ k.state \in {"PendingNew"} \cup ActiveStates \cup Terminals
    BY <2>1, <2>2, <2>3 DEF ChildSound, Child
  <2>5. k.cum <= k.requested /\ k.leaves <= k.requested
    <3>1. CASE ~Has(c)
      <4>1. k.cum = 0 /\ k.leaves <= k.requested
        BY <2>1, <2>3, <3>1 DEF ChildSound, Untraded
      <4> QED BY <2>4, <4>1
    <3>2. CASE Has(c)
      <4>1. /\ o.cum \in Nat /\ o.quantity \in Nat /\ k.requested = o.quantity
            /\ k.cum <= o.cum /\ o.cum <= o.quantity
        BY <2>1, <2>2, <3>2, OrderBooked
      <4>2. Tracks(c, k, o, About(Awaited, c))
        BY <2>1, <2>3, <3>2 DEF ChildSound
      <4>3. CASE k = NewChild(o.quantity)
        BY <2>4, <4>1, <4>3 DEF NewChild
      <4>4. CASE FollowsOrder(k, o)
        BY <2>4, <4>1, <4>4 DEF FollowsOrder
      <4>5. CASE k.leaves = 0
        BY <2>4, <4>1, <4>5
      <4> QED BY <4>2, <4>3, <4>4, <4>5 DEF Tracks
    <3> QED BY <3>1, <3>2
  <2> QED BY <2>1, <2>4, <2>5
<1>2. ASSUME NEW task \in kernel.queue
      PROVE  /\ task.time \in Time
             /\ task.stage \in {ExchangeReceive, ExchangeProcess, ObserverAvailable, System}
  BY <1>0 DEF ClockSound, Shapes, TaskSound, IsCommand
<1>3. attempts \in 0..maximum_aggressive_attempts /\ takes \in 0..MaxTakes
  BY DEF OneChild, Counters
<1>4. clock \in Time /\ state.filled \in 0..ParentQuantity
  BY <1>0 DEF ClockSound, StateShape
<1>5. cursor \in 0..Len(kernel.delivered_events) /\ routed \in 0..Len(kernel.failures)
  BY <1>0 DEF Shapes
<1> QED BY <1>1, <1>2, <1>3, <1>4, <1>5 DEF TypeOK

\* With one live child, replies that take a fixed time and no replacements, and
\* whatever the latency of commands, the sizes of orders, the failures and the
\* market: the execution state books every fill once and drops none, so that once
\* nothing is in flight it has filled exactly what its orders traded and the
\* fallback completed (apply_delivered_event in policy/state.cpp).
THEOREM LedgerStaysExact ==
  ASSUME OneAtATime
  PROVE  Spec /\ [](~kernel.thrown) => []LedgerExact
<1>1. IInv /\ JInv /\ OneChild => LedgerExact
  BY SettledExact DEF OneChild
<1> QED BY <1>1, AloneThroughout, SystemInvariance, PTL

\* Under the same conditions no fill is refused, and the state agrees with the
\* exchange about every child once nothing about it is in flight (policy/state.cpp,
\* simulation/kernel_exchange.cpp).
THEOREM OneChildTracked ==
  ASSUME OneAtATime
  PROVE  Spec /\ [](~kernel.thrown) => []ChildrenTracked
<1>1. IInv /\ JInv /\ OneChild => ChildrenTracked
  BY SettledExact, ShapeKept DEF ChildrenTracked, FillsNeverRefused, OneChild
<1> QED BY <1>1, AloneThroughout, SystemInvariance, PTL

\* Under the same conditions the parent order bounds what is traded for it: its
\* children and the completion at the fallback price never exceed it, also with
\* fills in flight that neither the strategy nor the terminal planner can see, a
\* completed parent has no order that can still trade, and one decision is in
\* flight at a time (policy/action.cpp, policy/terminal.cpp).
THEOREM ParentBounds ==
  ASSUME OneAtATime
  PROVE  Spec /\ [](~kernel.thrown) => []ParentRespected
<1>1. IInv /\ JInv /\ OneChild => ParentRespected
  BY ParentNeverOverfilled, CompletedIsFlat, DecisionsOneByOne DEF ParentRespected
<1> QED BY <1>1, AloneThroughout, SystemInvariance, PTL
===============================================================================
