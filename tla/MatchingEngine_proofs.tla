------------------------ MODULE MatchingEngine_proofs ------------------------
(***************************************************************************)
(* Theorems about MatchingEngine and their proofs.                         *)
(***************************************************************************)
EXTENDS MatchingEngine, SumTheorems, SequenceTheorems, TLAPS

(***************************************************************************)
(* The inductive invariant.  Sums over a queue do not occur in it.         *)
(***************************************************************************)

\* An order that may trade: its lots are either traded or still there.
Open(o) ==
  /\ o.state \in RestingStates
  /\ o.leaves > 0
  /\ o.cum + o.leaves = o.quantity
  /\ o.state = "PartiallyFilled" <=> o.cum > 0

\* An order that will never trade again.
Closed(o) ==
  /\ o.leaves = 0
  /\ \/ o.state = "Filled" /\ o.cum = o.quantity
     \/ o.state \in {"Cancelled", "Replaced"} /\ o.cum < o.quantity

\* What the node of an active order, the history and the client indices say
\* about it is the same.
ActiveSound ==
  \A x \in Active :
    LET o == active_by_exchange[x]
    IN  /\ o.id = x /\ o.price \in Prices /\ o.tif = "GTC"
        /\ Open(o)
        /\ orders_by_exchange[x] = o
        /\ active_by_client[o.client] = x

\* Every active order waits in the queue that its side and price name.
Located ==
  \A x \in Active :
    \E i \in 1..Len(queue[active_by_exchange[x].side][active_by_exchange[x].price]) :
      queue[active_by_exchange[x].side][active_by_exchange[x].price][i] = x

ClientsSound ==
  \A c \in ClientIds :
    /\ active_by_client[c] # NoId =>
         /\ active_by_client[c] \in Active
         /\ active_by_exchange[active_by_client[c]].client = c
    /\ c \in all_client_ids <=> exchange_by_client[c] # NoId
    /\ exchange_by_client[c] # NoId =>
         /\ orders_by_exchange[exchange_by_client[c]] # NoOrder
         /\ orders_by_exchange[exchange_by_client[c]].client = c

HistorySound ==
  \A x \in Ids :
    LET o == orders_by_exchange[x]
    IN  o # NoOrder => /\ o.id = x
                       /\ exchange_by_client[o.client] = x
                       /\ Open(o) \/ Closed(o)

\* The counters are ahead of every identifier in use.
Fresh ==
  \A x \in Ids : orders_by_exchange[x] # NoOrder =>
    /\ next_exchange_order_id # NoId => x < next_exchange_order_id
    /\ next_priority_sequence # NoId =>
         orders_by_exchange[x].priority < next_priority_sequence

\* The order being matched is in the history but not in the book, is younger
\* than every order in the book, and has lost no lots.
IncomingSound ==
  incoming # NoOrder =>
    LET o == incoming
    IN  /\ o.id \notin Active
        /\ orders_by_exchange[o.id] # NoOrder
        /\ orders_by_exchange[o.id].client = o.client
        /\ orders_by_exchange[o.id].priority = o.priority
        /\ orders_by_exchange[o.id].state \notin TerminalStates
        /\ exchange_by_client[o.client] = o.id
        /\ active_by_client[o.client] = NoId
        /\ o.cum + o.leaves = o.quantity
        /\ MayRest(o) => o.price \in Prices
        /\ o.postOnly => ~would_cross(o.side, o.price)
        /\ \A x \in Active : active_by_exchange[x].priority < o.priority

IInv ==
  /\ TypeOK
  /\ ActiveSound
  /\ LevelsFifo
  /\ Located
  /\ ClientsSound
  /\ HistorySound
  /\ Fresh
  /\ IncomingSound
  /\ BookUncrossed

-----------------------------------------------------------------------------
(***************************************************************************)
(* Orders.                                                                 *)
(***************************************************************************)

\* The fields of an order record have the types of the C++ members.
LEMMA OrderFields ==
  ASSUME NEW o \in OrderView
  PROVE  /\ o.id \in Ids /\ o.client \in ClientIds /\ o.side \in Sides
         /\ o.type \in Types /\ o.tif \in TimesInForce
         /\ o.quantity \in 1..QuantityLimit
         /\ o.cum \in 0..QuantityLimit /\ o.leaves \in 0..QuantityLimit
         /\ o.price \in Prices \cup {NoPrice} /\ o.postOnly \in BOOLEAN
         /\ o.state \in RestingStates \cup TerminalStates
         /\ o.priority \in Ids
         /\ o # NoOrder
BY EngineAssumption DEF OrderView

\* What the proofs use of the assumption on the constants.
LEMMA Constants ==
  /\ Prices \subseteq Nat \ {0}
  /\ QuantityLimit \in Nat \ {0}
  /\ CommandQuantities \subseteq 0..QuantityLimit
  /\ MinQuantity \in 1..QuantityLimit
  /\ IdLimit \in Nat \ {0}
  /\ Submits \subseteq SubmitCommand
  /\ NoOrder \notin OrderView /\ NoOrder \notin AggressorView
BY EngineAssumption DEF EngineAssumption

\* A fill moves lots from leaves to cum and touches nothing else but the state.
LEMMA AfterFillFields ==
  ASSUME NEW o \in OrderView, NEW q \in 0..o.leaves,
         o.cum + o.leaves = o.quantity
  PROVE  /\ AfterFill(o, q) \in OrderView
         /\ AfterFill(o, q).id = o.id
         /\ AfterFill(o, q).client = o.client
         /\ AfterFill(o, q).side = o.side
         /\ AfterFill(o, q).type = o.type
         /\ AfterFill(o, q).tif = o.tif
         /\ AfterFill(o, q).quantity = o.quantity
         /\ AfterFill(o, q).price = o.price
         /\ AfterFill(o, q).postOnly = o.postOnly
         /\ AfterFill(o, q).priority = o.priority
         /\ AfterFill(o, q).leaves = o.leaves - q
         /\ AfterFill(o, q).cum = o.cum + q
         /\ AfterFill(o, q).state =
              IF o.leaves = q THEN "Filled" ELSE "PartiallyFilled"
<1> DEFINE f == AfterFill(o, q)
<1>1. f.cum \in 0..QuantityLimit /\ f.leaves \in 0..QuantityLimit
  BY Constants DEF OrderView, AfterFill
<1>2. f.state \in RestingStates \cup TerminalStates
  BY DEF OrderView, AfterFill, RestingStates, TerminalStates
<1>3. f = [o EXCEPT !.leaves = f.leaves, !.cum = f.cum, !.state = f.state]
  BY DEF OrderView, AfterFill
<1>4. f \in OrderView
  <2> HIDE DEF f
  <2> QED BY <1>1, <1>2, <1>3 DEF OrderView
<1>5. QED BY <1>4 DEF OrderView, AfterFill

\* Ending an order changes only its leaves and its state.
LEMMA TerminatedFields ==
  ASSUME NEW x \in Ids, active_by_exchange[x] \in OrderView,
         NEW s \in TerminalStates
  PROVE  LET o == active_by_exchange[x]
             t == Terminated(x, s)
         IN  /\ t \in OrderView
             /\ t.id = o.id /\ t.client = o.client
             /\ t.quantity = o.quantity /\ t.cum = o.cum
             /\ t.priority = o.priority /\ t.leaves = 0 /\ t.state = s
<1>1. 0 \in 0..QuantityLimit /\ s \in RestingStates \cup TerminalStates
  BY Constants
<1>2. QED BY <1>1 DEF OrderView, Terminated

-----------------------------------------------------------------------------
(***************************************************************************)
(* Queues.                                                                 *)
(***************************************************************************)

\* t is s without its element at position i.
Without(t, s, i) ==
  /\ t \in Seq(Ids)
  /\ Len(t) = Len(s) - 1
  /\ \A j \in 1..Len(t) : t[j] = IF j < i THEN s[j] ELSE s[j + 1]

\* The two ways an order leaves a queue: from the middle and from the front.
LEMMA RemoveAtIsWithout ==
  ASSUME NEW s \in Seq(Ids), NEW i \in 1..Len(s)
  PROVE  Without(RemoveAt(s, i), s, i)
<1> DEFINE a == SubSeq(s, 1, i - 1)
           b == SubSeq(s, i + 1, Len(s))
<1>1. Len(s) \in Nat /\ \A j \in 1..Len(s) : s[j] \in Ids
  BY LenProperties, ElementOfSeq
<1>2. /\ a \in Seq(Ids) /\ Len(a) = i - 1
      /\ \A j \in 1..i - 1 : a[j] = s[j]
  BY <1>1, SubSeqProperties, Z3
<1>3. /\ b \in Seq(Ids) /\ Len(b) = Len(s) - i
      /\ \A j \in 1..Len(s) - i : b[j] = s[i + j]
  BY <1>1, SubSeqProperties, Z3
<1>4. /\ a \o b \in Seq(Ids) /\ Len(a \o b) = Len(a) + Len(b)
      /\ \A j \in 1..Len(a) + Len(b) :
           (a \o b)[j] = IF j <= Len(a) THEN a[j] ELSE b[j - Len(a)]
  BY <1>2, <1>3, ConcatProperties
<1>5. RemoveAt(s, i) = a \o b
  BY DEF RemoveAt
<1> HIDE DEF a, b
<1>6. Len(a \o b) = Len(s) - 1
  BY <1>1, <1>2, <1>3, <1>4
<1>7. ASSUME NEW j \in 1..Len(a \o b)
      PROVE  (a \o b)[j] = IF j < i THEN s[j] ELSE s[j + 1]
  <2>1. CASE j < i
    BY <2>1, <1>1, <1>2, <1>3, <1>4
  <2>2. CASE ~(j < i)
    <3>1. j - (i - 1) \in 1..Len(s) - i /\ i + (j - (i - 1)) = j + 1
      BY <2>2, <1>1, <1>6
    <3>2. QED BY <3>1, <2>2, <1>1, <1>2, <1>3, <1>4
  <2>3. QED BY <2>1, <2>2
<1>8. QED BY <1>4, <1>5, <1>6, <1>7 DEF Without

LEMMA TailIsWithout ==
  ASSUME NEW s \in Seq(Ids), s # <<>>
  PROVE  Without(Tail(s), s, 1)
<1>1. Len(s) \in Nat \ {0}
  BY EmptySeq
<1>2. QED BY <1>1, HeadTailProperties DEF Without

\* Active orders are order records, and so is every order of a queue.
LEMMA QueuedIsActive ==
  ASSUME TypeOK, LevelsFifo, NEW s \in Sides, NEW p \in Prices,
         NEW i \in 1..Len(queue[s][p])
  PROVE  /\ queue[s][p] \in Seq(Ids) /\ Len(queue[s][p]) \in Nat
         /\ queue[s][p][i] \in Active
         /\ active_by_exchange[queue[s][p][i]] \in OrderView
         /\ active_by_exchange[queue[s][p][i]].side = s
         /\ active_by_exchange[queue[s][p][i]].price = p
<1>1. queue[s][p] \in Seq(Ids)
  BY DEF TypeOK
<1>2. Len(queue[s][p]) \in Nat /\ queue[s][p][i] \in Ids
  BY <1>1, ElementOfSeq, LenProperties
<1>3. QED BY <1>1, <1>2 DEF TypeOK, LevelsFifo, Active

LEMMA ActiveIsOrder ==
  ASSUME TypeOK, NEW x \in Active
  PROVE  x \in Ids /\ active_by_exchange[x] \in OrderView
BY DEF TypeOK, Active

\* An order waits in one place only.
LEMMA OnePlace ==
  ASSUME TypeOK, LevelsFifo, NEW s \in Sides, NEW p \in Prices,
         NEW i \in 1..Len(queue[s][p]),
         NEW s2 \in Sides, NEW p2 \in Prices,
         NEW i2 \in 1..Len(queue[s2][p2]),
         queue[s][p][i] = queue[s2][p2][i2]
  PROVE  s2 = s /\ p2 = p /\ i2 = i
<1> DEFINE x == queue[s][p][i]
<1>1. s2 = s /\ p2 = p
  BY QueuedIsActive
<1>2. Len(queue[s][p]) \in Nat /\ active_by_exchange[x].priority \in Ids
  BY QueuedIsActive, OrderFields
<1>3. CASE i < i2
  BY <1>1, <1>2, <1>3 DEF LevelsFifo, Ids
<1>4. CASE i2 < i
  BY <1>1, <1>2, <1>4 DEF LevelsFifo, Ids
<1>5. QED BY <1>1, <1>2, <1>3, <1>4

\* Taking one order out of its queue, and out of the indices, leaves a sound book.
LEMMA Detach ==
  ASSUME TypeOK, ActiveSound, LevelsFifo, Located,
         NEW side \in Sides, NEW p \in Prices,
         NEW i \in 1..Len(queue[side][p]), NEW t,
         Without(t, queue[side][p], i),
         queue' = [queue EXCEPT ![side][p] = t],
         levels' = ErasedLevels(side, p),
         active_by_exchange' =
           [active_by_exchange EXCEPT ![queue[side][p][i]] = NoOrder]
  PROVE  /\ queue' \in [Sides -> [Prices -> Seq(Ids)]]
         /\ levels' \in [Sides -> SUBSET Prices]
         /\ \A s \in Sides : levels'[s] \subseteq levels[s]
         /\ LevelsFifo' /\ Located'
<1> DEFINE x == queue[side][p][i]
           old == queue[side][p]
<1>1. x \in Ids /\ old \in Seq(Ids) /\ Len(old) \in Nat
  BY QueuedIsActive DEF Active
<1>2. queue' \in [Sides -> [Prices -> Seq(Ids)]]
  BY DEF TypeOK, Without
<1>3. levels' \in [Sides -> SUBSET Prices] /\ \A s \in Sides : levels'[s] \subseteq levels[s]
  BY DEF TypeOK, ErasedLevels
<1>4. \A s \in Sides : \A q \in Prices :
        queue'[s][q] = IF s = side /\ q = p THEN t ELSE queue[s][q]
  BY DEF TypeOK
<1>5. \A y \in Ids : active_by_exchange'[y] =
        IF y = x THEN NoOrder ELSE active_by_exchange[y]
  BY <1>1 DEF TypeOK
<1>6. ASSUME NEW s \in Sides, NEW q \in Prices, NEW j \in 1..Len(queue'[s][q])
      PROVE  \E k \in 1..Len(queue[s][q]) :
               /\ queue'[s][q][j] = queue[s][q][k]
               /\ queue[s][q][k] \in Active
               /\ queue[s][q][k] # x
               /\ k = IF s = side /\ q = p /\ j >= i THEN j + 1 ELSE j
  <2>1. CASE s = side /\ q = p
    <3> DEFINE k == IF j >= i THEN j + 1 ELSE j
    <3>1. Len(t) = Len(old) - 1 /\ j \in 1..Len(t)
      BY <2>1, <1>4, <1>6 DEF Without
    <3>2. k \in 1..Len(old) /\ k # i /\ t[j] = old[k]
      BY <3>1, <1>1 DEF Without
    <3>3. QED BY <2>1, <3>2, <1>4, OnePlace, QueuedIsActive
  <2>2. CASE ~(s = side /\ q = p)
    <3>1. queue'[s][q] = queue[s][q]
      BY <2>2, <1>4
    <3>2. j \in 1..Len(queue[s][q])
      BY <3>1
    <3>3. queue[s][q][j] # x
      BY <2>2, <3>2, OnePlace
    <3>4. QED BY <2>2, <3>1, <3>2, <3>3, QueuedIsActive
  <2>3. QED BY <2>1, <2>2
<1>7. ASSUME NEW s \in Sides, NEW q \in Prices
      PROVE  q \in levels'[s] <=> queue'[s][q] # <<>>
  <2>0. q \in levels[s] <=> queue[s][q] # <<>>
    BY DEF LevelsFifo
  <2>1. CASE s = side /\ q = p
    <3>1. q \in levels[s]
      BY <2>1, <2>0, <1>1, EmptySeq
    <3>a. t \in Seq(Ids) /\ Len(t) = Len(old) - 1
      BY DEF Without
    <3>b. t # <<>> <=> Len(t) # 0
      BY <3>a, EmptySeq
    <3>2. t # <<>> <=> Len(old) # 1
      BY <3>a, <3>b, <1>1
    <3>3. q \in levels'[s] <=> Len(old) # 1
      BY <2>1, <3>1 DEF ErasedLevels, TypeOK
    <3>4. QED BY <2>1, <3>2, <3>3, <1>4
  <2>2. CASE ~(s = side /\ q = p)
    <3>1. q \in levels'[s] <=> q \in levels[s]
      BY <2>2 DEF ErasedLevels, TypeOK
    <3>2. QED BY <2>2, <3>1, <2>0, <1>4
  <2>3. QED BY <2>1, <2>2
<1>8. LevelsFifo'
  <2>1. ASSUME NEW s \in Sides, NEW q \in Prices, NEW j \in 1..Len(queue'[s][q])
        PROVE  LET order == active_by_exchange'[queue'[s][q][j]]
               IN  /\ order # NoOrder
                   /\ order.side = s /\ order.price = q
                   /\ order.leaves > 0 /\ order.state \in RestingStates
    <3>1. PICK k \in 1..Len(queue[s][q]) :
            /\ queue'[s][q][j] = queue[s][q][k]
            /\ queue[s][q][k] \in Active
            /\ queue[s][q][k] # x
            /\ k = IF s = side /\ q = p /\ j >= i THEN j + 1 ELSE j
      BY <1>6
    <3>2. active_by_exchange'[queue'[s][q][j]] = active_by_exchange[queue[s][q][k]]
      BY <3>1, <1>5 DEF Active
    <3>3. QED
      BY <3>1, <3>2, SMTT(30) DEF LevelsFifo
  <2>2. ASSUME NEW s \in Sides, NEW q \in Prices,
               NEW j \in 1..Len(queue'[s][q]), NEW j2 \in 1..Len(queue'[s][q]), j < j2
        PROVE  active_by_exchange'[queue'[s][q][j]].priority
                 < active_by_exchange'[queue'[s][q][j2]].priority
    <3>1. PICK k \in 1..Len(queue[s][q]) :
            /\ queue'[s][q][j] = queue[s][q][k]
            /\ queue[s][q][k] \in Active
            /\ queue[s][q][k] # x
            /\ k = IF s = side /\ q = p /\ j >= i THEN j + 1 ELSE j
      BY <1>6
    <3>2. PICK k2 \in 1..Len(queue[s][q]) :
            /\ queue'[s][q][j2] = queue[s][q][k2]
            /\ queue[s][q][k2] \in Active
            /\ queue[s][q][k2] # x
            /\ k2 = IF s = side /\ q = p /\ j2 >= i THEN j2 + 1 ELSE j2
      BY <1>6
    <3>3. k < k2
      BY <2>2, <3>1, <3>2
    <3>4. QED BY <3>1, <3>2, <3>3, <1>5 DEF LevelsFifo, Active
  <2>3. QED BY <1>7, <2>1, <2>2 DEF LevelsFifo
<1>9. Located'
  <2> SUFFICES ASSUME NEW y \in Active'
               PROVE  LET o == active_by_exchange'[y]
                      IN  \E j \in 1..Len(queue'[o.side][o.price]) :
                            queue'[o.side][o.price][j] = y
    BY DEF Located
  <2> DEFINE s == active_by_exchange[y].side
             q == active_by_exchange[y].price
  <2>1. y \in Active /\ y # x /\ active_by_exchange'[y] = active_by_exchange[y]
    BY <1>5 DEF Active
  <2>2. PICK k \in 1..Len(queue[s][q]) : queue[s][q][k] = y
    BY <2>1 DEF Located
  <2>3. s \in Sides
    BY <2>1, ActiveIsOrder, OrderFields
  <2>4. q \in Prices
    BY <2>1 DEF ActiveSound
  <2>5. \E j \in 1..Len(queue'[s][q]) : queue'[s][q][j] = y
    <3>1. CASE s = side /\ q = p
      <4> DEFINE j == IF k < i THEN k ELSE k - 1
      <4>1. k # i
        BY <3>1, <2>1, <2>2
      <4>2. j \in 1..Len(t) /\ t[j] = old[k]
        <5>1. k \in 1..Len(old) /\ k \in Nat /\ i \in 1..Len(old)
          BY <3>1, <1>1
        <5>2. j \in 1..Len(old) - 1
          BY <5>1, <4>1, <1>1
        <5>3. t[j] = IF j < i THEN old[j] ELSE old[j + 1]
          BY <5>2 DEF Without
        <5>4. Len(t) = Len(old) - 1
          BY DEF Without
        <5>5. CASE k < i
          BY <5>2, <5>3, <5>4, <5>5
        <5>6. CASE ~(k < i)
          <6>1. j = k - 1 /\ ~(j < i) /\ j + 1 = k
            BY <5>1, <5>6, <4>1, <1>1
          <6>2. QED BY <6>1, <5>2, <5>3, <5>4
        <5>7. QED BY <5>5, <5>6
      <4>3. QED BY <4>2, <3>1, <2>2, <1>4
    <3>2. CASE ~(s = side /\ q = p)
      BY <3>2, <2>2, <2>3, <2>4, <1>4
    <3>3. QED BY <3>1, <3>2
  <2>6. QED BY <2>1, <2>5
<1>10. QED BY <1>2, <1>3, <1>8, <1>9

-----------------------------------------------------------------------------
(***************************************************************************)
(* Identifiers and accepted commands.                                      *)
(***************************************************************************)

\* A counter that is not exhausted moves up, or to NoId.
LEMMA AllocateMoves ==
  ASSUME NEW n \in Ids \cup {NoId}
  PROVE  /\ Allocate(n) \in Ids \cup {NoId}
         /\ n # NoId /\ Allocate(n) # NoId => Allocate(n) = n + 1
BY Constants DEF Allocate, Ids, NoId

\* What the commands that reach Accept have passed.
AcceptableOrder(o) ==
  /\ o \in OrderView
  /\ o.id = next_exchange_order_id /\ o.priority = next_priority_sequence
  /\ o.id \in Ids /\ o.priority \in Ids
  /\ o.client \notin all_client_ids
  /\ o.cum = 0 /\ o.leaves = o.quantity /\ o.leaves > 0 /\ o.state = "Live"
  /\ MayRest(o) => o.price \in Prices

LEMMA NewOrderParts ==
  ASSUME TypeOK, HasIdentifierCapacity,
         NEW n \in CommandQuantities, validate_quantity(n) = "Accepted"
  PROVE  /\ next_exchange_order_id \in Ids /\ next_priority_sequence \in Ids
         /\ n \in 1..QuantityLimit /\ n \in 0..QuantityLimit /\ n > 0
         /\ 0 \in 0..QuantityLimit
         /\ "Live" \in RestingStates \cup TerminalStates
<1>1. next_exchange_order_id \in Ids /\ next_priority_sequence \in Ids
  BY DEF HasIdentifierCapacity, has_capacity, TypeOK, Counters
<1>2. n \in 1..QuantityLimit /\ n \in 0..QuantityLimit /\ 0 \in 0..QuantityLimit /\ n > 0
  BY Constants DEF validate_quantity
<1>3. "Live" \in RestingStates \cup TerminalStates
  BY DEF RestingStates
<1>4. QED BY <1>1, <1>2, <1>3

LEMMA SubmitAccepted ==
  ASSUME TypeOK, NEW cmd \in Submits, SubmitOutcome(cmd) = "Accepted"
  PROVE  LET o == NewOrder(cmd.client, cmd.side, cmd.type, cmd.tif,
                           cmd.quantity, cmd.price, cmd.postOnly)
         IN  /\ AcceptableOrder(o)
             /\ o.client = cmd.client
             /\ o.postOnly => ~would_cross(o.side, o.price)
<1>1. cmd \in SubmitCommand
  BY Constants
<1>2. /\ cmd.client \in ClientIds /\ cmd.side \in Sides /\ cmd.type \in Types
      /\ cmd.tif \in TimesInForce /\ cmd.quantity \in CommandQuantities
      /\ cmd.price \in Prices \cup {NoPrice} /\ cmd.postOnly \in BOOLEAN
  BY <1>1 DEF SubmitCommand
<1>3. validate_submit(cmd) = "Accepted" /\ HasIdentifierCapacity
      /\ ~(cmd.postOnly /\ would_cross(cmd.side, cmd.price))
  BY DEF SubmitOutcome
<1>4. /\ cmd.client \notin all_client_ids
      /\ validate_quantity(cmd.quantity) = "Accepted"
      /\ validate_terms(cmd) = "Accepted"
  BY <1>3 DEF validate_submit
<1>5. cmd.type = "Limit" => cmd.price # NoPrice
  BY <1>4 DEF validate_terms
<1> DEFINE o == NewOrder(cmd.client, cmd.side, cmd.type, cmd.tif,
                         cmd.quantity, cmd.price, cmd.postOnly)
<1>a. /\ next_exchange_order_id \in Ids /\ next_priority_sequence \in Ids
      /\ cmd.quantity \in 1..QuantityLimit /\ cmd.quantity \in 0..QuantityLimit
      /\ 0 \in 0..QuantityLimit /\ cmd.quantity > 0
      /\ "Live" \in RestingStates \cup TerminalStates
  BY <1>2, <1>3, <1>4, NewOrderParts
<1>b. o \in OrderView
  BY <1>2, <1>a DEF NewOrder, OrderView
<1>c. o.client = cmd.client /\ o.side = cmd.side
      /\ o.price = cmd.price /\ (o.postOnly <=> cmd.postOnly)
  BY DEF NewOrder
<1>6. AcceptableOrder(o)
  BY <1>2, <1>4, <1>5, <1>a, <1>b DEF NewOrder, AcceptableOrder, MayRest
<1>7. o.postOnly => ~would_cross(o.side, o.price)
  BY <1>3, <1>c
<1>8. QED BY <1>6, <1>7, <1>c DEF o

LEMMA ReplaceAccepted ==
  ASSUME TypeOK, ActiveSound, NEW cmd \in ReplaceCommand,
         ReplaceOutcome(cmd) = "Accepted"
  PROVE  LET o == NewOrder(cmd.newClient, active_by_exchange[cmd.id].side,
                           "Limit", "GTC", cmd.quantity, cmd.price, FALSE)
         IN  /\ AcceptableOrder(o)
             /\ o.client = cmd.newClient /\ ~o.postOnly
             /\ cmd.id \in Active /\ cmd.newClient # cmd.client
<1>1. /\ cmd.client \in ClientIds /\ cmd.id \in Ids /\ cmd.newClient \in ClientIds
      /\ cmd.quantity \in CommandQuantities /\ cmd.price \in Prices \cup {NoPrice}
  BY DEF ReplaceCommand
<1>2. /\ cmd.newClient # cmd.client
      /\ locate_active(cmd.client, cmd.id) = "Accepted"
      /\ cmd.newClient \notin all_client_ids
      /\ validate_quantity(cmd.quantity) = "Accepted"
      /\ cmd.price # NoPrice
      /\ HasIdentifierCapacity
  BY DEF ReplaceOutcome
<1>3. cmd.id \in Active
  BY <1>1, <1>2 DEF locate_active, Active
<1>4. active_by_exchange[cmd.id].side \in Sides
  BY <1>3, ActiveIsOrder, OrderFields
<1>5. "Limit" \in Types /\ "GTC" \in TimesInForce /\ FALSE \in BOOLEAN
  BY DEF Types, TimesInForce
<1> DEFINE o == NewOrder(cmd.newClient, active_by_exchange[cmd.id].side,
                         "Limit", "GTC", cmd.quantity, cmd.price, FALSE)
<1>a. /\ next_exchange_order_id \in Ids /\ next_priority_sequence \in Ids
      /\ cmd.quantity \in 1..QuantityLimit /\ cmd.quantity \in 0..QuantityLimit
      /\ 0 \in 0..QuantityLimit /\ cmd.quantity > 0
      /\ "Live" \in RestingStates \cup TerminalStates
  BY <1>1, <1>2, NewOrderParts
<1>b. o \in OrderView
  BY <1>1, <1>4, <1>5, <1>a DEF NewOrder, OrderView
<1>c. o.client = cmd.newClient /\ ~o.postOnly
  BY DEF NewOrder
<1>6. AcceptableOrder(o)
  BY <1>1, <1>2, <1>a, <1>b DEF NewOrder, AcceptableOrder, MayRest
<1>7. QED BY <1>2, <1>3, <1>6, <1>c

\* No record carries the identifiers or the client id of an order that is
\* being accepted.
LEMMA NewIsNew ==
  ASSUME IInv, NEW o, AcceptableOrder(o)
  PROVE  /\ orders_by_exchange[o.id] = NoOrder
         /\ o.id \notin Active
         /\ exchange_by_client[o.client] = NoId
         /\ active_by_client[o.client] = NoId
         /\ \A x \in Ids : orders_by_exchange[x] # NoOrder =>
              /\ x < o.id /\ orders_by_exchange[x].priority < o.priority
              /\ orders_by_exchange[x].client # o.client
<1> USE DEF IInv
<1>1. o \in OrderView /\ o.client \in ClientIds /\ o.id \in Ids /\ o.priority \in Ids
  BY OrderFields DEF AcceptableOrder
<1>2. \A x \in Ids : orders_by_exchange[x] # NoOrder =>
              x < o.id /\ orders_by_exchange[x].priority < o.priority
  BY <1>1 DEF AcceptableOrder, Fresh, Ids, NoId
<1>3. orders_by_exchange[o.id] = NoOrder
  BY <1>1, <1>2 DEF Ids
<1>4. exchange_by_client[o.client] = NoId
  BY <1>1 DEF AcceptableOrder, ClientsSound
<1>5. \A x \in Ids : orders_by_exchange[x] # NoOrder =>
              orders_by_exchange[x].client # o.client
  BY <1>4 DEF HistorySound, Ids, NoId
<1>6. o.id \notin Active
  BY <1>1, <1>3, ActiveIsOrder, OrderFields DEF ActiveSound
<1>7. active_by_client[o.client] = NoId
  <2>1. ASSUME active_by_client[o.client] # NoId PROVE FALSE
    <3> DEFINE y == active_by_client[o.client]
    <3>1. y \in Active /\ active_by_exchange[y].client = o.client
      BY <2>1, <1>1 DEF ClientsSound
    <3>2. y \in Ids /\ orders_by_exchange[y] = active_by_exchange[y]
          /\ orders_by_exchange[y] # NoOrder
      BY <3>1, ActiveIsOrder, OrderFields DEF ActiveSound
    <3>3. QED BY <3>1, <3>2, <1>5
  <2>2. QED BY <2>1
<1>8. QED BY <1>2, <1>3, <1>4, <1>5, <1>6, <1>7

-----------------------------------------------------------------------------
(***************************************************************************)
(* Every action preserves the invariant.                                   *)
(***************************************************************************)

\* Fresh and IncomingSound after an order has entered.
LEMMA EnteredSound ==
  ASSUME IInv, NEW o, AcceptableOrder(o), Accept(o),
         o.postOnly => ~would_cross(o.side, o.price)',
         orders_by_exchange' \in [Ids -> OrderView \cup {NoOrder}],
         active_by_client' \in [ClientIds -> Ids \cup {NoId}],
         orders_by_exchange'[o.id] = o,
         \A x \in Ids \ {o.id} :
           /\ orders_by_exchange'[x] # NoOrder <=> orders_by_exchange[x] # NoOrder
           /\ orders_by_exchange[x] # NoOrder =>
                orders_by_exchange'[x].priority = orders_by_exchange[x].priority,
         \A x \in Ids : active_by_exchange'[x] \in {active_by_exchange[x], NoOrder},
         active_by_client'[o.client] = NoId
  PROVE  /\ Fresh' /\ IncomingSound'
         /\ all_client_ids' \subseteq ClientIds
         /\ Counters' \subseteq Ids \cup {NoId}
         /\ exchange_by_client' \in [ClientIds -> Ids \cup {NoId}]
         /\ incoming' \in OrderView \cup {NoOrder}
<1> USE DEF IInv
<1>1. o \in OrderView /\ o.client \in ClientIds /\ o.id \in Ids /\ o.priority \in Ids
      /\ o # NoOrder /\ o.quantity \in Int
  BY OrderFields DEF AcceptableOrder
<1>2. all_client_ids' \subseteq ClientIds
      /\ exchange_by_client' \in [ClientIds -> Ids \cup {NoId}]
      /\ incoming' \in OrderView \cup {NoOrder}
  BY <1>1 DEF Accept, TypeOK
<1>3. Counters' \subseteq Ids \cup {NoId}
  BY AllocateMoves DEF Accept, TypeOK, Counters, matchIds
<1>4. /\ next_exchange_order_id' # NoId => next_exchange_order_id' = o.id + 1
      /\ next_priority_sequence' # NoId => next_priority_sequence' = o.priority + 1
  BY <1>1, AllocateMoves DEF Accept, AcceptableOrder, Ids, NoId
<1>5. Fresh'
  <2> SUFFICES ASSUME NEW x \in Ids, orders_by_exchange'[x] # NoOrder
               PROVE  /\ next_exchange_order_id' # NoId => x < next_exchange_order_id'
                      /\ next_priority_sequence' # NoId =>
                           orders_by_exchange'[x].priority < next_priority_sequence'
    BY DEF Fresh
  <2>1. CASE x = o.id
    BY <2>1, <1>1, <1>4 DEF Ids
  <2>2. CASE x # o.id
    <3>1. x < o.id /\ orders_by_exchange[x].priority < o.priority
          /\ orders_by_exchange[x].priority = orders_by_exchange'[x].priority
      BY <2>2, NewIsNew
    <3>2. orders_by_exchange'[x].priority \in Ids
      BY OrderFields
    <3>3. QED BY <3>1, <3>2, <1>1, <1>4 DEF Ids
  <2>3. QED BY <2>1, <2>2
<1>6. IncomingSound'
  <2>1. incoming' = o
    BY DEF Accept
  <2>2. o.id \notin Active'
    BY <1>1, NewIsNew DEF Active
  <2>3. \A x \in Active' : active_by_exchange'[x].priority < o.priority
    <3> SUFFICES ASSUME NEW x \in Active'
                 PROVE  active_by_exchange'[x].priority < o.priority
      OBVIOUS
    <3>1. x \in Active /\ active_by_exchange'[x] = active_by_exchange[x]
      BY DEF Active
    <3>2. x \in Ids /\ orders_by_exchange[x] = active_by_exchange[x]
          /\ orders_by_exchange[x] # NoOrder
      BY <3>1, ActiveIsOrder, OrderFields DEF ActiveSound
    <3>3. QED BY <3>1, <3>2, NewIsNew
  <2>4. exchange_by_client'[o.client] = o.id
    BY <1>1 DEF Accept, TypeOK
  <2>5. o.state \notin TerminalStates /\ o.cum + o.leaves = o.quantity
    BY <1>1 DEF AcceptableOrder, TerminalStates
  <2>6. MayRest(o) => o.price \in Prices
    BY DEF AcceptableOrder
  <2>7. QED BY <1>1, <2>1, <2>2, <2>3, <2>4, <2>5, <2>6 DEF IncomingSound, MayRest, would_cross, EligibleLevels
<1>7. QED BY <1>2, <1>3, <1>5, <1>6

LEMMA SubmitPreserves ==
  ASSUME IInv, NEW cmd \in Submits, Submit(cmd)
  PROVE  IInv'
<1> USE DEF IInv
<1>1. PICK o :
      /\ AcceptableOrder(o) /\ Accept(o)
      /\ o.postOnly => ~would_cross(o.side, o.price)
      /\ orders_by_exchange' = [orders_by_exchange EXCEPT ![o.id] = o]
      /\ UNCHANGED <<levels, queue, total, active_by_exchange, active_by_client>>
  BY SubmitAccepted DEF Submit, book
<1>2. o \in OrderView /\ o.id \in Ids /\ o.client \in ClientIds
  BY <1>1, OrderFields DEF AcceptableOrder
<1>3. /\ orders_by_exchange' \in [Ids -> OrderView \cup {NoOrder}]
      /\ orders_by_exchange'[o.id] = o
      /\ \A x \in Ids \ {o.id} : orders_by_exchange'[x] = orders_by_exchange[x]
  BY <1>1, <1>2 DEF TypeOK
<1>4. Active' = Active
  BY <1>1 DEF Active
<1>5. o.postOnly => ~would_cross(o.side, o.price)'
  BY <1>1 DEF would_cross, EligibleLevels, Opposite, Eligible
<1>6. /\ Fresh' /\ IncomingSound'
      /\ all_client_ids' \subseteq ClientIds
      /\ Counters' \subseteq Ids \cup {NoId}
      /\ exchange_by_client' \in [ClientIds -> Ids \cup {NoId}]
      /\ incoming' \in OrderView \cup {NoOrder}
  <2>1. active_by_client'[o.client] = NoId
    BY <1>1, NewIsNew
  <2>2. \A x \in Ids : active_by_exchange'[x] \in {active_by_exchange[x], NoOrder}
    BY <1>1
  <2>3. active_by_client' \in [ClientIds -> Ids \cup {NoId}]
    BY <1>1 DEF TypeOK
  <2>4. QED BY <1>1, <1>3, <1>5, <2>1, <2>2, <2>3, EnteredSound
<1>7. TypeOK'
  BY <1>1, <1>3, <1>6 DEF TypeOK
<1>8. ActiveSound'
  BY <1>1, <1>3, <1>4, NewIsNew, ActiveIsOrder DEF ActiveSound
<1>9. LevelsFifo' /\ Located' /\ BookUncrossed'
  BY <1>1, <1>4 DEF LevelsFifo, Located, BookUncrossed
<1>10. HistorySound'
  <2> SUFFICES ASSUME NEW x \in Ids, orders_by_exchange'[x] # NoOrder
               PROVE  LET h == orders_by_exchange'[x]
                      IN  /\ h.id = x /\ exchange_by_client'[h.client] = x
                          /\ Open(h) \/ Closed(h)
    BY DEF HistorySound
  <2>1. CASE x = o.id
    <3>1. exchange_by_client'[o.client] = o.id
      BY <1>1, <1>2 DEF Accept, TypeOK
    <3>2. Open(o)
      BY <1>1, <1>2, OrderFields DEF AcceptableOrder, Open, RestingStates
    <3>3. QED BY <2>1, <3>1, <3>2, <1>3
  <2>2. CASE x # o.id
    <3>1. orders_by_exchange[x] # NoOrder /\ orders_by_exchange'[x] = orders_by_exchange[x]
      BY <2>2, <1>3
    <3>2. orders_by_exchange[x].client # o.client
          /\ orders_by_exchange[x].client \in ClientIds
      BY <1>1, <1>3, <3>1, NewIsNew, OrderFields
    <3>3. exchange_by_client'[orders_by_exchange[x].client]
            = exchange_by_client[orders_by_exchange[x].client]
      BY <1>1, <3>2 DEF Accept, TypeOK
    <3>4. QED BY <3>1, <3>3 DEF HistorySound
  <2>3. QED BY <2>1, <2>2
<1>11. ClientsSound'
  <2> SUFFICES ASSUME NEW c \in ClientIds
               PROVE  /\ active_by_client'[c] # NoId =>
                           /\ active_by_client'[c] \in Active'
                           /\ active_by_exchange'[active_by_client'[c]].client = c
                      /\ c \in all_client_ids' <=> exchange_by_client'[c] # NoId
                      /\ exchange_by_client'[c] # NoId =>
                           /\ orders_by_exchange'[exchange_by_client'[c]] # NoOrder
                           /\ orders_by_exchange'[exchange_by_client'[c]].client = c
    BY DEF ClientsSound
  <2>1. active_by_client'[c] # NoId =>
                           /\ active_by_client'[c] \in Active'
                           /\ active_by_exchange'[active_by_client'[c]].client = c
    BY <1>1, <1>4 DEF ClientsSound
  <2>2. CASE c = o.client
    <3>1. exchange_by_client'[c] = o.id /\ c \in all_client_ids'
      BY <2>2, <1>1, <1>2 DEF Accept, TypeOK
    <3>2. QED BY <2>1, <2>2, <3>1, <1>2, <1>3, OrderFields DEF Ids, NoId
  <2>3. CASE c # o.client
    <3>1. exchange_by_client'[c] = exchange_by_client[c]
          /\ (c \in all_client_ids' <=> c \in all_client_ids)
      BY <2>3, <1>1 DEF Accept, TypeOK
    <3>2. exchange_by_client[c] # NoId =>
            /\ exchange_by_client[c] \in Ids
            /\ orders_by_exchange[exchange_by_client[c]] # NoOrder
            /\ exchange_by_client[c] # o.id
      BY <1>1, NewIsNew DEF ClientsSound, TypeOK
    <3>3. QED BY <2>1, <3>1, <3>2, <1>3 DEF ClientsSound
  <2>4. QED BY <2>2, <2>3
<1>12. QED BY <1>6, <1>7, <1>8, <1>9, <1>10, <1>11

\* Order x leaves position i of its queue, its level and the active indices.
Leaves(side, p, i, x) ==
  /\ side \in Sides /\ p \in Prices /\ i \in 1..Len(queue[side][p])
  /\ x = queue[side][p][i]
  /\ \E t : Without(t, queue[side][p], i) /\ queue' = [queue EXCEPT ![side][p] = t]
  /\ levels' = ErasedLevels(side, p)
  /\ Deactivate(x)

\* What it leaves behind.
Left(x) ==
  /\ queue' \in [Sides -> [Prices -> Seq(Ids)]]
  /\ levels' \in [Sides -> SUBSET Prices]
  /\ LevelsFifo' /\ Located' /\ BookUncrossed'
  /\ active_by_exchange' \in [Ids -> OrderView \cup {NoOrder}]
  /\ active_by_client' \in [ClientIds -> Ids \cup {NoId}]
  /\ x \in Active /\ Active' = Active \ {x}
  /\ \A y \in Ids : active_by_exchange'[y] =
       IF y = x THEN NoOrder ELSE active_by_exchange[y]
  /\ \A c \in ClientIds : active_by_client'[c] =
       IF c = active_by_exchange[x].client THEN NoId ELSE active_by_client[c]

LEMMA Leave ==
  ASSUME IInv, NEW side, NEW p, NEW i, NEW x, Leaves(side, p, i, x)
  PROVE  Left(x)
<1> USE DEF IInv
<1>0. /\ side \in Sides /\ p \in Prices /\ i \in 1..Len(queue[side][p])
      /\ x = queue[side][p][i]
      /\ levels' = ErasedLevels(side, p)
  BY DEF Leaves
<1>1. x \in Active /\ x \in Ids /\ active_by_exchange[x] \in OrderView
  BY <1>0, QueuedIsActive, ActiveIsOrder
<1>2. active_by_exchange[x].client \in ClientIds
  BY <1>1, OrderFields
<1>3. /\ active_by_exchange' = [active_by_exchange EXCEPT ![x] = NoOrder]
      /\ active_by_client' =
           [active_by_client EXCEPT ![active_by_exchange[x].client] = NoId]
  BY DEF Leaves, Deactivate
<1>a. PICK t : Without(t, queue[side][p], i) /\ queue' = [queue EXCEPT ![side][p] = t]
  BY DEF Leaves
<1>4. /\ queue' \in [Sides -> [Prices -> Seq(Ids)]]
      /\ levels' \in [Sides -> SUBSET Prices]
      /\ \A s \in Sides : levels'[s] \subseteq levels[s]
      /\ LevelsFifo' /\ Located'
  BY <1>0, <1>3, <1>a, Detach
<1>5. /\ active_by_exchange' \in [Ids -> OrderView \cup {NoOrder}]
      /\ \A y \in Ids : active_by_exchange'[y] =
           IF y = x THEN NoOrder ELSE active_by_exchange[y]
  BY <1>1, <1>3 DEF TypeOK
<1>6. /\ active_by_client' \in [ClientIds -> Ids \cup {NoId}]
      /\ \A c \in ClientIds : active_by_client'[c] =
           IF c = active_by_exchange[x].client THEN NoId ELSE active_by_client[c]
  BY <1>2, <1>3 DEF TypeOK
<1>7. Active' = Active \ {x}
  BY <1>5 DEF Active
<1>8. BookUncrossed'
  BY <1>4 DEF BookUncrossed, Sides
<1>9. QED BY <1>1, <1>4, <1>5, <1>6, <1>7, <1>8 DEF Left

\* remove_active takes the order out of the queue wherever it waits.
LEMMA RemoveActiveLeaves ==
  ASSUME IInv, NEW x \in Active, RemoveActive(x)
  PROVE  Left(x) /\ total' \in [Sides -> [Prices -> Int]]
<1> USE DEF IInv
<1>0. PICK side \in Sides, p \in Prices :
        side = active_by_exchange[x].side /\ p = active_by_exchange[x].price
  BY ActiveIsOrder, OrderFields DEF ActiveSound
<1>1. active_by_exchange[x].leaves \in Int
  BY ActiveIsOrder, OrderFields
<1>2. PICK i \in 1..Len(queue[side][p]) :
        /\ x = queue[side][p][i]
        /\ queue' = [queue EXCEPT ![side][p] = RemoveAt(queue[side][p], i)]
        /\ total' = [total EXCEPT ![side][p] = total[side][p] - active_by_exchange[x].leaves]
        /\ levels' = ErasedLevels(side, p)
  BY <1>0 DEF RemoveActive, RemoveFromBook, TypeOK
<1>3. Without(RemoveAt(queue[side][p], i), queue[side][p], i)
  BY <1>2, RemoveAtIsWithout DEF TypeOK
<1>4. total' \in [Sides -> [Prices -> Int]]
  BY <1>1, <1>2 DEF TypeOK
<1>5. Leaves(side, p, i, x)
  BY <1>2, <1>3 DEF Leaves, RemoveActive
<1>6. QED BY <1>4, <1>5, Leave

\* The indices after an order has ended for good.
LEMMA EndedIndices ==
  ASSUME IInv, NEW x \in Active, NEW t \in OrderView,
         t.id = x, t.client = active_by_exchange[x].client,
         t.priority = active_by_exchange[x].priority, Closed(t),
         Left(x),
         orders_by_exchange' = [orders_by_exchange EXCEPT ![x] = t],
         UNCHANGED <<exchange_by_client, all_client_ids,
                     next_exchange_order_id, next_priority_sequence>>
  PROVE  /\ orders_by_exchange' \in [Ids -> OrderView \cup {NoOrder}]
         /\ ActiveSound' /\ ClientsSound' /\ HistorySound' /\ Fresh'
<1> USE DEF IInv, Left
<1>1. x \in Ids /\ active_by_exchange[x] \in OrderView /\ t # NoOrder
      /\ active_by_exchange[x].client \in ClientIds
      /\ orders_by_exchange[x] = active_by_exchange[x]
      /\ orders_by_exchange[x] # NoOrder
  BY ActiveIsOrder, OrderFields DEF ActiveSound
<1>2. /\ orders_by_exchange' \in [Ids -> OrderView \cup {NoOrder}]
      /\ \A y \in Ids : orders_by_exchange'[y] =
           IF y = x THEN t ELSE orders_by_exchange[y]
  BY <1>1 DEF TypeOK
<1>3. ActiveSound'
  <2> SUFFICES ASSUME NEW y \in Active'
               PROVE  LET o == active_by_exchange'[y]
                      IN  /\ o.id = y /\ o.price \in Prices /\ o.tif = "GTC"
                          /\ Open(o)
                          /\ orders_by_exchange'[y] = o
                          /\ active_by_client'[o.client] = y
    BY DEF ActiveSound
  <2>1. y \in Active /\ y # x /\ y \in Ids
        /\ active_by_exchange'[y] = active_by_exchange[y]
        /\ orders_by_exchange'[y] = orders_by_exchange[y]
    BY <1>2, ActiveIsOrder
  <2>2. active_by_exchange[y].client \in ClientIds
        /\ active_by_exchange[y].client # active_by_exchange[x].client
    BY <2>1, ActiveIsOrder, OrderFields DEF ActiveSound
  <2>3. QED BY <2>1, <2>2 DEF ActiveSound
<1>4. ClientsSound'
  <2> SUFFICES ASSUME NEW c \in ClientIds
               PROVE  /\ active_by_client'[c] # NoId =>
                           /\ active_by_client'[c] \in Active'
                           /\ active_by_exchange'[active_by_client'[c]].client = c
                      /\ c \in all_client_ids' <=> exchange_by_client'[c] # NoId
                      /\ exchange_by_client'[c] # NoId =>
                           /\ orders_by_exchange'[exchange_by_client'[c]] # NoOrder
                           /\ orders_by_exchange'[exchange_by_client'[c]].client = c
    BY DEF ClientsSound
  <2>1. ASSUME active_by_client'[c] # NoId
        PROVE  /\ active_by_client'[c] \in Active'
               /\ active_by_exchange'[active_by_client'[c]].client = c
    <3>1. c # active_by_exchange[x].client /\ active_by_client'[c] = active_by_client[c]
      BY <2>1
    <3>2. active_by_client[c] \in Active /\ active_by_exchange[active_by_client[c]].client = c
      BY <2>1, <3>1 DEF ClientsSound
    <3>3. QED BY <3>1, <3>2, ActiveIsOrder
  <2>2. ASSUME exchange_by_client[c] # NoId
        PROVE  /\ orders_by_exchange'[exchange_by_client'[c]] # NoOrder
               /\ orders_by_exchange'[exchange_by_client'[c]].client = c
    <3>1. exchange_by_client[c] \in Ids
      BY <2>2 DEF TypeOK
    <3>2. QED BY <2>2, <3>1, <1>1, <1>2 DEF ClientsSound
  <2>3. QED BY <2>1, <2>2 DEF ClientsSound
<1>5. HistorySound'
  BY <1>1, <1>2 DEF HistorySound
<1>6. Fresh'
  BY <1>1, <1>2 DEF Fresh
<1>7. QED BY <1>2, <1>3, <1>4, <1>5, <1>6

LEMMA CancelPreserves ==
  ASSUME IInv, NEW client \in ClientIds, NEW x \in Ids, Cancel(client, x)
  PROVE  IInv'
<1> USE DEF IInv
<1>1. /\ incoming = NoOrder /\ x \in Active /\ RemoveActive(x)
      /\ orders_by_exchange' =
           [orders_by_exchange EXCEPT ![x] = Terminated(x, "Cancelled")]
      /\ UNCHANGED <<exchange_by_client, all_client_ids,
                     next_exchange_order_id, next_priority_sequence,
                     next_match_sequence, next_execution_id, incoming>>
  BY DEF Cancel, locate_active, Active, orderIds, matchIds
<1>2. PICK t : /\ t = Terminated(x, "Cancelled") /\ t \in OrderView
               /\ t.id = x /\ t.client = active_by_exchange[x].client
               /\ t.priority = active_by_exchange[x].priority /\ Closed(t)
  <2> DEFINE o == active_by_exchange[x]
             t == Terminated(x, "Cancelled")
  <2>1. o \in OrderView /\ "Cancelled" \in TerminalStates
    BY <1>1, ActiveIsOrder DEF TerminalStates
  <2>2. /\ t \in OrderView /\ t.id = o.id /\ t.client = o.client
        /\ t.quantity = o.quantity /\ t.cum = o.cum
        /\ t.priority = o.priority /\ t.leaves = 0 /\ t.state = "Cancelled"
    BY <2>1, TerminatedFields
  <2>3. o.id = x /\ Open(o) /\ o.cum \in Int /\ o.leaves \in Int /\ o.quantity \in Int
    BY <1>1, <2>1, OrderFields DEF ActiveSound
  <2> HIDE DEF t
  <2>4. Closed(t)
    BY <2>2, <2>3 DEF Closed, Open
  <2>5. QED BY <2>2, <2>3, <2>4 DEF t
<1>3. Left(x) /\ total' \in [Sides -> [Prices -> Int]]
  BY <1>1, RemoveActiveLeaves
<1>4. /\ orders_by_exchange' \in [Ids -> OrderView \cup {NoOrder}]
      /\ ActiveSound' /\ ClientsSound' /\ HistorySound' /\ Fresh'
  BY <1>1, <1>2, <1>3, EndedIndices
<1>5. TypeOK'
  BY <1>1, <1>3, <1>4 DEF TypeOK, Counters, Left
<1>6. IncomingSound'
  BY <1>1 DEF IncomingSound
<1>7. QED BY <1>3, <1>4, <1>5, <1>6 DEF Left

\* The maker of a match is the active order at the front of the queue, and q
\* lots can trade.
MakerAndTaker(side, p, x, q) ==
  LET maker == active_by_exchange[x]
  IN  /\ p \in Prices /\ queue[side][p] \in Seq(Ids) /\ queue[side][p] # <<>>
      /\ 1 \in 1..Len(queue[side][p]) /\ x = queue[side][p][1]
      /\ x \in Active /\ x \in Ids /\ x # incoming.id
      /\ maker \in OrderView /\ Open(maker) /\ maker.side = side /\ maker.price = p
      /\ maker.id = x
      /\ incoming \in OrderView
      /\ q \in 0..maker.leaves /\ q \in 0..incoming.leaves /\ q > 0

LEMMA FrontIsMaker ==
  ASSUME IInv, CanMatch,
         NEW side \in Sides, NEW p \in levels[side],
         NEW x, x = Head(queue[side][p]),
         NEW q, q = MatchQuantity(active_by_exchange[x])
  PROVE  MakerAndTaker(side, p, x, q)
<1> USE DEF IInv
<1>1. p \in Prices /\ queue[side][p] \in Seq(Ids) /\ queue[side][p] # <<>>
  BY DEF TypeOK, LevelsFifo
<1>2. Len(queue[side][p]) \in Nat \ {0} /\ x = queue[side][p][1]
  BY <1>1, EmptySeq
<1>3. 1 \in 1..Len(queue[side][p])
  BY <1>2
<1>4. x \in Active /\ x \in Ids /\ active_by_exchange[x] \in OrderView
      /\ active_by_exchange[x].side = side /\ active_by_exchange[x].price = p
  BY <1>1, <1>2, <1>3, QueuedIsActive, ActiveIsOrder
<1>5. Open(active_by_exchange[x]) /\ active_by_exchange[x].id = x
  BY <1>4 DEF ActiveSound
<1>6. /\ incoming \in OrderView /\ incoming.leaves > 0
      /\ incoming.cum + incoming.leaves = incoming.quantity /\ x # incoming.id
  BY <1>4 DEF CanMatch, TypeOK, IncomingSound
<1>7. q \in 0..active_by_exchange[x].leaves /\ q \in 0..incoming.leaves /\ q > 0
  BY <1>4, <1>5, <1>6, OrderFields DEF MatchQuantity, Open
<1>8. QED BY <1>1, <1>2, <1>3, <1>4, <1>5, <1>6, <1>7 DEF MakerAndTaker

\* The taker is still sound after a match, whatever became of its maker.
LEMMA TakerSound ==
  ASSUME IInv, CanMatch, NEW q \in 0..incoming.leaves,
         incoming' = AfterFill(incoming, q),
         NEW x \in Active, NEW filled,
         filled.client = active_by_exchange[x].client,
         orders_by_exchange' = [orders_by_exchange EXCEPT ![x] = filled],
         Active' \subseteq Active,
         \A y \in Active' : active_by_exchange'[y].priority
                              = active_by_exchange[y].priority,
         \A c \in ClientIds : active_by_client'[c] \in {active_by_client[c], NoId},
         UNCHANGED exchange_by_client
  PROVE  incoming' \in OrderView /\ IncomingSound'
<1> USE DEF IInv
<1>1. /\ incoming \in OrderView /\ incoming # NoOrder
      /\ incoming.cum + incoming.leaves = incoming.quantity
      /\ incoming.id \in Ids /\ incoming.client \in ClientIds
      /\ incoming.cum \in Int /\ incoming.leaves \in Int
  BY OrderFields DEF CanMatch, TypeOK, IncomingSound
<1>2. /\ incoming' \in OrderView
      /\ incoming'.id = incoming.id /\ incoming'.client = incoming.client
      /\ incoming'.side = incoming.side /\ incoming'.type = incoming.type
      /\ incoming'.tif = incoming.tif /\ incoming'.price = incoming.price
      /\ (incoming'.postOnly <=> incoming.postOnly)
      /\ incoming'.priority = incoming.priority
      /\ incoming'.quantity = incoming.quantity
      /\ incoming'.cum = incoming.cum + q /\ incoming'.leaves = incoming.leaves - q
  BY <1>1, AfterFillFields
<1>3. incoming.id \notin Active /\ x \in Ids /\ x # incoming.id
  BY <1>1, ActiveIsOrder DEF IncomingSound
<1>4. orders_by_exchange'[incoming.id] = orders_by_exchange[incoming.id]
  BY <1>1, <1>3 DEF TypeOK
<1>5. ~incoming.postOnly
  BY <1>1 DEF CanMatch, IncomingSound
<1>6. active_by_client'[incoming.client] = NoId
  BY <1>1 DEF IncomingSound
<1>7. \A y \in Active' : active_by_exchange'[y].priority < incoming.priority
  BY <1>1 DEF IncomingSound
<1>8. incoming'.cum + incoming'.leaves = incoming'.quantity
  BY <1>1, <1>2
<1>9. MayRest(incoming') => incoming'.price \in Prices
  BY <1>1, <1>2 DEF IncomingSound, MayRest
<1>10. /\ incoming.id \notin Active'
       /\ orders_by_exchange[incoming.id] # NoOrder
       /\ orders_by_exchange[incoming.id].client = incoming.client
       /\ orders_by_exchange[incoming.id].priority = incoming.priority
       /\ orders_by_exchange[incoming.id].state \notin TerminalStates
       /\ exchange_by_client[incoming.client] = incoming.id
  BY <1>1, <1>3 DEF IncomingSound
<1>11. IncomingSound'
  BY <1>2, <1>4, <1>5, <1>6, <1>7, <1>8, <1>9, <1>10 DEF IncomingSound, MayRest
<1>12. QED BY <1>2, <1>11

\* A match that fills its maker.
LEMMA MakerFilledPreserves ==
  ASSUME IInv, CanMatch,
         NEW side \in Sides, NEW p \in levels[side],
         NEW x, x = Head(queue[side][p]),
         NEW q, q = MatchQuantity(active_by_exchange[x]),
         q = active_by_exchange[x].leaves,
         incoming' = AfterFill(incoming, q),
         total' = [total EXCEPT ![side][p] = total[side][p] - q],
         orders_by_exchange' =
           [orders_by_exchange EXCEPT ![x] = AfterFill(active_by_exchange[x], q)],
         queue' = [queue EXCEPT ![side][p] = Tail(queue[side][p])],
         levels' = ErasedLevels(side, p),
         Deactivate(x),
         Counters' \subseteq Ids \cup {NoId},
         UNCHANGED <<exchange_by_client, all_client_ids,
                     next_exchange_order_id, next_priority_sequence>>
  PROVE  IInv'
<1> USE DEF IInv
<1>1. MakerAndTaker(side, p, x, q)
  BY FrontIsMaker
<1> DEFINE o == active_by_exchange[x]
<1>a. /\ p \in Prices /\ queue[side][p] \in Seq(Ids) /\ queue[side][p] # <<>>
      /\ 1 \in 1..Len(queue[side][p]) /\ x = queue[side][p][1]
      /\ x \in Active /\ x \in Ids /\ x # incoming.id
      /\ o \in OrderView /\ Open(o) /\ o.id = x
      /\ q \in 0..o.leaves /\ q \in 0..incoming.leaves /\ q \in Int
  BY <1>1 DEF MakerAndTaker
<1>b. o.cum + o.leaves = o.quantity /\ o.cum \in Int /\ o.leaves \in Int
  BY <1>a, OrderFields DEF Open
<1>2. PICK maker :
      /\ maker = active_by_exchange[x]
      /\ p \in Prices /\ queue[side][p] \in Seq(Ids) /\ queue[side][p] # <<>>
      /\ 1 \in 1..Len(queue[side][p]) /\ x = queue[side][p][1]
      /\ x \in Active /\ x \in Ids /\ x # incoming.id
      /\ maker \in OrderView /\ Open(maker) /\ maker.id = x
      /\ maker.cum + maker.leaves = maker.quantity
      /\ maker.cum \in Int /\ maker.leaves \in Int
      /\ q \in 0..maker.leaves /\ q \in 0..incoming.leaves /\ q \in Int
  BY <1>a, <1>b
<1>3. PICK t : /\ t = AfterFill(maker, q) /\ t \in OrderView
               /\ t.id = x /\ t.client = maker.client
               /\ t.priority = maker.priority /\ Closed(t)
  <2> DEFINE t == AfterFill(maker, q)
  <2>1. /\ t \in OrderView /\ t.id = x /\ t.client = maker.client
        /\ t.priority = maker.priority /\ t.quantity = maker.quantity
        /\ t.cum = maker.cum + q /\ t.leaves = maker.leaves - q
        /\ t.state = IF maker.leaves = q THEN "Filled" ELSE "PartiallyFilled"
    BY <1>2, AfterFillFields
  <2> HIDE DEF t
  <2>2. t.leaves = 0 /\ t.state = "Filled" /\ t.cum = t.quantity
    <3>1. q = maker.leaves
      BY <1>2
    <3>2. QED BY ONLY <3>1, <1>2, <2>1
  <2>3. Closed(t)
    BY ONLY <2>2 DEF Closed
  <2>4. QED BY <2>1, <2>3 DEF t
<1>4. Without(Tail(queue[side][p]), queue[side][p], 1)
  BY <1>2, TailIsWithout
<1>5. Left(x)
  BY <1>2, <1>4, Leave DEF Leaves
<1>6. /\ orders_by_exchange' \in [Ids -> OrderView \cup {NoOrder}]
      /\ ActiveSound' /\ ClientsSound' /\ HistorySound' /\ Fresh'
  BY <1>2, <1>3, <1>5, EndedIndices
<1>7. incoming' \in OrderView /\ IncomingSound'
  <2>1. /\ Active' \subseteq Active
        /\ \A y \in Active' : active_by_exchange'[y].priority
                                = active_by_exchange[y].priority
        /\ \A c \in ClientIds : active_by_client'[c] \in {active_by_client[c], NoId}
    BY <1>5, ActiveIsOrder DEF Left
  <2>2. QED BY <1>2, <1>3, <2>1, TakerSound
<1>8. total' \in [Sides -> [Prices -> Int]]
  BY <1>2, OrderFields DEF TypeOK
<1>9. TypeOK'
  BY <1>5, <1>6, <1>7, <1>8 DEF TypeOK, Left
<1>10. QED BY <1>5, <1>6, <1>7, <1>9 DEF Left

\* Order x, still open, has become t in its node and in its history record.
Updated(x, t) ==
  LET o == active_by_exchange[x]
  IN  /\ x \in Active /\ t \in OrderView /\ Open(t)
      /\ t.id = x /\ t.client = o.client /\ t.side = o.side
      /\ t.price = o.price /\ t.tif = o.tif /\ t.priority = o.priority
      /\ active_by_exchange' = [active_by_exchange EXCEPT ![x] = t]
      /\ orders_by_exchange' = [orders_by_exchange EXCEPT ![x] = t]
      /\ UNCHANGED <<queue, levels, active_by_client,
                     exchange_by_client, all_client_ids,
                     next_exchange_order_id, next_priority_sequence>>

LEMMA UpdatedSound ==
  ASSUME IInv, NEW x, NEW t, Updated(x, t)
  PROVE  /\ active_by_exchange' \in [Ids -> OrderView \cup {NoOrder}]
         /\ orders_by_exchange' \in [Ids -> OrderView \cup {NoOrder}]
         /\ Active' = Active
         /\ \A y \in Active : active_by_exchange'[y].priority
                                = active_by_exchange[y].priority
         /\ ActiveSound' /\ LevelsFifo' /\ Located' /\ ClientsSound'
         /\ HistorySound' /\ Fresh'
<1> USE DEF IInv
<1>1. /\ x \in Active /\ x \in Ids /\ t \in OrderView /\ t # NoOrder /\ Open(t)
      /\ active_by_exchange' = [active_by_exchange EXCEPT ![x] = t]
      /\ orders_by_exchange' = [orders_by_exchange EXCEPT ![x] = t]
  BY ActiveIsOrder, OrderFields DEF Updated
<1>u. UNCHANGED <<queue, levels, active_by_client,
                  exchange_by_client, all_client_ids,
                  next_exchange_order_id, next_priority_sequence>>
  BY DEF Updated
<1> USE <1>u
<1>2. PICK maker :
      /\ maker = active_by_exchange[x] /\ maker.id = x
      /\ maker.price \in Prices /\ maker.tif = "GTC"
      /\ active_by_client[maker.client] = x
      /\ maker = orders_by_exchange[x]
  BY <1>1 DEF ActiveSound
<1>3. /\ t.id = x /\ t.client = maker.client /\ t.side = maker.side
      /\ t.price = maker.price /\ t.tif = maker.tif /\ t.priority = maker.priority
  BY <1>2 DEF Updated
<1>4. /\ active_by_exchange' \in [Ids -> OrderView \cup {NoOrder}]
      /\ \A y \in Ids : active_by_exchange'[y] =
           IF y = x THEN t ELSE active_by_exchange[y]
  BY <1>1 DEF TypeOK
<1>5. /\ orders_by_exchange' \in [Ids -> OrderView \cup {NoOrder}]
      /\ \A y \in Ids : orders_by_exchange'[y] =
           IF y = x THEN t ELSE orders_by_exchange[y]
  BY <1>1 DEF TypeOK
<1>6. Active' = Active
  BY <1>1, <1>4 DEF Active
<1>7. \A y \in Active : /\ active_by_exchange'[y].side = active_by_exchange[y].side
                        /\ active_by_exchange'[y].price = active_by_exchange[y].price
                        /\ active_by_exchange'[y].priority = active_by_exchange[y].priority
                        /\ active_by_exchange'[y].client = active_by_exchange[y].client
  BY <1>2, <1>3, <1>4, ActiveIsOrder
<1>8. ActiveSound'
  <2> SUFFICES ASSUME NEW y \in Active
               PROVE  LET h == active_by_exchange'[y]
                      IN  /\ h.id = y /\ h.price \in Prices /\ h.tif = "GTC"
                          /\ Open(h)
                          /\ orders_by_exchange'[y] = h
                          /\ active_by_client'[h.client] = y
    BY <1>6 DEF ActiveSound
  <2>1. y \in Ids
    BY ActiveIsOrder
  <2>2. CASE y = x
    BY <2>2, <1>1, <1>2, <1>3, <1>4, <1>5
  <2>3. CASE y # x
    BY <2>1, <2>3, <1>4, <1>5 DEF ActiveSound
  <2>4. QED BY <2>2, <2>3
<1>9. LevelsFifo'
  <2>1. ASSUME NEW s \in Sides, NEW r \in Prices, NEW j \in 1..Len(queue[s][r])
        PROVE  LET order == active_by_exchange'[queue[s][r][j]]
               IN  /\ order # NoOrder
                   /\ order.side = s /\ order.price = r
                   /\ order.leaves > 0 /\ order.state \in RestingStates
                   /\ order.priority = active_by_exchange[queue[s][r][j]].priority
    <3>1. PICK y : y = queue[s][r][j]
      OBVIOUS
    <3>2. y \in Active /\ y \in Active' /\ y \in Ids
          /\ active_by_exchange[y].side = s /\ active_by_exchange[y].price = r
      BY <1>6, <3>1, QueuedIsActive, ActiveIsOrder
    <3>3. Open(active_by_exchange'[y]) /\ active_by_exchange'[y] # NoOrder
      BY <1>8, <3>2 DEF ActiveSound, Active
    <3>4. QED BY <1>7, <3>1, <3>2, <3>3 DEF Open
  <2>2. QED BY <2>1 DEF LevelsFifo
<1>10. Located'
  BY <1>6, <1>7 DEF Located
<1>11. ClientsSound'
  <2> SUFFICES ASSUME NEW c \in ClientIds
               PROVE  /\ active_by_client'[c] # NoId =>
                           /\ active_by_client'[c] \in Active'
                           /\ active_by_exchange'[active_by_client'[c]].client = c
                      /\ c \in all_client_ids' <=> exchange_by_client'[c] # NoId
                      /\ exchange_by_client'[c] # NoId =>
                           /\ orders_by_exchange'[exchange_by_client'[c]] # NoOrder
                           /\ orders_by_exchange'[exchange_by_client'[c]].client = c
    BY DEF ClientsSound
  <2>1. active_by_client'[c] # NoId =>
                           /\ active_by_client'[c] \in Active'
                           /\ active_by_exchange'[active_by_client'[c]].client = c
    BY <1>6, <1>7 DEF ClientsSound
  <2>2. ASSUME exchange_by_client[c] # NoId
        PROVE  /\ orders_by_exchange'[exchange_by_client'[c]] # NoOrder
               /\ orders_by_exchange'[exchange_by_client'[c]].client = c
    <3>1. exchange_by_client[c] \in Ids
      BY <2>2 DEF TypeOK
    <3>2. QED BY <2>2, <3>1, <1>1, <1>2, <1>3, <1>5 DEF ClientsSound
  <2>3. QED BY <2>1, <2>2 DEF ClientsSound
<1>a. maker # NoOrder /\ exchange_by_client[maker.client] = x
  BY <1>1, <1>2, ActiveIsOrder, OrderFields DEF HistorySound
<1>12. HistorySound'
  <2> SUFFICES ASSUME NEW y \in Ids, orders_by_exchange'[y] # NoOrder
               PROVE  LET h == orders_by_exchange'[y]
                      IN  /\ h.id = y /\ exchange_by_client'[h.client] = y
                          /\ Open(h) \/ Closed(h)
    BY DEF HistorySound
  <2>1. CASE y = x
    BY <2>1, <1>1, <1>3, <1>5, <1>a
  <2>2. CASE y # x
    BY <2>2, <1>5 DEF HistorySound
  <2>3. QED BY <2>1, <2>2
<1>13. Fresh'
  <2> SUFFICES ASSUME NEW y \in Ids, orders_by_exchange'[y] # NoOrder
               PROVE  /\ next_exchange_order_id' # NoId => y < next_exchange_order_id'
                      /\ next_priority_sequence' # NoId =>
                           orders_by_exchange'[y].priority < next_priority_sequence'
    BY DEF Fresh
  <2>1. CASE y = x
    BY <2>1, <1>1, <1>2, <1>3, <1>5, <1>a DEF Fresh
  <2>2. CASE y # x
    BY <2>2, <1>5 DEF Fresh
  <2>3. QED BY <2>1, <2>2
<1>14. QED BY <1>4, <1>5, <1>6, <1>7, <1>8, <1>9, <1>10, <1>11, <1>12, <1>13

\* A match that leaves lots of its maker in the book.
LEMMA MakerLeftPreserves ==
  ASSUME IInv, CanMatch,
         NEW side \in Sides, NEW p \in levels[side],
         NEW x, x = Head(queue[side][p]),
         NEW q, q = MatchQuantity(active_by_exchange[x]),
         q # active_by_exchange[x].leaves,
         incoming' = AfterFill(incoming, q),
         total' = [total EXCEPT ![side][p] = total[side][p] - q],
         orders_by_exchange' =
           [orders_by_exchange EXCEPT ![x] = AfterFill(active_by_exchange[x], q)],
         active_by_exchange' =
           [active_by_exchange EXCEPT ![x] = AfterFill(active_by_exchange[x], q)],
         Counters' \subseteq Ids \cup {NoId},
         UNCHANGED <<queue, levels, active_by_client,
                     exchange_by_client, all_client_ids,
                     next_exchange_order_id, next_priority_sequence>>
  PROVE  IInv'
<1> USE DEF IInv
<1>1. MakerAndTaker(side, p, x, q)
  BY FrontIsMaker
<1> DEFINE o == active_by_exchange[x]
<1>a. /\ p \in Prices /\ x \in Active /\ x \in Ids /\ x # incoming.id
      /\ o \in OrderView /\ Open(o) /\ o.id = x
      /\ incoming \in OrderView
      /\ q \in 0..o.leaves /\ q \in 0..incoming.leaves /\ q \in Int /\ q > 0
  BY <1>1 DEF MakerAndTaker
<1>b. o.cum + o.leaves = o.quantity /\ o.cum \in Nat /\ o.leaves \in Nat
  BY <1>a, OrderFields DEF Open
<1>2. PICK maker :
      /\ maker = active_by_exchange[x] /\ maker \in OrderView /\ maker.id = x
      /\ maker.cum + maker.leaves = maker.quantity
      /\ maker.cum \in Nat /\ maker.leaves \in Nat
      /\ q \in 0..maker.leaves /\ q # maker.leaves
  BY <1>a, <1>b
<1>3. PICK t : t = AfterFill(maker, q) /\ Updated(x, t)
  <2> DEFINE t == AfterFill(maker, q)
  <2>1. /\ t \in OrderView /\ t.id = x /\ t.client = maker.client
        /\ t.side = maker.side /\ t.price = maker.price /\ t.tif = maker.tif
        /\ t.priority = maker.priority /\ t.quantity = maker.quantity
        /\ t.cum = maker.cum + q /\ t.leaves = maker.leaves - q
        /\ t.state = IF maker.leaves = q THEN "Filled" ELSE "PartiallyFilled"
    BY ONLY <1>2, AfterFillFields
  <2>2. /\ active_by_exchange' = [active_by_exchange EXCEPT ![x] = t]
        /\ orders_by_exchange' = [orders_by_exchange EXCEPT ![x] = t]
    BY <1>2
  <2> HIDE DEF t
  <2>3. /\ t.state = "PartiallyFilled" /\ t.leaves > 0 /\ t.cum > 0
        /\ t.cum + t.leaves = t.quantity
    <3>1. q \in Int /\ q > 0
      BY <1>a
    <3>2. QED BY ONLY <3>1, <1>2, <2>1
  <2>4. Open(t)
    BY ONLY <2>3 DEF Open, RestingStates
  <2>5. Updated(x, t)
    BY <1>a, <1>2, <2>1, <2>2, <2>4 DEF Updated
  <2>6. QED BY <2>5 DEF t
<1>4. /\ active_by_exchange' \in [Ids -> OrderView \cup {NoOrder}]
      /\ orders_by_exchange' \in [Ids -> OrderView \cup {NoOrder}]
      /\ Active' = Active
      /\ \A y \in Active : active_by_exchange'[y].priority
                             = active_by_exchange[y].priority
      /\ ActiveSound' /\ LevelsFifo' /\ Located' /\ ClientsSound'
      /\ HistorySound' /\ Fresh'
  BY <1>3, UpdatedSound
<1>5. incoming' \in OrderView /\ IncomingSound'
  <2>1. \A c \in ClientIds : active_by_client'[c] \in {active_by_client[c], NoId}
    OBVIOUS
  <2>2. orders_by_exchange' = [orders_by_exchange EXCEPT ![x] = t]
        /\ t.client = active_by_exchange[x].client
    BY <1>3 DEF Updated
  <2>3. QED BY <1>a, <1>4, <2>1, <2>2, TakerSound
<1>6. total' \in [Sides -> [Prices -> Int]]
  BY <1>a DEF TypeOK
<1>7. TypeOK' /\ BookUncrossed'
  BY <1>4, <1>5, <1>6 DEF TypeOK, BookUncrossed
<1>8. QED BY <1>4, <1>5, <1>7

LEMMA MatchPreserves ==
  ASSUME IInv, MatchOne
  PROVE  IInv'
<1> USE DEF IInv
<1>1. PICK side \in Sides, p \in Prices :
        /\ side = Opposite(incoming.side) /\ p \in levels[side]
        /\ MatchMaker(side, p, Head(queue[side][p]))
  <2>1. incoming \in OrderView /\ Opposite(incoming.side) \in Sides
    BY OrderFields DEF MatchOne, CanMatch, TypeOK, Opposite, Sides
  <2>2. levels[Opposite(incoming.side)] \subseteq Prices
    BY <2>1 DEF TypeOK
  <2>3. QED BY <2>1, <2>2 DEF MatchOne, EligibleLevels
<1>2. PICK x, q : x = Head(queue[side][p]) /\ q = MatchQuantity(active_by_exchange[x])
  OBVIOUS
<1>m. MatchMaker(side, p, x)
  BY <1>1, <1>2
<1>3. CanMatch /\ MakerAndTaker(side, p, x, q)
  BY <1>1, <1>2, FrontIsMaker DEF MatchOne
<1>4. /\ active_by_exchange[x] \in OrderView
      /\ AfterFill(active_by_exchange[x], q).leaves = active_by_exchange[x].leaves - q
      /\ q \in Int /\ active_by_exchange[x].leaves \in Int
      /\ q <= active_by_exchange[x].leaves
  BY <1>3, OrderFields, AfterFillFields DEF MakerAndTaker, Open
<1>5. /\ incoming' = AfterFill(incoming, q)
      /\ total' = [total EXCEPT ![side][p] = total[side][p] - q]
      /\ orders_by_exchange' =
           [orders_by_exchange EXCEPT ![x] = AfterFill(active_by_exchange[x], q)]
  BY <1>1, <1>2, <1>3 DEF MatchMaker, MakerAndTaker, TypeOK
<1>6. Counters' \subseteq Ids \cup {NoId}
  BY AllocateMoves DEF MatchOne, TypeOK, Counters, orderIds
<1>7. UNCHANGED <<exchange_by_client, all_client_ids,
                  next_exchange_order_id, next_priority_sequence>>
  BY DEF MatchOne, orderIds
<1>8. CASE q = active_by_exchange[x].leaves
  <2>1. /\ queue' = [queue EXCEPT ![side][p] = Tail(queue[side][p])]
        /\ levels' = ErasedLevels(side, p) /\ Deactivate(x)
    BY ONLY <1>m, <1>2, <1>4, <1>8 DEF MatchMaker
  <2>2. QED BY <1>1, <1>2, <1>3, <1>5, <1>6, <1>7, <1>8, <2>1, MakerFilledPreserves
<1>9. CASE q # active_by_exchange[x].leaves
  <2>1. /\ active_by_exchange' =
             [active_by_exchange EXCEPT ![x] = AfterFill(active_by_exchange[x], q)]
        /\ UNCHANGED <<queue, levels, active_by_client>>
    BY ONLY <1>m, <1>2, <1>4, <1>9 DEF MatchMaker
  <2>2. QED BY <1>1, <1>2, <1>3, <1>5, <1>6, <1>7, <1>9, <2>1, MakerLeftPreserves
<1>10. QED BY <1>8, <1>9

LEMMA ReplacePreserves ==
  ASSUME IInv, NEW cmd \in ReplaceCommand, Replace(cmd)
  PROVE  IInv'
<1> USE DEF IInv
<1>1. PICK x, o :
      /\ x = cmd.id /\ x \in Active /\ RemoveActive(x)
      /\ AcceptableOrder(o) /\ ~o.postOnly /\ Accept(o)
      /\ orders_by_exchange' = [orders_by_exchange EXCEPT ![x] = Terminated(x, "Replaced"),
                                                          ![o.id] = o]
  BY ReplaceAccepted DEF Replace
<1>2. PICK t : /\ t = Terminated(x, "Replaced") /\ t \in OrderView
               /\ t.id = x /\ t.client = active_by_exchange[x].client
               /\ t.priority = active_by_exchange[x].priority /\ Closed(t)
  <2> DEFINE a == active_by_exchange[x]
             t == Terminated(x, "Replaced")
  <2>1. a \in OrderView /\ "Replaced" \in TerminalStates /\ x \in Ids
    BY <1>1, ActiveIsOrder DEF TerminalStates
  <2>2. /\ t \in OrderView /\ t.id = a.id /\ t.client = a.client
        /\ t.quantity = a.quantity /\ t.cum = a.cum
        /\ t.priority = a.priority /\ t.leaves = 0 /\ t.state = "Replaced"
    BY <2>1, TerminatedFields
  <2>3. a.id = x /\ Open(a) /\ a.cum \in Int /\ a.leaves \in Int /\ a.quantity \in Int
    BY <1>1, <2>1, OrderFields DEF ActiveSound
  <2> HIDE DEF t
  <2>4. Closed(t)
    BY <2>2, <2>3 DEF Closed, Open
  <2>5. QED BY <2>2, <2>3, <2>4 DEF t
<1>3. Left(x) /\ total' \in [Sides -> [Prices -> Int]]
  BY <1>1, RemoveActiveLeaves
<1>4. /\ o \in OrderView /\ o.id \in Ids /\ o.client \in ClientIds /\ o # NoOrder
      /\ o.id \notin Active /\ orders_by_exchange[o.id] = NoOrder
      /\ exchange_by_client[o.client] = NoId
      /\ active_by_client[o.client] = NoId
      /\ \A y \in Ids : orders_by_exchange[y] # NoOrder =>
              orders_by_exchange[y].client # o.client
  BY <1>1, NewIsNew, OrderFields DEF AcceptableOrder
<1>5. /\ x \in Ids /\ x # o.id /\ active_by_exchange[x] \in OrderView
      /\ orders_by_exchange[x] = active_by_exchange[x]
      /\ orders_by_exchange[x] # NoOrder /\ t # NoOrder
  BY <1>1, <1>2, <1>4, ActiveIsOrder, OrderFields DEF ActiveSound
<1>6. /\ orders_by_exchange' \in [Ids -> OrderView \cup {NoOrder}]
      /\ \A y \in Ids : orders_by_exchange'[y] =
           IF y = o.id THEN o ELSE IF y = x THEN t ELSE orders_by_exchange[y]
  BY <1>1, <1>2, <1>4, <1>5 DEF TypeOK
<1>7. /\ all_client_ids' = all_client_ids \cup {o.client}
      /\ \A c \in ClientIds : exchange_by_client'[c] =
           IF c = o.client THEN o.id ELSE exchange_by_client[c]
  BY <1>1, <1>4 DEF Accept, TypeOK
<1>8. /\ Fresh' /\ IncomingSound'
      /\ all_client_ids' \subseteq ClientIds
      /\ Counters' \subseteq Ids \cup {NoId}
      /\ exchange_by_client' \in [ClientIds -> Ids \cup {NoId}]
      /\ incoming' \in OrderView \cup {NoOrder}
  <2>1. active_by_client'[o.client] = NoId
        /\ active_by_client' \in [ClientIds -> Ids \cup {NoId}]
    BY <1>3, <1>4 DEF Left
  <2>2. \A y \in Ids : active_by_exchange'[y] \in {active_by_exchange[y], NoOrder}
    BY <1>3 DEF Left
  <2>3. \A y \in Ids \ {o.id} :
           /\ orders_by_exchange'[y] # NoOrder <=> orders_by_exchange[y] # NoOrder
           /\ orders_by_exchange[y] # NoOrder =>
                orders_by_exchange'[y].priority = orders_by_exchange[y].priority
    BY <1>2, <1>5, <1>6
  <2>4. orders_by_exchange'[o.id] = o
    BY <1>4, <1>6
  <2>5. QED BY <1>1, <1>6, <2>1, <2>2, <2>3, <2>4, EnteredSound
<1>9. TypeOK'
  BY <1>3, <1>6, <1>8 DEF TypeOK, Left
<1>10. ActiveSound'
  <2> SUFFICES ASSUME NEW y \in Active'
               PROVE  LET h == active_by_exchange'[y]
                      IN  /\ h.id = y /\ h.price \in Prices /\ h.tif = "GTC"
                          /\ Open(h)
                          /\ orders_by_exchange'[y] = h
                          /\ active_by_client'[h.client] = y
    BY DEF ActiveSound
  <2>1. y \in Active /\ y # x /\ y \in Ids /\ y # o.id
        /\ active_by_exchange'[y] = active_by_exchange[y]
        /\ orders_by_exchange'[y] = orders_by_exchange[y]
    BY <1>3, <1>4, <1>6, ActiveIsOrder DEF Left
  <2>2. active_by_exchange[y].client \in ClientIds
        /\ active_by_exchange[y].client # active_by_exchange[x].client
    BY <1>1, <2>1, ActiveIsOrder, OrderFields DEF ActiveSound
  <2>3. QED BY <1>3, <2>1, <2>2 DEF ActiveSound, Left
<1>11. ClientsSound'
  <2> SUFFICES ASSUME NEW c \in ClientIds
               PROVE  /\ active_by_client'[c] # NoId =>
                           /\ active_by_client'[c] \in Active'
                           /\ active_by_exchange'[active_by_client'[c]].client = c
                      /\ c \in all_client_ids' <=> exchange_by_client'[c] # NoId
                      /\ exchange_by_client'[c] # NoId =>
                           /\ orders_by_exchange'[exchange_by_client'[c]] # NoOrder
                           /\ orders_by_exchange'[exchange_by_client'[c]].client = c
    BY DEF ClientsSound
  <2>1. ASSUME active_by_client'[c] # NoId
        PROVE  /\ active_by_client'[c] \in Active'
               /\ active_by_exchange'[active_by_client'[c]].client = c
    <3>1. c # active_by_exchange[x].client /\ active_by_client'[c] = active_by_client[c]
      BY <2>1, <1>3 DEF Left
    <3>2. active_by_client[c] \in Active /\ active_by_exchange[active_by_client[c]].client = c
      BY <2>1, <3>1 DEF ClientsSound
    <3>3. QED BY <3>1, <3>2, <1>3, ActiveIsOrder DEF Left
  <2>2. c \in all_client_ids' <=> exchange_by_client'[c] # NoId
    BY <1>4, <1>7 DEF ClientsSound, Ids, NoId
  <2>3. ASSUME exchange_by_client'[c] # NoId
        PROVE  /\ orders_by_exchange'[exchange_by_client'[c]] # NoOrder
               /\ orders_by_exchange'[exchange_by_client'[c]].client = c
    <3>1. CASE c = o.client
      BY <3>1, <1>4, <1>6, <1>7
    <3>2. CASE c # o.client
      <4>1. /\ exchange_by_client[c] \in Ids
            /\ exchange_by_client'[c] = exchange_by_client[c]
            /\ orders_by_exchange[exchange_by_client[c]] # NoOrder
            /\ orders_by_exchange[exchange_by_client[c]].client = c
        BY <2>3, <3>2, <1>7 DEF ClientsSound, TypeOK
      <4>2. QED BY <4>1, <1>2, <1>4, <1>5, <1>6
    <3>3. QED BY <3>1, <3>2
  <2>4. QED BY <2>1, <2>2, <2>3
<1>12. HistorySound'
  <2> SUFFICES ASSUME NEW y \in Ids, orders_by_exchange'[y] # NoOrder
               PROVE  LET h == orders_by_exchange'[y]
                      IN  /\ h.id = y /\ exchange_by_client'[h.client] = y
                          /\ Open(h) \/ Closed(h)
    BY DEF HistorySound
  <2>1. CASE y = o.id
    <3>1. Open(o)
      BY <1>1, <1>4, OrderFields DEF AcceptableOrder, Open, RestingStates
    <3>2. QED BY <2>1, <3>1, <1>4, <1>6, <1>7
  <2>2. CASE y = x
    <3>1. t.client \in ClientIds /\ t.client # o.client
          /\ exchange_by_client[t.client] = x
      BY <1>2, <1>4, <1>5, OrderFields DEF HistorySound
    <3>2. QED BY <2>2, <3>1, <1>2, <1>5, <1>6, <1>7
  <2>3. CASE y # o.id /\ y # x
    <3>1. orders_by_exchange[y] # NoOrder /\ orders_by_exchange'[y] = orders_by_exchange[y]
      BY <2>3, <1>6
    <3>2. orders_by_exchange[y].client # o.client
          /\ orders_by_exchange[y].client \in ClientIds
      BY <1>4, <1>6, <3>1, OrderFields
    <3>3. QED BY <3>1, <3>2, <1>7 DEF HistorySound
  <2>4. QED BY <2>1, <2>2, <2>3
<1>13. LevelsFifo' /\ Located' /\ BookUncrossed'
  BY <1>3 DEF Left
<1>14. QED BY <1>8, <1>9, <1>10, <1>11, <1>12, <1>13

\* A call that returns without adding to the book.
LEMMA ReturnPreserves ==
  ASSUME IInv, incoming # NoOrder, NEW t \in OrderView, Closed(t),
         t.id = incoming.id, t.client = incoming.client,
         t.priority = incoming.priority,
         Return(t), UNCHANGED <<book, active_by_exchange, active_by_client>>
  PROVE  IInv'
<1> USE DEF IInv
<1>1. /\ incoming.id \in Ids /\ t # NoOrder
      /\ incoming.id \notin Active
      /\ orders_by_exchange[incoming.id] # NoOrder
      /\ orders_by_exchange[incoming.id].client = incoming.client
      /\ orders_by_exchange[incoming.id].priority = incoming.priority
      /\ exchange_by_client[incoming.client] = incoming.id
  BY OrderFields DEF TypeOK, IncomingSound
<1>2. PICK x : x = incoming.id
  OBVIOUS
<1>3. UNCHANGED <<levels, queue, total, active_by_exchange, active_by_client,
                  exchange_by_client, all_client_ids,
                  next_exchange_order_id, next_priority_sequence,
                  next_match_sequence, next_execution_id>>
      /\ incoming' = NoOrder
  BY DEF Return, book, orderIds, matchIds
<1>4. /\ orders_by_exchange' \in [Ids -> OrderView \cup {NoOrder}]
      /\ \A y \in Ids : orders_by_exchange'[y] = IF y = x THEN t ELSE orders_by_exchange[y]
  BY <1>1, <1>2 DEF Return, TypeOK
<1>5. Active' = Active
  BY <1>3 DEF Active
<1>6. TypeOK'
  BY <1>3, <1>4 DEF TypeOK, Counters
<1>7. ActiveSound'
  <2>1. \A y \in Active : orders_by_exchange'[y] = orders_by_exchange[y]
    BY <1>1, <1>2, <1>4, ActiveIsOrder
  <2>2. QED BY <1>3, <1>5, <2>1 DEF ActiveSound
<1>8. LevelsFifo' /\ Located' /\ BookUncrossed'
  BY <1>3, <1>5 DEF LevelsFifo, Located, BookUncrossed
<1>9. ClientsSound'
  <2> SUFFICES ASSUME NEW c \in ClientIds
               PROVE  exchange_by_client[c] # NoId =>
                           /\ orders_by_exchange'[exchange_by_client[c]] # NoOrder
                           /\ orders_by_exchange'[exchange_by_client[c]].client = c
    BY <1>3, <1>5 DEF ClientsSound
  <2>1. exchange_by_client[c] # NoId => exchange_by_client[c] \in Ids
    BY DEF TypeOK
  <2>2. QED BY <1>1, <1>2, <1>4, <2>1 DEF ClientsSound
<1>10. HistorySound' /\ Fresh'
  BY <1>1, <1>2, <1>3, <1>4 DEF HistorySound, Fresh
<1>11. IncomingSound'
  BY <1>3 DEF IncomingSound
<1>12. QED BY <1>6, <1>7, <1>8, <1>9, <1>10, <1>11

LEMMA FinishFilledPreserves ==
  ASSUME IInv, FinishFilled
  PROVE  IInv'
<1> DEFINE t == [incoming EXCEPT !.state = "Filled"]
<1>1. /\ incoming \in OrderView /\ incoming.leaves = 0 /\ incoming # NoOrder
      /\ incoming.cum + incoming.leaves = incoming.quantity
      /\ incoming.cum \in Int
  BY OrderFields DEF FinishFilled, IInv, TypeOK, IncomingSound
<1>2. "Filled" \in RestingStates \cup TerminalStates
  BY DEF TerminalStates
<1>3. t \in OrderView /\ t.id = incoming.id /\ t.client = incoming.client
      /\ t.priority = incoming.priority /\ t.leaves = incoming.leaves
      /\ t.cum = incoming.cum /\ t.quantity = incoming.quantity /\ t.state = "Filled"
  BY <1>1, <1>2 DEF OrderView
<1> HIDE DEF t
<1>4. Closed(t)
  BY <1>1, <1>3 DEF Closed
<1>5. Return(t) /\ UNCHANGED <<book, active_by_exchange, active_by_client>>
  BY DEF FinishFilled, t
<1>6. QED BY <1>1, <1>3, <1>4, <1>5, ReturnPreserves

LEMMA FinishCancelledPreserves ==
  ASSUME IInv, FinishCancelled
  PROVE  IInv'
<1> DEFINE t == [incoming EXCEPT !.leaves = 0, !.state = "Cancelled"]
<1>1. /\ incoming \in OrderView /\ incoming.leaves > 0 /\ incoming # NoOrder
      /\ incoming.cum + incoming.leaves = incoming.quantity
      /\ incoming.cum \in Int /\ incoming.leaves \in Int
  BY OrderFields DEF FinishCancelled, IInv, TypeOK, IncomingSound
<1>2. "Cancelled" \in RestingStates \cup TerminalStates /\ 0 \in 0..QuantityLimit
  BY Constants DEF TerminalStates
<1>3. t \in OrderView /\ t.id = incoming.id /\ t.client = incoming.client
      /\ t.priority = incoming.priority /\ t.leaves = 0
      /\ t.cum = incoming.cum /\ t.quantity = incoming.quantity /\ t.state = "Cancelled"
  BY <1>1, <1>2 DEF OrderView
<1> HIDE DEF t
<1>4. Closed(t)
  BY <1>1, <1>3 DEF Closed
<1>5. Return(t) /\ UNCHANGED <<book, active_by_exchange, active_by_client>>
  BY DEF FinishCancelled, t
<1>6. QED BY <1>1, <1>3, <1>4, <1>5, ReturnPreserves

\* The record of an order that comes to rest.
RestingRecord ==
  [incoming EXCEPT !.state = IF incoming.cum = 0 THEN "Live" ELSE "PartiallyFilled"]

LEMMA RestingFields ==
  ASSUME IInv, incoming # NoOrder, incoming.leaves > 0, MayRest(incoming)
  PROVE  /\ RestingRecord \in OrderView /\ Open(RestingRecord)
         /\ RestingRecord.id = incoming.id /\ RestingRecord.client = incoming.client
         /\ RestingRecord.side = incoming.side /\ RestingRecord.price = incoming.price
         /\ RestingRecord.priority = incoming.priority
         /\ RestingRecord.tif = "GTC" /\ RestingRecord.leaves = incoming.leaves
<1> DEFINE t == RestingRecord
<1>1. /\ incoming \in OrderView
      /\ incoming.cum + incoming.leaves = incoming.quantity
      /\ incoming.cum \in Nat /\ incoming.tif = "GTC"
  BY OrderFields DEF IInv, TypeOK, IncomingSound, MayRest
<1>2. /\ "Live" \in RestingStates \cup TerminalStates
      /\ "PartiallyFilled" \in RestingStates \cup TerminalStates
  BY DEF RestingStates
<1>3. /\ t \in OrderView /\ t.id = incoming.id /\ t.client = incoming.client
      /\ t.side = incoming.side /\ t.price = incoming.price
      /\ t.priority = incoming.priority /\ t.tif = incoming.tif
      /\ t.leaves = incoming.leaves
      /\ t.cum = incoming.cum /\ t.quantity = incoming.quantity
      /\ t.state = IF incoming.cum = 0 THEN "Live" ELSE "PartiallyFilled"
  BY <1>1, <1>2 DEF OrderView, RestingRecord
<1> HIDE DEF t
<1>4. Open(t)
  BY <1>1, <1>3 DEF Open, RestingStates
<1>5. QED BY <1>1, <1>3, <1>4 DEF t

LEMMA FinishRestPreserves ==
  ASSUME IInv, FinishRest
  PROVE  IInv'
<1> USE DEF IInv
<1>1. /\ incoming # NoOrder /\ incoming.leaves > 0 /\ ~CanMatch /\ MayRest(incoming)
      /\ incoming \in OrderView
  BY DEF FinishRest, TypeOK
<1>2. PICK t, x, s, p :
      /\ t = RestingRecord /\ x = incoming.id /\ s = incoming.side /\ p = incoming.price
      /\ t \in OrderView /\ Open(t) /\ t.id = x /\ t.client = incoming.client
      /\ t.side = s /\ t.price = p /\ t.priority = incoming.priority /\ t.tif = "GTC"
  BY <1>1, RestingFields
<1>3. /\ x \in Ids /\ s \in Sides /\ p \in Prices /\ t # NoOrder
      /\ t.client \in ClientIds /\ t.leaves \in Int
      /\ x \notin Active /\ active_by_exchange[x] = NoOrder
      /\ orders_by_exchange[x] # NoOrder
      /\ orders_by_exchange[x].client = t.client
      /\ orders_by_exchange[x].priority = t.priority
      /\ exchange_by_client[t.client] = x
      /\ active_by_client[t.client] = NoId
      /\ \A y \in Active : active_by_exchange[y].priority < t.priority
  BY <1>1, <1>2, OrderFields DEF IncomingSound, Active
<1>4. /\ Return(t)
      /\ levels' = [levels EXCEPT ![s] = levels[s] \cup {p}]
      /\ total' = [total EXCEPT ![s][p] = total[s][p] + t.leaves]
      /\ queue' = [queue EXCEPT ![s][p] = Append(queue[s][p], x)]
      /\ active_by_exchange' = [active_by_exchange EXCEPT ![x] = t]
      /\ active_by_client' = [active_by_client EXCEPT ![t.client] = x]
  BY <1>2, <1>3 DEF FinishRest, RestingRecord, TypeOK
<1>5. UNCHANGED <<exchange_by_client, all_client_ids,
                  next_exchange_order_id, next_priority_sequence,
                  next_match_sequence, next_execution_id>>
      /\ incoming' = NoOrder
  BY <1>4 DEF Return, orderIds, matchIds
<1>6. /\ orders_by_exchange' \in [Ids -> OrderView \cup {NoOrder}]
      /\ \A y \in Ids : orders_by_exchange'[y] = IF y = x THEN t ELSE orders_by_exchange[y]
  BY <1>2, <1>3, <1>4 DEF Return, TypeOK
<1>7. /\ active_by_exchange' \in [Ids -> OrderView \cup {NoOrder}]
      /\ \A y \in Ids : active_by_exchange'[y] = IF y = x THEN t ELSE active_by_exchange[y]
      /\ active_by_client' \in [ClientIds -> Ids \cup {NoId}]
      /\ \A c \in ClientIds : active_by_client'[c] =
           IF c = t.client THEN x ELSE active_by_client[c]
  BY <1>2, <1>3, <1>4 DEF TypeOK
<1>8. Active' = Active \cup {x}
  BY <1>3, <1>7 DEF Active
<1>9. PICK old, new, n :
      /\ old = queue[s][p] /\ new = Append(queue[s][p], x) /\ n = Len(old)
      /\ new \in Seq(Ids) /\ n \in Nat /\ Len(new) = n + 1 /\ new # <<>>
      /\ \A i \in 1..n : new[i] = old[i]
      /\ new[n + 1] = x
  <2>1. queue[s][p] \in Seq(Ids)
    BY <1>3 DEF TypeOK
  <2>2. PICK old : old = queue[s][p] /\ old \in Seq(Ids)
    BY <2>1
  <2>3. /\ Append(old, x) \in Seq(Ids) /\ Len(old) \in Nat
        /\ Append(old, x) # <<>>
        /\ Len(Append(old, x)) = Len(old) + 1
        /\ \A i \in 1..Len(old) : Append(old, x)[i] = old[i]
        /\ Append(old, x)[Len(old) + 1] = x
    BY ONLY <2>2, <1>3, AppendProperties, LenProperties
  <2>4. QED BY <2>2, <2>3
<1>10. /\ queue' \in [Sides -> [Prices -> Seq(Ids)]]
       /\ \A u \in Sides, r \in Prices :
            /\ u = s /\ r = p => queue'[u][r] = new /\ queue[u][r] = old
            /\ ~(u = s /\ r = p) => queue'[u][r] = queue[u][r]
  BY <1>3, <1>4, <1>9 DEF TypeOK
<1>11. /\ levels' \in [Sides -> SUBSET Prices]
       /\ \A u \in Sides : levels'[u] = IF u = s THEN levels[s] \cup {p} ELSE levels[u]
  BY <1>3, <1>4 DEF TypeOK
<1>12. total' \in [Sides -> [Prices -> Int]]
  BY <1>3, <1>4 DEF TypeOK
<1>13. TypeOK'
  BY <1>5, <1>6, <1>7, <1>10, <1>11, <1>12 DEF TypeOK, Counters
<1>14. ActiveSound'
  <2> SUFFICES ASSUME NEW y \in Active'
               PROVE  LET h == active_by_exchange'[y]
                      IN  /\ h.id = y /\ h.price \in Prices /\ h.tif = "GTC"
                          /\ Open(h)
                          /\ orders_by_exchange'[y] = h
                          /\ active_by_client'[h.client] = y
    BY DEF ActiveSound
  <2>1. CASE y = x
    BY <2>1, <1>2, <1>3, <1>6, <1>7
  <2>2. CASE y # x
    <3>1. y \in Active /\ y \in Ids /\ active_by_exchange'[y] = active_by_exchange[y]
          /\ orders_by_exchange'[y] = orders_by_exchange[y]
      BY <2>2, <1>6, <1>7, <1>8, ActiveIsOrder
    <3>2. active_by_exchange[y].client # t.client
          /\ active_by_exchange[y].client \in ClientIds
      BY <3>1, <1>3, ActiveIsOrder, OrderFields DEF ActiveSound, Ids, NoId
    <3>3. QED BY <3>1, <3>2, <1>7 DEF ActiveSound
  <2>3. QED BY <2>1, <2>2
<1>15. ASSUME NEW u \in Sides, NEW r \in Prices, NEW j \in 1..Len(queue'[u][r])
       PROVE  \/ /\ u = s /\ r = p /\ j = n + 1
                 /\ queue'[u][r][j] = x
              \/ /\ j \in 1..Len(queue[u][r])
                 /\ queue'[u][r][j] = queue[u][r][j]
                 /\ queue[u][r][j] \in Active /\ queue[u][r][j] # x
                 /\ active_by_exchange'[queue[u][r][j]] = active_by_exchange[queue[u][r][j]]
  <2>1. CASE u = s /\ r = p /\ j = n + 1
    BY <2>1, <1>9, <1>10
  <2>2. CASE ~(u = s /\ r = p /\ j = n + 1)
    <3>1. j \in 1..Len(queue[u][r]) /\ queue'[u][r][j] = queue[u][r][j]
      <4>1. CASE u = s /\ r = p
        <5>1. queue'[u][r] = new /\ queue[u][r] = old
          BY <4>1, <1>10
        <5>2. j \in 1..n
          BY <2>2, <4>1, <5>1, <1>9
        <5>3. QED BY <5>1, <5>2, <1>9
      <4>2. CASE ~(u = s /\ r = p)
        BY <4>2, <1>10
      <4>3. QED BY <4>1, <4>2
    <3>2. PICK y : y = queue[u][r][j]
      OBVIOUS
    <3>3. y \in Active /\ y # x /\ y \in Ids
      BY <3>1, <3>2, <1>3, QueuedIsActive, ActiveIsOrder
    <3>4. QED BY <3>1, <3>2, <3>3, <1>7
  <2>3. QED BY <2>1, <2>2
<1>16. LevelsFifo'
  <2>1. ASSUME NEW u \in Sides, NEW r \in Prices
        PROVE  r \in levels'[u] <=> queue'[u][r] # <<>>
    <3>1. CASE u = s /\ r = p
      BY <3>1, <1>9, <1>10, <1>11
    <3>2. CASE ~(u = s /\ r = p)
      <4>1. queue'[u][r] = queue[u][r] /\ (r \in levels'[u] <=> r \in levels[u])
        BY <3>2, <1>10, <1>11
      <4>2. QED BY <4>1 DEF LevelsFifo
    <3>3. QED BY <3>1, <3>2
  <2>2. ASSUME NEW u \in Sides, NEW r \in Prices, NEW j \in 1..Len(queue'[u][r])
        PROVE  LET order == active_by_exchange'[queue'[u][r][j]]
               IN  /\ order # NoOrder
                   /\ order.side = u /\ order.price = r
                   /\ order.leaves > 0 /\ order.state \in RestingStates
    <3>1. CASE u = s /\ r = p /\ queue'[u][r][j] = x
      BY <3>1, <1>2, <1>3, <1>7 DEF Open
    <3>2. CASE /\ j \in 1..Len(queue[u][r])
               /\ queue'[u][r][j] = queue[u][r][j]
               /\ active_by_exchange'[queue[u][r][j]] = active_by_exchange[queue[u][r][j]]
      BY <3>2 DEF LevelsFifo
    <3>3. QED BY <3>1, <3>2, <1>15
  <2>3. ASSUME NEW u \in Sides, NEW r \in Prices,
               NEW j \in 1..Len(queue'[u][r]), NEW j2 \in 1..Len(queue'[u][r]), j < j2
        PROVE  active_by_exchange'[queue'[u][r][j]].priority
                 < active_by_exchange'[queue'[u][r][j2]].priority
    <3>1. Len(queue'[u][r]) \in Nat /\ n \in Nat
          /\ (u = s /\ r = p => Len(queue'[u][r]) = n + 1)
      BY <1>9, <1>10, LenProperties
    <3>2. /\ j \in 1..Len(queue[u][r])
          /\ queue'[u][r][j] = queue[u][r][j]
          /\ queue[u][r][j] \in Active
          /\ active_by_exchange'[queue[u][r][j]] = active_by_exchange[queue[u][r][j]]
      BY <2>3, <3>1, <1>15
    <3>3. CASE u = s /\ r = p /\ queue'[u][r][j2] = x
      BY <3>2, <3>3, <1>3, <1>7
    <3>4. CASE /\ j2 \in 1..Len(queue[u][r])
               /\ queue'[u][r][j2] = queue[u][r][j2]
               /\ active_by_exchange'[queue[u][r][j2]] = active_by_exchange[queue[u][r][j2]]
      BY <2>3, <3>2, <3>4 DEF LevelsFifo
    <3>5. QED BY <3>3, <3>4, <1>15
  <2>4. QED BY <2>1, <2>2, <2>3 DEF LevelsFifo
<1>17. Located'
  <2> SUFFICES ASSUME NEW y \in Active'
               PROVE  LET h == active_by_exchange'[y]
                      IN  \E j \in 1..Len(queue'[h.side][h.price]) :
                            queue'[h.side][h.price][j] = y
    BY DEF Located
  <2>1. CASE y = x
    <3>1. active_by_exchange'[y].side = s /\ active_by_exchange'[y].price = p
      BY <2>1, <1>2, <1>3, <1>7
    <3>2. n + 1 \in 1..Len(queue'[s][p]) /\ queue'[s][p][n + 1] = x
      BY <1>3, <1>9, <1>10
    <3>3. QED BY <2>1, <3>1, <3>2
  <2>2. CASE y # x
    <3>1. y \in Active /\ active_by_exchange'[y] = active_by_exchange[y]
      BY <2>2, <1>7, <1>8, ActiveIsOrder
    <3>2. PICK u \in Sides, r \in Prices :
            u = active_by_exchange[y].side /\ r = active_by_exchange[y].price
      BY <3>1, ActiveIsOrder, OrderFields DEF ActiveSound
    <3>3. PICK j \in 1..Len(queue[u][r]) : queue[u][r][j] = y
      BY <3>1, <3>2 DEF Located
    <3>4. j \in 1..Len(queue'[u][r]) /\ queue'[u][r][j] = y
      <4>1. CASE u = s /\ r = p
        <5>1. queue'[u][r] = new /\ queue[u][r] = old
          BY <4>1, <1>10
        <5>2. QED BY <5>1, <3>3, <1>9
      <4>2. CASE ~(u = s /\ r = p)
        BY <4>2, <3>3, <1>10
      <4>3. QED BY <4>1, <4>2
    <3>5. QED BY <3>1, <3>2, <3>4
  <2>3. QED BY <2>1, <2>2
<1>18. ClientsSound'
  <2> SUFFICES ASSUME NEW c \in ClientIds
               PROVE  /\ active_by_client'[c] # NoId =>
                           /\ active_by_client'[c] \in Active'
                           /\ active_by_exchange'[active_by_client'[c]].client = c
                      /\ exchange_by_client[c] # NoId =>
                           /\ orders_by_exchange'[exchange_by_client[c]] # NoOrder
                           /\ orders_by_exchange'[exchange_by_client[c]].client = c
    BY <1>5 DEF ClientsSound
  <2>1. ASSUME active_by_client'[c] # NoId
        PROVE  /\ active_by_client'[c] \in Active'
               /\ active_by_exchange'[active_by_client'[c]].client = c
    <3>1. CASE c = t.client
      BY <3>1, <1>3, <1>7, <1>8
    <3>2. CASE c # t.client
      <4>1. active_by_client'[c] = active_by_client[c]
        BY <3>2, <1>7
      <4>2. active_by_client[c] \in Active
            /\ active_by_exchange[active_by_client[c]].client = c
        BY <2>1, <4>1 DEF ClientsSound
      <4>3. QED BY <4>1, <4>2, <1>3, <1>7, <1>8, ActiveIsOrder
    <3>3. QED BY <3>1, <3>2
  <2>2. exchange_by_client[c] # NoId => exchange_by_client[c] \in Ids
    BY DEF TypeOK
  <2>3. QED BY <2>1, <2>2, <1>3, <1>6 DEF ClientsSound
<1>19. HistorySound'
  <2> SUFFICES ASSUME NEW y \in Ids, orders_by_exchange'[y] # NoOrder
               PROVE  LET h == orders_by_exchange'[y]
                      IN  /\ h.id = y /\ exchange_by_client[h.client] = y
                          /\ Open(h) \/ Closed(h)
    BY <1>5 DEF HistorySound
  <2>1. CASE y = x
    BY <2>1, <1>2, <1>3, <1>6
  <2>2. CASE y # x
    BY <2>2, <1>6 DEF HistorySound
  <2>3. QED BY <2>1, <2>2
<1>20. Fresh'
  BY <1>3, <1>5, <1>6 DEF Fresh
<1>21. BookUncrossed'
  <2>1. ~would_cross(s, p)
    BY <1>1, <1>2 DEF CanMatch
  <2>2. \A r \in levels[Opposite(s)] : ~Eligible(s, p, r)
    BY <2>1 DEF would_cross, EligibleLevels
  <2>3. levels["Buy"] \subseteq Prices /\ levels["Sell"] \subseteq Prices
    BY DEF TypeOK, Sides
  <2>4. p # 0 /\ p \in Int /\ Prices \subseteq Int
    BY <1>3, Constants
  <2>5. CASE s = "Buy"
    <3>1. \A r \in levels["Sell"] : ~(r <= p) /\ r \in Int
      BY <2>2, <2>3, <2>4, <2>5 DEF Opposite, Eligible
    <3>2. \A r \in levels["Sell"] : p < r
      BY <3>1, <2>4
    <3>3. QED BY <3>2, <2>5, <1>11 DEF BookUncrossed, Sides
  <2>6. CASE s = "Sell"
    <3>1. \A r \in levels["Buy"] : ~(r >= p) /\ r \in Int
      BY <2>2, <2>3, <2>4, <2>6 DEF Opposite, Eligible
    <3>2. \A r \in levels["Buy"] : r < p
      BY <3>1, <2>4
    <3>3. QED BY <3>2, <2>6, <1>11 DEF BookUncrossed, Sides
  <2>7. QED BY <2>5, <2>6, <1>3 DEF Sides
<1>22. IncomingSound'
  BY <1>5 DEF IncomingSound
<1>23. QED BY <1>13, <1>14, <1>16, <1>17, <1>18, <1>19, <1>20, <1>21, <1>22

LEMMA InitIInv == Init => IInv
<1> SUFFICES ASSUME Init PROVE IInv
  OBVIOUS
<1>1. 1 \in Ids
  BY Constants DEF Ids
<1>2. /\ \A s \in Sides : levels[s] = {}
      /\ \A s \in Sides, p \in Prices : queue[s][p] = <<>> /\ queue[s][p] \in Seq(Ids)
      /\ \A x \in Ids : active_by_exchange[x] = NoOrder /\ orders_by_exchange[x] = NoOrder
      /\ \A c \in ClientIds : active_by_client[c] = NoId /\ exchange_by_client[c] = NoId
      /\ all_client_ids = {} /\ incoming = NoOrder
  BY DEF Init
<1>3. TypeOK
  BY <1>1 DEF Init, TypeOK, Counters
<1>4. Active = {}
  BY <1>2 DEF Active
<1>5. ActiveSound /\ Located
  BY <1>4 DEF ActiveSound, Located
<1>6. LevelsFifo
  <2>1. \A s \in Sides, p \in Prices : Len(queue[s][p]) = 0
    BY <1>2
  <2>2. QED BY <1>2, <2>1 DEF LevelsFifo
<1>7. ClientsSound /\ HistorySound /\ Fresh /\ IncomingSound
  BY <1>2 DEF ClientsSound, HistorySound, Fresh, IncomingSound
<1>8. BookUncrossed
  BY <1>2 DEF BookUncrossed, Sides
<1>9. QED BY <1>3, <1>5, <1>6, <1>7, <1>8 DEF IInv

LEMMA NextIInv == IInv /\ [Next]_vars => IInv'
<1> SUFFICES ASSUME IInv, [Next]_vars PROVE IInv'
  OBVIOUS
<1>1. CASE \E cmd \in Submits : Submit(cmd)
  BY <1>1, SubmitPreserves
<1>2. CASE \E c \in ClientIds, x \in Ids : Cancel(c, x)
  BY <1>2, CancelPreserves
<1>3. CASE \E cmd \in ReplaceCommand : Replace(cmd)
  BY <1>3, ReplacePreserves
<1>4. CASE MatchOne
  BY <1>4, MatchPreserves
<1>5. CASE FinishFilled
  BY <1>5, FinishFilledPreserves
<1>6. CASE FinishRest
  BY <1>6, FinishRestPreserves
<1>7. CASE FinishCancelled
  BY <1>7, FinishCancelledPreserves
<1>8. CASE UNCHANGED vars
  BY <1>8 DEF vars, IInv, TypeOK, Counters, Active, ActiveSound, LevelsFifo, Located,
              ClientsSound, HistorySound, Fresh, IncomingSound, BookUncrossed,
              would_cross, EligibleLevels
<1>9. QED BY <1>1, <1>2, <1>3, <1>4, <1>5, <1>6, <1>7, <1>8 DEF Next

-----------------------------------------------------------------------------
(***************************************************************************)
(* The theorems.                                                           *)
(***************************************************************************)

\* The inductive invariant holds in every reachable state of the engine, for
\* every instrument, every counter width and every set of commands.
THEOREM Invariance == Spec => []IInv
BY InitIInv, NextIInv, PTL DEF Spec

\* Every member of the engine keeps its type, also between two iterations of
\* the matching loop.
THEOREM TypeCorrect == Spec => []TypeOK
<1>1. IInv => TypeOK
  BY DEF IInv
<1>2. QED BY <1>1, Invariance, PTL

\* submit, replace and cancel never leave or show a crossed book.
THEOREM NeverCrossed == Spec => []BookUncrossed
<1>1. IInv => BookUncrossed
  BY DEF IInv
<1>2. QED BY <1>1, Invariance, PTL

\* Every level of the book is a non-empty queue of live orders of its own
\* side and price, in the order in which their priorities were allocated.
THEOREM PriceTimeQueues == Spec => []LevelsFifo
<1>1. IInv => LevelsFifo
  BY DEF IInv
<1>2. QED BY <1>1, Invariance, PTL

\* The locator map, the client maps, the history and the queues of the book
\* never disagree about an order.
THEOREM IndicesNeverDisagree == Spec => []IndicesAgree
<1>1. IInv => IndicesAgree
  BY DEF IInv, ActiveSound, Located, ClientsSound, IndicesAgree
<1>2. QED BY <1>1, Invariance, PTL

\* No lot of an order is lost or invented by matching, cancel or replace.
THEOREM LotsConserved == Spec => []QuantityConserved
<1>1. ASSUME IInv PROVE QuantityConserved
  <2> SUFFICES ASSUME NEW x \in Ids, orders_by_exchange[x] # NoOrder
               PROVE  LET order == orders_by_exchange[x]
                      IN  \/ /\ order.state \in RestingStates
                             /\ order.cum + order.leaves = order.quantity
                             /\ order.state = "PartiallyFilled" <=> order.cum > 0
                          \/ /\ order.state = "Filled"
                             /\ order.leaves = 0 /\ order.cum = order.quantity
                          \/ /\ order.state \in {"Cancelled", "Replaced"}
                             /\ order.leaves = 0 /\ order.cum < order.quantity
    BY DEF QuantityConserved
  <2>1. Open(orders_by_exchange[x]) \/ Closed(orders_by_exchange[x])
    BY <1>1 DEF IInv, HistorySound
  <2>2. QED BY <2>1 DEF Open, Closed
<1>2. QED BY <1>1, Invariance, PTL

\* A post-only order never takes liquidity, and only a good-til-cancelled
\* order is ever in the book.
THEOREM PassiveOrdersRest == Spec => []PassiveAndAggressive
<1>1. IInv => PassiveAndAggressive
  BY DEF IInv, ActiveSound, IncomingSound, CanMatch, PassiveAndAggressive
<1>2. QED BY <1>1, Invariance, PTL

\* What one step does to the history and to the client index.
HistoryOnlyGrows ==
  \A x \in Ids :
    orders_by_exchange[x] # NoOrder =>
      /\ orders_by_exchange'[x] # NoOrder
      /\ orders_by_exchange[x].state \in TerminalStates
           => orders_by_exchange'[x] = orders_by_exchange[x]

IdentifiersFixed ==
  /\ \A c \in ClientIds : exchange_by_client[c] # NoId =>
       exchange_by_client'[c] = exchange_by_client[c]
  /\ (incoming = NoOrder /\ incoming' # NoOrder) =>
       \A x \in Ids : orders_by_exchange[x] # NoOrder =>
         /\ incoming'.id # x
         /\ incoming'.priority > orders_by_exchange[x].priority

\* An open record may be rewritten, a closed one may not.
LEMMA RewriteOpen ==
  ASSUME IInv, NEW x \in Ids, NEW t, t # NoOrder,
         orders_by_exchange[x] = NoOrder \/ orders_by_exchange[x].state \notin TerminalStates,
         orders_by_exchange' = [orders_by_exchange EXCEPT ![x] = t]
  PROVE  HistoryOnlyGrows
BY DEF IInv, TypeOK, HistoryOnlyGrows

LEMMA ActiveIsOpen ==
  ASSUME IInv, NEW x \in Active
  PROVE  x \in Ids /\ active_by_exchange[x] \in OrderView
         /\ orders_by_exchange[x].state \notin TerminalStates
BY ActiveIsOrder DEF IInv, ActiveSound, Open, RestingStates, TerminalStates

LEMMA StepHistory == IInv /\ [Next]_vars => HistoryOnlyGrows
<1> SUFFICES ASSUME IInv, [Next]_vars PROVE HistoryOnlyGrows
  OBVIOUS
<1>1. ASSUME NEW cmd \in Submits, Submit(cmd) PROVE HistoryOnlyGrows
  <2>1. PICK o : /\ AcceptableOrder(o)
                 /\ orders_by_exchange' = [orders_by_exchange EXCEPT ![o.id] = o]
    BY <1>1, SubmitAccepted DEF Submit, IInv
  <2>2. o.id \in Ids /\ o # NoOrder /\ orders_by_exchange[o.id] = NoOrder
    BY <2>1, NewIsNew, OrderFields DEF AcceptableOrder
  <2>3. QED BY <2>1, <2>2, RewriteOpen
<1>2. ASSUME NEW c \in ClientIds, NEW x \in Ids, Cancel(c, x) PROVE HistoryOnlyGrows
  <2>1. x \in Active
    BY <1>2 DEF Cancel, locate_active, Active
  <2>2. Terminated(x, "Cancelled") # NoOrder
    BY <2>1, ActiveIsOpen, TerminatedFields, OrderFields DEF TerminalStates
  <2>3. QED BY <1>2, <2>1, <2>2, ActiveIsOpen, RewriteOpen DEF Cancel
<1>3. ASSUME NEW cmd \in ReplaceCommand, Replace(cmd) PROVE HistoryOnlyGrows
  <2>1. PICK x, o, t :
          /\ x \in Active /\ AcceptableOrder(o) /\ t = Terminated(x, "Replaced")
          /\ orders_by_exchange' = [orders_by_exchange EXCEPT ![x] = t, ![o.id] = o]
    BY <1>3, ReplaceAccepted DEF Replace, IInv
  <2>2. o.id \in Ids /\ o # NoOrder /\ orders_by_exchange[o.id] = NoOrder
    BY <2>1, NewIsNew, OrderFields DEF AcceptableOrder
  <2>3. x \in Ids /\ orders_by_exchange[x].state \notin TerminalStates /\ t # NoOrder
    BY <2>1, ActiveIsOpen, TerminatedFields, OrderFields DEF TerminalStates
  <2>4. QED BY <2>1, <2>2, <2>3 DEF IInv, TypeOK, HistoryOnlyGrows
<1>4. ASSUME MatchOne PROVE HistoryOnlyGrows
  <2>1. PICK side \in Sides, p \in Prices :
          side = Opposite(incoming.side) /\ p \in levels[side]
          /\ MatchMaker(side, p, Head(queue[side][p]))
    <3>1. incoming \in OrderView /\ Opposite(incoming.side) \in Sides
      BY <1>4, OrderFields DEF MatchOne, CanMatch, IInv, TypeOK, Opposite, Sides
    <3>2. levels[Opposite(incoming.side)] \subseteq Prices
      BY <3>1 DEF IInv, TypeOK
    <3>3. QED BY <1>4, <3>1, <3>2 DEF MatchOne, EligibleLevels
  <2>2. PICK x, q : x = Head(queue[side][p]) /\ q = MatchQuantity(active_by_exchange[x])
    OBVIOUS
  <2>3. MakerAndTaker(side, p, x, q)
    BY <1>4, <2>1, <2>2, FrontIsMaker DEF MatchOne
  <2>4. orders_by_exchange' =
          [orders_by_exchange EXCEPT ![x] = AfterFill(active_by_exchange[x], q)]
    BY <2>1, <2>2 DEF MatchMaker
  <2>5. x \in Active /\ AfterFill(active_by_exchange[x], q) # NoOrder
    BY <2>3, AfterFillFields, OrderFields DEF MakerAndTaker, Open
  <2>6. QED BY <2>4, <2>5, ActiveIsOpen, RewriteOpen
<1>5. ASSUME NEW t, t \in OrderView, t.id = incoming.id, incoming # NoOrder, Return(t)
      PROVE  HistoryOnlyGrows
  <2>1. t.id \in Ids /\ t # NoOrder /\ orders_by_exchange[t.id].state \notin TerminalStates
    BY <1>5, OrderFields DEF IInv, IncomingSound
  <2>2. QED BY <1>5, <2>1, RewriteOpen DEF Return
<1>6. incoming \in OrderView \cup {NoOrder}
  BY DEF IInv, TypeOK
<1>7. ASSUME FinishFilled PROVE HistoryOnlyGrows
  <2>1. "Filled" \in RestingStates \cup TerminalStates
    BY DEF TerminalStates
  <2>2. [incoming EXCEPT !.state = "Filled"] \in OrderView
        /\ [incoming EXCEPT !.state = "Filled"].id = incoming.id
    BY <1>6, <1>7, <2>1 DEF FinishFilled, OrderView
  <2>3. QED BY <1>5, <1>7, <2>2 DEF FinishFilled
<1>8. ASSUME FinishRest PROVE HistoryOnlyGrows
  <2>1. RestingRecord \in OrderView /\ RestingRecord.id = incoming.id
    BY <1>8, RestingFields DEF FinishRest
  <2>2. incoming # NoOrder /\ Return(RestingRecord)
    BY <1>8 DEF FinishRest, RestingRecord
  <2>3. QED BY <1>5, <2>1, <2>2
<1>9. ASSUME FinishCancelled PROVE HistoryOnlyGrows
  <2>1. "Cancelled" \in RestingStates \cup TerminalStates /\ 0 \in 0..QuantityLimit
    BY Constants DEF TerminalStates
  <2>2. [incoming EXCEPT !.leaves = 0, !.state = "Cancelled"] \in OrderView
        /\ [incoming EXCEPT !.leaves = 0, !.state = "Cancelled"].id = incoming.id
    BY <1>6, <1>9, <2>1 DEF FinishCancelled, OrderView
  <2>3. QED BY <1>5, <1>9, <2>2 DEF FinishCancelled
<1>10. ASSUME UNCHANGED vars PROVE HistoryOnlyGrows
  BY <1>10 DEF vars, HistoryOnlyGrows
<1>11. QED
  BY <1>1, <1>2, <1>3, <1>4, <1>7, <1>8, <1>9, <1>10 DEF Next

LEMMA StepIdentifiers == IInv /\ [Next]_vars => IdentifiersFixed
<1> SUFFICES ASSUME IInv, [Next]_vars PROVE IdentifiersFixed
  OBVIOUS
<1>1. ASSUME NEW o, AcceptableOrder(o), Accept(o) PROVE IdentifiersFixed
  <2>1. /\ o.client \in ClientIds /\ o.priority \in Ids
        /\ exchange_by_client[o.client] = NoId
        /\ \A x \in Ids : orders_by_exchange[x] # NoOrder =>
             x < o.id /\ orders_by_exchange[x].priority < o.priority
    BY <1>1, NewIsNew, OrderFields DEF AcceptableOrder
  <2>2. \A c \in ClientIds : exchange_by_client[c] # NoId =>
          exchange_by_client'[c] = exchange_by_client[c]
    BY <1>1, <2>1 DEF Accept, IInv, TypeOK
  <2>3. incoming' = o
    BY <1>1 DEF Accept
  <2>4. \A x \in Ids : orders_by_exchange[x] # NoOrder =>
          o.id # x /\ o.priority > orders_by_exchange[x].priority
    <3> SUFFICES ASSUME NEW x \in Ids, orders_by_exchange[x] # NoOrder
                 PROVE  o.id # x /\ o.priority > orders_by_exchange[x].priority
      OBVIOUS
    <3>1. orders_by_exchange[x].priority \in Ids
      BY OrderFields DEF IInv, TypeOK
    <3>2. QED BY <2>1, <3>1 DEF Ids
  <2>5. QED BY <2>2, <2>3, <2>4 DEF IdentifiersFixed
<1>2. ASSUME NEW cmd \in Submits, Submit(cmd) PROVE IdentifiersFixed
  BY <1>1, <1>2, SubmitAccepted DEF Submit, IInv
<1>3. ASSUME NEW cmd \in ReplaceCommand, Replace(cmd) PROVE IdentifiersFixed
  BY <1>1, <1>3, ReplaceAccepted DEF Replace, IInv
<1>4. ASSUME NEW c \in ClientIds, NEW x \in Ids, Cancel(c, x) PROVE IdentifiersFixed
  BY <1>4 DEF Cancel, IdentifiersFixed
<1>5. ASSUME MatchOne PROVE IdentifiersFixed
  BY <1>5 DEF MatchOne, CanMatch, IdentifiersFixed
<1>6. ASSUME FinishFilled \/ FinishRest \/ FinishCancelled PROVE IdentifiersFixed
  BY <1>6 DEF FinishFilled, FinishRest, FinishCancelled, Return, IdentifiersFixed
<1>7. ASSUME UNCHANGED vars PROVE IdentifiersFixed
  BY <1>7 DEF vars, IdentifiersFixed
<1>8. QED BY <1>2, <1>3, <1>4, <1>5, <1>6, <1>7 DEF Next

\* A terminal order never changes again and no record is ever lost.
THEOREM TerminalIsFinal == Spec => TerminalForever
<1>1. IInv /\ [Next]_vars => [HistoryOnlyGrows]_vars
  BY StepHistory
<1>2. Spec => [][HistoryOnlyGrows]_vars
  BY <1>1, Invariance, PTL DEF Spec
<1>3. QED BY <1>2 DEF TerminalForever, HistoryOnlyGrows

\* Exchange ids, priorities and client ids are never reused.
THEOREM IdentifiersNeverReused == Spec => IdentifiersUnique
<1>1. IInv /\ [Next]_vars => [IdentifiersFixed]_vars
  BY StepIdentifiers
<1>2. Spec => [][IdentifiersFixed]_vars
  BY <1>1, Invariance, PTL DEF Spec
<1>3. QED BY <1>2 DEF IdentifiersUnique, IdentifiersFixed

\* The book is consistent between any two steps of the engine: uncrossed, in
\* price-time order, and described alike by all of its indices.
THEOREM BookAlwaysConsistent == Spec => []BookConsistent
<1>1. BookUncrossed /\ LevelsFifo /\ IndicesAgree => BookConsistent
  BY DEF BookConsistent
<1>2. QED BY <1>1, NeverCrossed, PriceTimeQueues, IndicesNeverDisagree, PTL

\* The history is final: no record of an ended order changes, and none is
\* overwritten by an order that gets its identifier again.
THEOREM HistoryNeverRewritten == Spec => HistoryFinal
BY TerminalIsFinal, IdentifiersNeverReused DEF HistoryFinal

-----------------------------------------------------------------------------
(***************************************************************************)
(* Theorems about MatchingEngine that need its quantities added up or its  *)
(* orders counted: the level totals, fill-or-kill, the identifiers of the  *)
(* matching loop; and the refinement of PriceTimeMarket.                   *)
(***************************************************************************)

(***************************************************************************)
(* The invariant, on top of IInv.                                          *)
(***************************************************************************)

\* The lots that x shows at price p of a side.
Shown(s, p, x) ==
  IF x \in Active /\ active_by_exchange[x].side = s /\ active_by_exchange[x].price = p
  THEN active_by_exchange[x].leaves ELSE 0

ShownAt(s, p) == [x \in Ids |-> Shown(s, p, x)]

\* The total of a level is what the active orders show there, and it fits.
TotalsSound ==
  \A s \in Sides : \A p \in Prices :
    /\ total[s][p] = SumFunctionOnSet(ShownAt(s, p), Ids)
    /\ total[s][p] <= QuantityLimit

\* There is room at its own level for what is left of an order that may rest.
RestFits ==
  (incoming # NoOrder /\ MayRest(incoming)) =>
    total[incoming.side][incoming.price] + incoming.leaves <= QuantityLimit

\* The lots that a taker with this side and limit can reach.
Reachable(side, limit) ==
  SumFunctionOnSet(total[Opposite(side)], EligibleLevels(side, limit))

\* A fill-or-kill order that is being matched can still be filled.
FokCovered ==
  (incoming # NoOrder /\ incoming.tif = "FOK") =>
    incoming.leaves <= Reachable(incoming.side, incoming.price)

\* While the taker has lots left, the counters of the matching loop have an
\* identifier for every order it may still meet.
LoopHasCapacity ==
  (incoming # NoOrder /\ incoming.leaves > 0) =>
    /\ has_capacity(next_match_sequence, Cardinality(Active))
    /\ has_capacity(next_execution_id, 2 * Cardinality(Active))

\* Ids and priorities are in the same order, and the taker has the last id.
ArrivalOrder ==
  /\ \A x, y \in Active : x < y =>
       active_by_exchange[x].priority < active_by_exchange[y].priority
  /\ incoming # NoOrder => \A x \in Active : x < incoming.id

LotsInv ==
  /\ IInv
  /\ TotalsSound
  /\ RestFits
  /\ FokCovered
  /\ FillOrKillAtomic
  /\ LoopHasCapacity
  /\ ArrivalOrder

-----------------------------------------------------------------------------
(***************************************************************************)
(* What the orders show, and how one changed order moves a total.          *)
(***************************************************************************)

LEMMA IdsFinite == IsFiniteSet(Ids) /\ Ids \subseteq Nat \ {0}
<1>1. IsFiniteSet(1..IdLimit)
  BY Constants, FS_Interval
<1> QED BY <1>1, Constants DEF Ids

\* What an order shows at a price is a natural number of lots.
LEMMA ShownIsNat ==
  TypeOK => \A s \in Sides, p \in Prices, x \in Ids :
              ShownAt(s, p)[x] = Shown(s, p, x) /\ Shown(s, p, x) \in Nat
<1> SUFFICES ASSUME TypeOK, NEW s \in Sides, NEW p \in Prices, NEW x \in Ids
             PROVE  Shown(s, p, x) \in Nat
  BY DEF ShownAt
<1>1. CASE x \in Active
  BY <1>1, ActiveIsOrder, OrderFields, Constants DEF Shown
<1>2. CASE x \notin Active
  BY <1>2 DEF Shown
<1> QED BY <1>1, <1>2

\* A level that is not in the map shows nothing.
LEMMA NoLevelNoLots ==
  ASSUME IInv, TotalsSound, NEW s \in Sides, NEW p \in Prices, p \notin levels[s]
  PROVE  total[s][p] = 0
<1>1. ASSUME NEW x \in Ids PROVE ShownAt(s, p)[x] = 0
  <2>1. ~(x \in Active /\ active_by_exchange[x].side = s /\ active_by_exchange[x].price = p)
    <3> SUFFICES ASSUME x \in Active, active_by_exchange[x].side = s,
                        active_by_exchange[x].price = p
                 PROVE  FALSE
      OBVIOUS
    <3>1. PICK i \in 1..Len(queue[s][p]) : queue[s][p][i] = x
      BY DEF IInv, Located
    <3>2. queue[s][p] = <<>>
      BY DEF IInv, LevelsFifo
    <3> QED BY <3>1, <3>2
  <2> QED BY <1>1, <2>1 DEF ShownAt, Shown
<1> QED BY <1>1, IdsFinite, SumOfZeros DEF TotalsSound

\* One order alone changes, and the total of its level changes with it.
Moved(s, p, x) ==
  /\ s \in Sides /\ p \in Prices /\ x \in Ids
  /\ \A y \in Ids \ {x} : active_by_exchange'[y] = active_by_exchange[y]
  /\ x \in Active => /\ active_by_exchange[x].side = s
                     /\ active_by_exchange[x].price = p
  /\ x \in Active' => /\ active_by_exchange'[x].side = s
                      /\ active_by_exchange'[x].price = p
  /\ total' = [total EXCEPT
                 ![s][p] = total[s][p] + (Shown(s, p, x)' - Shown(s, p, x))]

LEMMA MovedTotals ==
  ASSUME IInv, TypeOK', TotalsSound, NEW s, NEW p, NEW x, Moved(s, p, x),
         total'[s][p] <= QuantityLimit
  PROVE  TotalsSound'
<1> SUFFICES ASSUME NEW s2 \in Sides, NEW p2 \in Prices
             PROVE  /\ total'[s2][p2] = SumFunctionOnSet(ShownAt(s2, p2)', Ids)
                    /\ total'[s2][p2] <= QuantityLimit
  BY DEF TotalsSound
<1>0. PICK f, g : f = ShownAt(s2, p2) /\ g = ShownAt(s2, p2)'
  OBVIOUS
<1>1. s \in Sides /\ p \in Prices /\ x \in Ids
  BY DEF Moved
<1>2. \A y \in Ids : f[y] = Shown(s2, p2, y) /\ f[y] \in Nat
  BY <1>0, ShownIsNat DEF IInv
<1>3. \A y \in Ids : g[y] = Shown(s2, p2, y)' /\ g[y] \in Nat
  <2> SUFFICES ASSUME NEW y \in Ids PROVE Shown(s2, p2, y)' \in Nat
    BY <1>0 DEF ShownAt
  <2>1. active_by_exchange'[y] # NoOrder => active_by_exchange'[y].leaves \in Nat
    BY OrderFields, Constants DEF TypeOK
  <2> QED BY <2>1 DEF Shown, Active
<1>4. \A y \in Ids \ {x} : f[y] = g[y]
  <2> SUFFICES ASSUME NEW y \in Ids \ {x} PROVE Shown(s2, p2, y) = Shown(s2, p2, y)'
    BY <1>2, <1>3
  <2>1. active_by_exchange'[y] = active_by_exchange[y] /\ (y \in Active <=> y \in Active')
    BY DEF Moved, Active
  <2> QED BY <2>1 DEF Shown
<1>5. total[s2][p2] = SumFunctionOnSet(f, Ids) /\ total[s2][p2] <= QuantityLimit
  BY <1>0 DEF TotalsSound
<1>6. CASE s2 = s /\ p2 = p
  <2>1. total'[s][p] = total[s][p] + (g[x] - f[x])
    <3>1. total'[s][p] = total[s][p] + (Shown(s, p, x)' - Shown(s, p, x))
      BY <1>1 DEF Moved, IInv, TypeOK
    <3>2. f[x] = Shown(s, p, x) /\ g[x] = Shown(s, p, x)'
      BY <1>1, <1>2, <1>3, <1>6
    <3> QED BY <3>1, <3>2
  <2>2. SumFunctionOnSet(g, Ids) = SumFunctionOnSet(f, Ids) - f[x] + g[x]
    <3>1. \A y \in Ids : f[y] \in Int /\ g[y] \in Int
      BY <1>2, <1>3
    <3>2. IsFiniteSet(Ids) /\ x \in Ids /\ \A y \in Ids \ {x} : f[y] = g[y]
      BY <1>1, <1>4, IdsFinite
    <3> QED BY ONLY <3>1, <3>2, SumOfUpdate
  <2>3. f[x] \in Int /\ g[x] \in Int /\ total[s][p] \in Int
    <3>1. total[s][p] \in Int
      BY <1>1 DEF IInv, TypeOK
    <3> QED BY <3>1, <1>1, <1>2, <1>3
  <2> QED BY <2>1, <2>2, <2>3, <1>0, <1>5, <1>6
<1>7. CASE ~(s2 = s /\ p2 = p)
  <2>1. total'[s2][p2] = total[s2][p2]
    BY <1>1, <1>7 DEF Moved, IInv, TypeOK
  <2>2. f[x] = g[x]
    BY <1>1, <1>2, <1>3, <1>7 DEF Moved, Shown
  <2>3. \A y \in Ids : f[y] = g[y]
    BY <1>4, <2>2
  <2>4. SumFunctionOnSet(g, Ids) = SumFunctionOnSet(f, Ids)
    <3> QED BY <2>3, IdsFinite, SumOfEquals
  <2> QED BY <2>1, <2>4, <1>0, <1>5
<1> QED BY <1>6, <1>7

\* Nothing in the book moves.
LEMMA BookStays ==
  ASSUME TotalsSound, UNCHANGED <<total, active_by_exchange>>
  PROVE  TotalsSound'
BY DEF TotalsSound, ShownAt, Shown, Active

-----------------------------------------------------------------------------
(***************************************************************************)
(* What the actions do to the orders of the book.                          *)
(***************************************************************************)

\* remove_active takes all lots of its order out of the total of its level.
LEMMA RemoveActiveMoves ==
  ASSUME IInv, NEW x \in Active, RemoveActive(x)
  PROVE  /\ Left(x)
         /\ Moved(active_by_exchange[x].side, active_by_exchange[x].price, x)
         /\ x \notin Active'
<1>1. Left(x)
  BY RemoveActiveLeaves
<1>2. PICK s, p : s = active_by_exchange[x].side /\ p = active_by_exchange[x].price
  OBVIOUS
<1>3. s \in Sides /\ p \in Prices /\ x \in Ids /\ active_by_exchange[x].leaves \in Int
  BY <1>2, ActiveIsOrder, OrderFields DEF IInv, ActiveSound
<1>4. x \notin Active' /\ \A y \in Ids \ {x} : active_by_exchange'[y] = active_by_exchange[y]
  BY <1>1 DEF Left
<1>5. total' = [total EXCEPT ![s][p] = total[s][p] - active_by_exchange[x].leaves]
  BY <1>2, <1>3 DEF RemoveActive, RemoveFromBook, IInv, TypeOK
<1>6. Shown(s, p, x) = active_by_exchange[x].leaves /\ Shown(s, p, x)' = 0
  BY <1>2, <1>4 DEF Shown
<1>7. total[s][p] \in Int
  BY <1>3 DEF IInv, TypeOK
<1>8. total[s][p] + (Shown(s, p, x)' - Shown(s, p, x))
        = total[s][p] - active_by_exchange[x].leaves
  BY <1>3, <1>6, <1>7
<1>9. Moved(s, p, x)
  BY <1>2, <1>3, <1>4, <1>5, <1>8 DEF Moved
<1> QED BY <1>1, <1>2, <1>4, <1>9

\* One iteration of the loop: q lots trade against the order x at the front
\* of the best level that the taker accepts.
Fill(side, p, x, q) ==
  /\ MakerAndTaker(side, p, x, q)
  /\ side = Opposite(incoming.side) /\ side \in Sides
  /\ p \in EligibleLevels(incoming.side, incoming.price) /\ IsBest(side, p)
  /\ q = MatchQuantity(active_by_exchange[x])
  /\ incoming' = AfterFill(incoming, q)
  /\ total' = [total EXCEPT ![side][p] = total[side][p] - q]
  /\ orders_by_exchange' =
       [orders_by_exchange EXCEPT ![x] = AfterFill(active_by_exchange[x], q)]
  /\ \/ /\ q = active_by_exchange[x].leaves
        /\ active_by_exchange' = [active_by_exchange EXCEPT ![x] = NoOrder]
        /\ levels' = ErasedLevels(side, p)
     \/ /\ q # active_by_exchange[x].leaves
        /\ active_by_exchange' =
             [active_by_exchange EXCEPT ![x] = AfterFill(active_by_exchange[x], q)]
        /\ levels' = levels

LEMMA MatchIsFill ==
  ASSUME IInv, MatchOne
  PROVE  \E side, p, x, q : Fill(side, p, x, q)
<1>1. PICK side \in Sides, p \in Prices :
        /\ side = Opposite(incoming.side) /\ p \in levels[side]
        /\ p \in EligibleLevels(incoming.side, incoming.price) /\ IsBest(side, p)
        /\ MatchMaker(side, p, Head(queue[side][p]))
  <2>1. incoming \in OrderView /\ Opposite(incoming.side) \in Sides
    BY OrderFields DEF IInv, MatchOne, CanMatch, TypeOK, Opposite, Sides
  <2>2. levels[Opposite(incoming.side)] \subseteq Prices
    BY <2>1 DEF IInv, TypeOK
  <2>3. QED BY <2>1, <2>2 DEF MatchOne, EligibleLevels
<1>2. PICK x, q : x = Head(queue[side][p]) /\ q = MatchQuantity(active_by_exchange[x])
  OBVIOUS
<1>m. MatchMaker(side, p, x)
  BY <1>1, <1>2
<1>3. MakerAndTaker(side, p, x, q)
  BY <1>1, <1>2, FrontIsMaker DEF MatchOne
<1>4. /\ AfterFill(active_by_exchange[x], q).leaves = active_by_exchange[x].leaves - q
      /\ q \in Int /\ active_by_exchange[x].leaves \in Int
      /\ q <= active_by_exchange[x].leaves
  BY <1>3, OrderFields, AfterFillFields DEF MakerAndTaker, Open
<1>5. /\ incoming' = AfterFill(incoming, q)
      /\ total' = [total EXCEPT ![side][p] = total[side][p] - q]
      /\ orders_by_exchange' =
           [orders_by_exchange EXCEPT ![x] = AfterFill(active_by_exchange[x], q)]
  BY <1>1, <1>2, <1>3 DEF MatchMaker, MakerAndTaker, IInv, TypeOK
<1>8. CASE q = active_by_exchange[x].leaves
  <2>1. levels' = ErasedLevels(side, p) /\ Deactivate(x)
    BY ONLY <1>m, <1>2, <1>4, <1>8 DEF MatchMaker
  <2>2. Fill(side, p, x, q)
    BY <1>1, <1>2, <1>3, <1>5, <1>8, <2>1 DEF Deactivate, Fill
  <2> QED BY <2>2
<1>9. CASE q # active_by_exchange[x].leaves
  <2>1. /\ active_by_exchange' =
             [active_by_exchange EXCEPT ![x] = AfterFill(active_by_exchange[x], q)]
        /\ UNCHANGED <<queue, levels, active_by_client>>
    BY ONLY <1>m, <1>2, <1>4, <1>9 DEF MatchMaker
  <2>2. Fill(side, p, x, q)
    BY ONLY <1>1, <1>2, <1>3, <1>5, <1>9, <2>1 DEF Fill
  <2> QED BY <2>2
<1>10. QED BY <1>8, <1>9

\* The maker gives q lots; it stays exactly when it has lots left, and then
\* the taker has none.
LEMMA FillMoves ==
  ASSUME IInv, NEW side, NEW p, NEW x, NEW q, Fill(side, p, x, q)
  PROVE  /\ Moved(side, p, x) /\ q \in Nat \ {0}
         /\ incoming # NoOrder /\ incoming \in OrderView
         /\ incoming'.leaves = incoming.leaves - q /\ q <= incoming.leaves
         /\ incoming'.id = incoming.id /\ incoming'.side = incoming.side
         /\ incoming'.price = incoming.price /\ incoming'.tif = incoming.tif
         /\ incoming'.type = incoming.type
         /\ \/ /\ x \notin Active' /\ Active' = Active \ {x}
               /\ q = active_by_exchange[x].leaves
               /\ levels' = ErasedLevels(side, p)
            \/ /\ Active' = Active /\ incoming'.leaves = 0
               /\ active_by_exchange'[x] = AfterFill(active_by_exchange[x], q)
               /\ levels' = levels
<1>1. /\ side \in Sides /\ p \in Prices /\ x \in Ids /\ x \in Active
      /\ active_by_exchange[x] \in OrderView /\ Open(active_by_exchange[x])
      /\ active_by_exchange[x].side = side /\ active_by_exchange[x].price = p
      /\ incoming \in OrderView /\ incoming # NoOrder
      /\ q \in 0..active_by_exchange[x].leaves /\ q \in 0..incoming.leaves /\ q > 0
  BY OrderFields DEF Fill, MakerAndTaker
<1>2. PICK o, f : o = active_by_exchange[x] /\ f = AfterFill(active_by_exchange[x], q)
  OBVIOUS
<1>3. /\ f \in OrderView /\ f # NoOrder /\ f.side = side /\ f.price = p
      /\ f.leaves = o.leaves - q /\ o.leaves \in Nat
  BY <1>1, <1>2, AfterFillFields, OrderFields, Constants DEF Open
<1>4. incoming.cum + incoming.leaves = incoming.quantity
  BY <1>1 DEF IInv, IncomingSound
<1>5. /\ incoming'.leaves = incoming.leaves - q /\ q <= incoming.leaves /\ q \in Nat \ {0}
      /\ incoming'.id = incoming.id /\ incoming'.side = incoming.side
      /\ incoming'.price = incoming.price /\ incoming'.tif = incoming.tif
      /\ incoming'.type = incoming.type
      /\ incoming.leaves \in Nat
  BY <1>1, <1>4, AfterFillFields, OrderFields, Constants DEF Fill
<1>6. total[side][p] \in Int
  BY <1>1 DEF IInv, TypeOK
<1>7. CASE q = o.leaves
  <2>1. \A y \in Ids : active_by_exchange'[y] =
          IF y = x THEN NoOrder ELSE active_by_exchange[y]
    BY <1>1, <1>2, <1>7 DEF Fill, IInv, TypeOK
  <2>2. x \notin Active' /\ Active' = Active \ {x}
    BY <1>1, <2>1 DEF Active
  <2>3. Shown(side, p, x) = q /\ Shown(side, p, x)' = 0
    BY <1>1, <1>2, <1>7, <2>2 DEF Shown
  <2>4. total[side][p] + (Shown(side, p, x)' - Shown(side, p, x)) = total[side][p] - q
    BY <2>3, <1>5, <1>6
  <2>5. Moved(side, p, x)
    BY <1>1, <2>1, <2>2, <2>4 DEF Moved, Fill
  <2> QED BY <2>2, <2>5, <1>1, <1>2, <1>5, <1>7 DEF Fill
<1>8. CASE q # o.leaves
  <2>1. \A y \in Ids : active_by_exchange'[y] = IF y = x THEN f ELSE active_by_exchange[y]
    BY <1>1, <1>2, <1>8 DEF Fill, IInv, TypeOK
  <2>2. x \in Active' /\ Active' = Active
    BY <1>1, <1>3, <2>1 DEF Active
  <2>3. Shown(side, p, x) = o.leaves /\ Shown(side, p, x)' = o.leaves - q
    BY <1>1, <1>2, <1>3, <2>1, <2>2 DEF Shown
  <2>4. total[side][p] + (Shown(side, p, x)' - Shown(side, p, x)) = total[side][p] - q
    BY <2>3, <1>3, <1>5, <1>6
  <2>5. Moved(side, p, x)
    BY <1>1, <1>3, <2>1, <2>2, <2>4 DEF Moved, Fill
  <2>6. q = incoming.leaves
    BY <1>1, <1>2, <1>3, <1>5, <1>8 DEF Fill, MatchQuantity
  <2>7. levels' = levels
    BY <1>2, <1>8 DEF Fill
  <2> QED BY <2>1, <2>2, <2>5, <2>6, <2>7, <1>1, <1>2, <1>5
<1> QED BY <1>7, <1>8

\* What is left of the taker joins the level of its own price.
LEMMA RestMoves ==
  ASSUME IInv, FinishRest
  PROVE  /\ Moved(incoming.side, incoming.price, incoming.id)
         /\ incoming # NoOrder /\ incoming \in OrderView /\ MayRest(incoming)
         /\ incoming.side \in Sides /\ incoming.price \in Prices
         /\ incoming.id \in Ids /\ incoming.id \notin Active
         /\ Active' = Active \cup {incoming.id}
         /\ active_by_exchange'[incoming.id] = RestingRecord
         /\ total'[incoming.side][incoming.price] =
              total[incoming.side][incoming.price] + incoming.leaves
         /\ incoming' = NoOrder
<1>1. /\ incoming # NoOrder /\ incoming.leaves > 0 /\ MayRest(incoming)
      /\ incoming \in OrderView
  BY DEF FinishRest, IInv, TypeOK
<1>2. PICK t, x, s, p :
      /\ t = RestingRecord /\ x = incoming.id /\ s = incoming.side /\ p = incoming.price
      /\ t \in OrderView /\ t.id = x /\ t.leaves = incoming.leaves
      /\ t.side = s /\ t.price = p
  BY <1>1, RestingFields
<1>3. /\ x \in Ids /\ s \in Sides /\ p \in Prices /\ t # NoOrder /\ t.leaves \in Int
      /\ x \notin Active /\ incoming.leaves \in Int
  BY <1>1, <1>2, OrderFields DEF IInv, IncomingSound
<1>4. /\ Return(t)
      /\ total' = [total EXCEPT ![s][p] = total[s][p] + t.leaves]
      /\ active_by_exchange' = [active_by_exchange EXCEPT ![x] = t]
  BY <1>2, <1>3 DEF FinishRest, RestingRecord, IInv, TypeOK
<1>5. \A y \in Ids : active_by_exchange'[y] = IF y = x THEN t ELSE active_by_exchange[y]
  BY <1>3, <1>4 DEF IInv, TypeOK
<1>6. x \in Active' /\ Active' = Active \cup {x}
  BY <1>3, <1>5 DEF Active
<1>7. total[s][p] \in Int
  BY <1>3 DEF IInv, TypeOK
<1>8. Shown(s, p, x) = 0 /\ Shown(s, p, x)' = t.leaves
  BY <1>2, <1>3, <1>5, <1>6 DEF Shown
<1>9. total[s][p] + (Shown(s, p, x)' - Shown(s, p, x)) = total[s][p] + t.leaves
  BY <1>3, <1>7, <1>8
<1>10. Moved(s, p, x)
  BY <1>2, <1>3, <1>4, <1>5, <1>6, <1>9 DEF Moved
<1>11. total'[s][p] = total[s][p] + t.leaves
  BY <1>3, <1>4 DEF IInv, TypeOK
<1>12. incoming' = NoOrder
  BY <1>4 DEF Return
<1> QED BY <1>1, <1>2, <1>3, <1>5, <1>6, <1>10, <1>11, <1>12

-----------------------------------------------------------------------------
(***************************************************************************)
(* The totals of the levels.                                               *)
(***************************************************************************)

\* An order that shows fewer lots than before only makes totals smaller.
LEMMA MovedDown ==
  ASSUME IInv, TypeOK', TotalsSound, NEW s, NEW p, NEW x, Moved(s, p, x),
         Shown(s, p, x)' <= Shown(s, p, x), Shown(s, p, x)' \in Int
  PROVE  /\ TotalsSound'
         /\ \A t \in Sides, r \in Prices : total'[t][r] <= total[t][r]
<1>1. s \in Sides /\ p \in Prices /\ x \in Ids
  BY DEF Moved
<1>2. Shown(s, p, x) \in Int
  BY <1>1, ShownIsNat DEF IInv
<1>3. \A t \in Sides, r \in Prices : total[t][r] \in Int /\ total[t][r] <= QuantityLimit
  BY DEF TotalsSound, IInv, TypeOK
<1>4. \A t \in Sides, r \in Prices : total'[t][r] =
        IF t = s /\ r = p THEN total[s][p] + (Shown(s, p, x)' - Shown(s, p, x))
        ELSE total[t][r]
  BY <1>1 DEF Moved, IInv, TypeOK
<1>5. \A t \in Sides, r \in Prices : total'[t][r] <= total[t][r]
  BY <1>1, <1>2, <1>3, <1>4
<1>6. total'[s][p] <= QuantityLimit
  BY <1>1, <1>2, <1>3, <1>4, Constants
<1> QED BY <1>5, <1>6, MovedTotals

\* An order that is taken out shows no lots any more.
LEMMA GoneTotals ==
  ASSUME IInv, TypeOK', TotalsSound, NEW x \in Active, RemoveActive(x)
  PROVE  /\ TotalsSound'
         /\ \A t \in Sides, r \in Prices : total'[t][r] <= total[t][r]
<1>1. PICK s, p : s = active_by_exchange[x].side /\ p = active_by_exchange[x].price
  OBVIOUS
<1>2. Moved(s, p, x) /\ x \notin Active'
  BY <1>1, RemoveActiveMoves
<1>3. Shown(s, p, x)' = 0
  BY <1>2 DEF Shown
<1>4. Shown(s, p, x) \in Nat
  BY <1>2, ShownIsNat DEF Moved, IInv
<1> QED BY <1>2, <1>3, <1>4, MovedDown

LEMMA FillTotals ==
  ASSUME IInv, TypeOK', TotalsSound, NEW side, NEW p, NEW x, NEW q, Fill(side, p, x, q)
  PROVE  TotalsSound'
<1>1. /\ Moved(side, p, x) /\ q \in Nat \ {0}
      /\ x \in Active /\ active_by_exchange[x].side = side
      /\ active_by_exchange[x].price = p /\ active_by_exchange[x] \in OrderView
      /\ Open(active_by_exchange[x]) /\ q \in 0..active_by_exchange[x].leaves
  BY FillMoves DEF Fill, MakerAndTaker
<1>2. Shown(side, p, x) = active_by_exchange[x].leaves
  BY <1>1 DEF Shown
<1>3. active_by_exchange[x].leaves \in Nat
  BY <1>1, OrderFields, Constants
<1>4. Shown(side, p, x)' \in {0, active_by_exchange[x].leaves - q}
  <2>1. AfterFill(active_by_exchange[x], q).leaves = active_by_exchange[x].leaves - q
    BY <1>1, AfterFillFields DEF Open
  <2>2. \/ x \notin Active'
        \/ active_by_exchange'[x] = AfterFill(active_by_exchange[x], q)
    BY FillMoves
  <2> QED BY <2>1, <2>2 DEF Shown
<1>5. Shown(side, p, x)' \in Int /\ Shown(side, p, x)' <= Shown(side, p, x)
  BY <1>1, <1>2, <1>3, <1>4
<1> QED BY <1>1, <1>5, MovedDown

\* No step makes a total wrong, or larger than its type.
LEMMA StepTotals ==
  ASSUME IInv, IInv', TotalsSound, RestFits, [Next]_vars
  PROVE  TotalsSound'
<1>0. TypeOK'
  BY DEF IInv
<1>1. ASSUME NEW cmd \in Submits, Submit(cmd) PROVE TotalsSound'
  BY <1>1, BookStays DEF Submit, book
<1>2. ASSUME NEW c \in ClientIds, NEW x \in Ids, Cancel(c, x) PROVE TotalsSound'
  BY <1>0, <1>2, GoneTotals DEF Cancel, locate_active, Active
<1>3. ASSUME NEW cmd \in ReplaceCommand, Replace(cmd) PROVE TotalsSound'
  <2>1. cmd.id \in Active /\ RemoveActive(cmd.id)
    BY <1>3, ReplaceAccepted DEF Replace, IInv
  <2> QED BY <2>1, <1>0, GoneTotals
<1>4. ASSUME MatchOne PROVE TotalsSound'
  BY <1>0, <1>4, MatchIsFill, FillTotals
<1>5. ASSUME FinishRest PROVE TotalsSound'
  <2>1. PICK s, p, x : s = incoming.side /\ p = incoming.price /\ x = incoming.id
    OBVIOUS
  <2>2. Moved(s, p, x) /\ total'[s][p] = total[s][p] + incoming.leaves
    BY <1>5, <2>1, RestMoves
  <2>3. total[s][p] + incoming.leaves <= QuantityLimit
    BY <1>5, <2>1, RestMoves DEF RestFits
  <2> QED BY <1>0, <2>2, <2>3, MovedTotals
<1>6. ASSUME FinishFilled \/ FinishCancelled \/ UNCHANGED vars PROVE TotalsSound'
  BY <1>6, BookStays DEF FinishFilled, FinishCancelled, book, vars
<1> QED BY <1>1, <1>2, <1>3, <1>4, <1>5, <1>6 DEF Next

-----------------------------------------------------------------------------
(***************************************************************************)
(* Room for the taker to rest.                                             *)
(***************************************************************************)

\* can_add_to_level, asked before the command changes anything, leaves room
\* for every lot of the order.
LEMMA RoomAtLevel ==
  ASSUME IInv, TotalsSound, NEW s \in Sides, NEW p \in Prices,
         NEW n \in 1..QuantityLimit, can_add_to_level(s, p, n)
  PROVE  total[s][p] + n <= QuantityLimit
<1>1. CASE p \in levels[s]
  BY <1>1 DEF can_add_to_level
<1>2. CASE p \notin levels[s]
  BY <1>2, NoLevelNoLots, Constants
<1> QED BY <1>1, <1>2

LEMMA StepRoom ==
  ASSUME IInv, IInv', TotalsSound, RestFits, [Next]_vars
  PROVE  RestFits'
<1>1. ASSUME NEW cmd \in Submits, Submit(cmd) PROVE RestFits'
  <2>1. PICK o : /\ o = NewOrder(cmd.client, cmd.side, cmd.type, cmd.tif,
                                 cmd.quantity, cmd.price, cmd.postOnly)
                 /\ AcceptableOrder(o)
    BY <1>1, SubmitAccepted DEF Submit, IInv
  <2>2. /\ o.side = cmd.side /\ o.price = cmd.price /\ o.leaves = cmd.quantity
        /\ o.type = cmd.type /\ o.tif = cmd.tif
        /\ o.side \in Sides /\ o.leaves \in 1..QuantityLimit
        /\ MayRest(o) => o.price \in Prices
    BY <2>1, OrderFields, Constants DEF NewOrder, AcceptableOrder
  <2>3. MayRest(o) => can_add_to_level(o.side, o.price, o.leaves)
    BY <1>1, <2>2 DEF Submit, SubmitOutcome, MayRest
  <2>4. incoming' = o /\ total' = total
    BY <1>1, <2>1 DEF Submit, Accept, book
  <2> QED BY <2>2, <2>3, <2>4, RoomAtLevel DEF RestFits
<1>2. ASSUME NEW cmd \in ReplaceCommand, Replace(cmd) PROVE RestFits'
  <2>1. PICK o : /\ o = NewOrder(cmd.newClient, active_by_exchange[cmd.id].side,
                                 "Limit", "GTC", cmd.quantity, cmd.price, FALSE)
                 /\ AcceptableOrder(o) /\ cmd.id \in Active
    BY <1>2, ReplaceAccepted DEF Replace, IInv
  <2>2. /\ o.side = active_by_exchange[cmd.id].side /\ o.price = cmd.price
        /\ o.leaves = cmd.quantity /\ o.side \in Sides
        /\ o.leaves \in 1..QuantityLimit /\ o.price \in Prices
    BY <2>1, OrderFields, Constants DEF NewOrder, AcceptableOrder, MayRest
  <2>3. can_add_to_level(o.side, o.price, o.leaves)
    BY <1>2, <2>2 DEF Replace, ReplaceOutcome
  <2>4. total[o.side][o.price] + o.leaves <= QuantityLimit
    BY <2>2, <2>3, RoomAtLevel
  <2>5. incoming' = o /\ total'[o.side][o.price] <= total[o.side][o.price]
    BY <1>2, <2>1, <2>2, GoneTotals DEF Replace, Accept, IInv
  <2>6. /\ total[o.side][o.price] \in Int /\ total'[o.side][o.price] \in Int
        /\ o.leaves \in Int
    BY <2>2 DEF IInv, TypeOK
  <2> QED BY <2>4, <2>5, <2>6, Constants DEF RestFits
<1>3. ASSUME MatchOne PROVE RestFits'
  <2>1. PICK side, p, x, q : Fill(side, p, x, q)
    BY <1>3, MatchIsFill
  <2>a. /\ incoming # NoOrder /\ incoming \in OrderView /\ Moved(side, p, x)
        /\ incoming'.side = incoming.side /\ incoming'.price = incoming.price
        /\ incoming'.leaves = incoming.leaves - q /\ q \in Nat
        /\ incoming'.tif = incoming.tif /\ incoming'.type = incoming.type
    BY <2>1, FillMoves
  <2>b. /\ side = Opposite(incoming.side) /\ side \in Sides
        /\ total' = [total EXCEPT ![side][p] = total[side][p] - q]
    BY <2>1 DEF Fill
  <2>2. /\ incoming # NoOrder /\ incoming \in OrderView
        /\ incoming'.side = incoming.side /\ incoming'.price = incoming.price
        /\ incoming'.leaves = incoming.leaves - q /\ q \in Nat
        /\ incoming'.tif = incoming.tif /\ incoming'.type = incoming.type
        /\ side = Opposite(incoming.side) /\ side \in Sides /\ p \in Prices
        /\ total' = [total EXCEPT ![side][p] = total[side][p] - q]
    BY <2>a, <2>b DEF Moved
  <2>3. incoming.side \in Sides /\ incoming.side # side /\ incoming.leaves \in Nat
    BY <2>2, OrderFields, Constants DEF Opposite, Sides
  <2>4. MayRest(incoming) => incoming.price \in Prices
    BY <2>2 DEF IInv, IncomingSound
  <2>5. ASSUME MayRest(incoming')
        PROVE  total'[incoming.side][incoming.price] + incoming'.leaves <= QuantityLimit
    <3>1. MayRest(incoming)
      BY <2>2, <2>5 DEF MayRest
    <3>2. /\ total[incoming.side][incoming.price] + incoming.leaves <= QuantityLimit
          /\ total[incoming.side][incoming.price] \in Int
      BY <2>2, <2>3, <2>4, <3>1 DEF RestFits, IInv, TypeOK
    <3>3. total'[incoming.side][incoming.price] = total[incoming.side][incoming.price]
      BY <2>2, <2>3, <2>4, <3>1 DEF IInv, TypeOK
    <3> QED BY <2>2, <2>3, <3>2, <3>3, Constants
  <2> QED BY <2>2, <2>5 DEF RestFits
<1>4. ASSUME NEW c \in ClientIds, NEW x \in Ids, Cancel(c, x) PROVE RestFits'
  BY <1>4 DEF Cancel, RestFits
<1>5. ASSUME FinishFilled \/ FinishRest \/ FinishCancelled PROVE RestFits'
  BY <1>5 DEF FinishFilled, FinishRest, FinishCancelled, Return, RestFits
<1>6. ASSUME UNCHANGED vars PROVE RestFits'
  BY <1>6 DEF vars, RestFits
<1> QED BY <1>1, <1>2, <1>3, <1>4, <1>5, <1>6 DEF Next

-----------------------------------------------------------------------------
(***************************************************************************)
(* Fill-or-kill.                                                           *)
(***************************************************************************)

\* Every level holds an order, so that only finitely many prices have one.
LEMMA LevelsFinite ==
  ASSUME IInv, NEW s \in Sides
  PROVE  IsFiniteSet(levels[s])
<1> DEFINE priced == {active_by_exchange[x].price : x \in Active}
           price == [x \in Active |-> active_by_exchange[x].price]
<1>1. IsFiniteSet(Active)
  BY IdsFinite, FS_Subset DEF Active
<1>2. price \in Surjection(Active, priced)
  BY DEF Surjection
<1>3. IsFiniteSet(priced)
  <2> HIDE DEF price, priced
  <2> QED BY <1>1, <1>2, FS_Surjection
<1>4. ASSUME NEW p \in levels[s] PROVE p \in priced
  <2>1. p \in Prices /\ queue[s][p] \in Seq(Ids) /\ queue[s][p] # <<>>
    BY DEF IInv, TypeOK, LevelsFifo
  <2>2. 1 \in 1..Len(queue[s][p])
    BY <2>1, EmptySeq
  <2>3. queue[s][p][1] \in Active /\ active_by_exchange[queue[s][p][1]].price = p
    BY <2>1, <2>2, QueuedIsActive DEF IInv
  <2> QED BY <2>3
<1> HIDE DEF priced
<1> QED BY <1>3, <1>4, FS_Subset

LEMMA ReachableIsInt ==
  ASSUME IInv, NEW side, NEW limit
  PROVE  Reachable(side, limit) \in Int
<1>1. PICK s \in Sides : s = Opposite(side)
  BY DEF Opposite, Sides
<1>2. PICK E : E = EligibleLevels(side, limit)
  OBVIOUS
<1>3. /\ IsFiniteSet(levels[s]) /\ E \in SUBSET levels[s]
      /\ \A p \in levels[s] : total[s][p] \in Int
  BY <1>1, <1>2, LevelsFinite DEF EligibleLevels, IInv, TypeOK
<1>4. IsFiniteSet(E) /\ \A p \in E : total[s][p] \in Int
  BY <1>3, FS_Subset
<1> QED BY <1>1, <1>2, <1>4, SumIsInt DEF Reachable

\* A trade takes as many lots from what the taker can reach as from the taker.
LEMMA FillReachable ==
  ASSUME IInv, IInv', TotalsSound, TotalsSound',
         NEW side, NEW p, NEW x, NEW q, Fill(side, p, x, q)
  PROVE  Reachable(incoming.side, incoming.price)'
           = Reachable(incoming.side, incoming.price) - q
<1>1. /\ side \in Sides /\ p \in Prices /\ q \in Int
      /\ side = Opposite(incoming.side) /\ side = Opposite(incoming'.side)
      /\ p \in levels[side] /\ p \in EligibleLevels(incoming.side, incoming.price)
      /\ incoming'.side = incoming.side /\ incoming'.price = incoming.price
  <2>1. Moved(side, p, x) /\ q \in Int
        /\ incoming'.side = incoming.side /\ incoming'.price = incoming.price
    BY FillMoves
  <2>2. side = Opposite(incoming.side) /\ p \in EligibleLevels(incoming.side, incoming.price)
    BY DEF Fill
  <2> QED BY <2>1, <2>2 DEF Moved, EligibleLevels
<1>2. PICK E, F, f, g :
        /\ E = EligibleLevels(incoming.side, incoming.price)
        /\ F = EligibleLevels(incoming.side, incoming.price)'
        /\ f = total[side] /\ g = total'[side]
  OBVIOUS
<1>3. levels' \in {levels, ErasedLevels(side, p)}
  BY DEF Fill
<1>4. F \in SUBSET E /\ E \ F \subseteq {p}
  <2>1. levels'[side] \subseteq levels[side] /\ levels[side] \ levels'[side] \subseteq {p}
    BY <1>1, <1>3 DEF ErasedLevels, IInv, TypeOK
  <2> QED BY <1>1, <1>2, <2>1 DEF EligibleLevels, Eligible
<1>5. IsFiniteSet(E) /\ E \subseteq Prices /\ p \in E
  <2>1. IsFiniteSet(levels[side]) /\ levels[side] \subseteq Prices
    BY <1>1, LevelsFinite DEF IInv, TypeOK
  <2>2. E \in SUBSET levels[side]
    BY <1>1, <1>2 DEF EligibleLevels
  <2> QED BY <1>1, <1>2, <2>1, <2>2, FS_Subset
<1>6. /\ \A r \in E : f[r] \in Int /\ g[r] \in Int
      /\ \A r \in E \ {p} : f[r] = g[r]
      /\ g[p] = f[p] - q
  BY <1>1, <1>2, <1>5 DEF Fill, IInv, TypeOK
<1>7. SumFunctionOnSet(g, E) = SumFunctionOnSet(f, E) - f[p] + g[p]
  <2>1. /\ IsFiniteSet(E) /\ p \in E
        /\ \A r \in E : f[r] \in Int /\ g[r] \in Int
        /\ \A r \in E \ {p} : f[r] = g[r]
    BY <1>5, <1>6
  <2> QED BY ONLY <2>1, SumOfUpdate
<1>8. \A r \in E \ F : g[r] = 0
  <2> SUFFICES ASSUME p \in E \ F PROVE g[p] = 0
    BY <1>4
  <2>1. p \notin levels'[side]
    BY <1>1, <1>2, <1>5 DEF EligibleLevels, Eligible
  <2>2. (p \notin levels[side] => total[side][p] = 0)'
    <3>1. ASSUME NEW y \in Ids PROVE ShownAt(side, p)'[y] = 0
      <4>1. ~(/\ y \in Active' /\ active_by_exchange'[y].side = side
              /\ active_by_exchange'[y].price = p)
        BY <1>1, <2>1 DEF IInv, Located, LevelsFifo
      <4> QED BY <3>1, <4>1 DEF ShownAt, Shown
    <3>2. SumFunctionOnSet(ShownAt(side, p)', Ids) = 0
      BY <3>1, IdsFinite, SumOfZeros
    <3> QED BY <1>1, <3>2 DEF TotalsSound
  <2> QED BY <1>2, <2>1, <2>2
<1>9. SumFunctionOnSet(g, E) = SumFunctionOnSet(g, F)
  BY ONLY <1>4, <1>5, <1>6, <1>8, SumOfRest
<1>10. SumFunctionOnSet(f, E) \in Int /\ f[p] \in Int
  BY ONLY <1>5, <1>6, SumIsInt
<1>11. SumFunctionOnSet(g, F) = SumFunctionOnSet(f, E) - q
  BY <1>1, <1>6, <1>7, <1>9, <1>10
<1> QED BY <1>1, <1>2, <1>11 DEF Reachable

\* What an accepted fill-or-kill order asks for can be reached, and the loop
\* keeps it so.
LEMMA StepFok ==
  ASSUME IInv, IInv', TotalsSound, TotalsSound', FokCovered, [Next]_vars
  PROVE  FokCovered'
<1>1. ASSUME NEW cmd \in Submits, Submit(cmd) PROVE FokCovered'
  <2>1. PICK o : /\ o = NewOrder(cmd.client, cmd.side, cmd.type, cmd.tif,
                                 cmd.quantity, cmd.price, cmd.postOnly)
                 /\ AcceptableOrder(o)
    BY <1>1, SubmitAccepted DEF Submit, IInv
  <2>2. /\ o.side = cmd.side /\ o.price = cmd.price /\ o.leaves = cmd.quantity
        /\ o.tif = cmd.tif /\ o.leaves \in Nat
    BY <2>1, OrderFields, Constants DEF NewOrder, AcceptableOrder
  <2>3. o.tif = "FOK" => can_fully_execute(o.side, o.leaves, o.price)
    BY <1>1, <2>2 DEF Submit, SubmitOutcome
  <2>4. incoming' = o /\ total' = total /\ levels' = levels
    BY <1>1, <2>1 DEF Submit, Accept, book
  <2>5. Reachable(o.side, o.price) \in Int
    BY ReachableIsInt
  <2>6. o.tif = "FOK" => o.leaves <= Reachable(o.side, o.price)
    BY <2>2, <2>3, <2>5 DEF can_fully_execute, Reachable
  <2>7. Reachable(incoming.side, incoming.price)' = Reachable(o.side, o.price)
    BY <2>4 DEF Reachable, EligibleLevels
  <2> QED BY <2>4, <2>6, <2>7 DEF FokCovered
<1>2. ASSUME NEW cmd \in ReplaceCommand, Replace(cmd) PROVE FokCovered'
  <2>1. incoming'.tif = "GTC"
    BY <1>2 DEF Replace, Accept, NewOrder
  <2> QED BY <2>1 DEF FokCovered
<1>3. ASSUME MatchOne PROVE FokCovered'
  <2>1. PICK side, p, x, q : Fill(side, p, x, q)
    BY <1>3, MatchIsFill
  <2>2. /\ incoming # NoOrder /\ incoming \in OrderView
        /\ incoming'.leaves = incoming.leaves - q /\ q \in Nat
        /\ incoming'.tif = incoming.tif
    BY <2>1, FillMoves
  <2>3. Reachable(incoming.side, incoming.price)'
           = Reachable(incoming.side, incoming.price) - q
    BY <2>1, FillReachable
  <2>4. PICK r : r = Reachable(incoming.side, incoming.price) /\ r \in Int
    BY ReachableIsInt
  <2>5. incoming.tif = "FOK" => incoming.leaves <= r
    BY <2>2, <2>4 DEF FokCovered
  <2>6. incoming.leaves \in Nat
    BY <2>2, OrderFields, Constants
  <2>7. incoming'.tif = "FOK" => incoming'.leaves <= r - q
    BY <2>2, <2>4, <2>5, <2>6
  <2> QED BY <2>3, <2>4, <2>7 DEF FokCovered
<1>4. ASSUME NEW c \in ClientIds, NEW x \in Ids, Cancel(c, x) PROVE FokCovered'
  BY <1>4 DEF Cancel, FokCovered
<1>5. ASSUME FinishFilled \/ FinishRest \/ FinishCancelled PROVE FokCovered'
  BY <1>5 DEF FinishFilled, FinishRest, FinishCancelled, Return, FokCovered
<1>6. ASSUME UNCHANGED vars PROVE FokCovered'
  BY <1>6 DEF vars, FokCovered, Reachable, EligibleLevels
<1> QED BY <1>1, <1>2, <1>3, <1>4, <1>5, <1>6 DEF Next

\* A record that is written keeps the promise when it is no fill-or-kill
\* order, is filled, or is still being matched.
LEMMA RecordKeepsFok ==
  ASSUME IInv, FillOrKillAtomic, NEW x \in Ids, NEW t,
         orders_by_exchange' = [orders_by_exchange EXCEPT ![x] = t],
         \/ t.tif # "FOK"
         \/ t.state = "Filled"
         \/ incoming' # NoOrder /\ incoming'.id = x,
         incoming # NoOrder /\ incoming.id # x => incoming' # NoOrder /\ incoming'.id = incoming.id
  PROVE  FillOrKillAtomic'
<1>1. \A y \in Ids : orders_by_exchange'[y] = IF y = x THEN t ELSE orders_by_exchange[y]
  BY DEF IInv, TypeOK
<1> QED BY <1>1 DEF FillOrKillAtomic

LEMMA StepAtomic ==
  ASSUME IInv, FokCovered, FillOrKillAtomic, [Next]_vars
  PROVE  FillOrKillAtomic'
<1>0. \A x \in Active : /\ x \in Ids /\ active_by_exchange[x].tif = "GTC"
                        /\ active_by_exchange[x] \in OrderView
  BY ActiveIsOrder DEF IInv, ActiveSound
<1>1. ASSUME NEW cmd \in Submits, Submit(cmd) PROVE FillOrKillAtomic'
  <2>1. PICK o : /\ AcceptableOrder(o) /\ Accept(o) /\ incoming = NoOrder
                 /\ orders_by_exchange' = [orders_by_exchange EXCEPT ![o.id] = o]
    BY <1>1, SubmitAccepted DEF Submit, IInv
  <2>2. incoming' = o /\ o # NoOrder /\ o.id \in Ids
    BY <2>1, OrderFields DEF Accept, AcceptableOrder
  <2> QED BY <2>1, <2>2, RecordKeepsFok
<1>2. ASSUME NEW c \in ClientIds, NEW x \in Ids, Cancel(c, x) PROVE FillOrKillAtomic'
  <2>1. x \in Active /\ incoming = NoOrder
    BY <1>2 DEF Cancel, locate_active, Active
  <2>2. Terminated(x, "Cancelled").tif = "GTC"
    BY <2>1, <1>0 DEF Terminated, OrderView
  <2> QED BY <1>2, <2>1, <2>2, RecordKeepsFok DEF Cancel
<1>3. ASSUME NEW cmd \in ReplaceCommand, Replace(cmd) PROVE FillOrKillAtomic'
  <2>1. PICK x, o, t :
          /\ x \in Active /\ AcceptableOrder(o) /\ t = Terminated(x, "Replaced")
          /\ o.tif = "GTC" /\ incoming = NoOrder
          /\ orders_by_exchange' = [orders_by_exchange EXCEPT ![x] = t, ![o.id] = o]
    BY <1>3, ReplaceAccepted DEF Replace, IInv, NewOrder
  <2>2. t.tif = "GTC"
    BY <2>1, <1>0 DEF Terminated, OrderView
  <2>3. \A y \in Ids : orders_by_exchange'[y] \in {o, t, orders_by_exchange[y]}
    BY <2>1 DEF IInv, TypeOK
  <2> QED BY <2>1, <2>2, <2>3 DEF FillOrKillAtomic
<1>4. ASSUME MatchOne PROVE FillOrKillAtomic'
  <2>1. PICK side, p, x, q : Fill(side, p, x, q)
    BY <1>4, MatchIsFill
  <2>2. /\ x \in Active /\ q \in 0..active_by_exchange[x].leaves
        /\ Open(active_by_exchange[x])
        /\ orders_by_exchange' =
             [orders_by_exchange EXCEPT ![x] = AfterFill(active_by_exchange[x], q)]
    BY <2>1 DEF Fill, MakerAndTaker
  <2>3. AfterFill(active_by_exchange[x], q).tif = "GTC"
    BY <2>2, <1>0, AfterFillFields DEF Open
  <2>4. incoming'.id = incoming.id /\ incoming' # NoOrder
    <3>1. incoming' = AfterFill(incoming, q) /\ incoming \in OrderView
          /\ q \in 0..incoming.leaves /\ incoming.cum + incoming.leaves = incoming.quantity
      BY <2>1, OrderFields DEF Fill, MakerAndTaker, IInv, IncomingSound
    <3> QED BY <3>1, AfterFillFields, OrderFields
  <2> QED BY <2>2, <2>3, <2>4, <1>0, RecordKeepsFok
<1>5. incoming # NoOrder => incoming \in OrderView /\ incoming.id \in Ids
  BY OrderFields DEF IInv, TypeOK
<1>6. ASSUME FinishFilled PROVE FillOrKillAtomic'
  <2>1. PICK t : t = [incoming EXCEPT !.state = "Filled"] /\ Return(t) /\ incoming # NoOrder
    BY <1>6 DEF FinishFilled
  <2>2. t.id = incoming.id /\ t.state = "Filled"
    BY <2>1, <1>5 DEF OrderView
  <2> QED BY <2>1, <2>2, <1>5, RecordKeepsFok DEF Return
<1>7. ASSUME FinishRest PROVE FillOrKillAtomic'
  <2>1. /\ RestingRecord.id = incoming.id /\ RestingRecord.tif = "GTC"
        /\ incoming # NoOrder /\ Return(RestingRecord)
    BY <1>7, RestingFields DEF FinishRest, RestingRecord
  <2> QED BY <2>1, <1>5, RecordKeepsFok DEF Return
<1>8. ASSUME FinishCancelled PROVE FillOrKillAtomic'
  <2>1. PICK t : /\ t = [incoming EXCEPT !.leaves = 0, !.state = "Cancelled"]
                 /\ Return(t) /\ incoming # NoOrder
                 /\ incoming.leaves > 0 /\ ~CanMatch
    BY <1>8 DEF FinishCancelled
  <2>2. t.id = incoming.id /\ t.tif = incoming.tif
    BY <2>1, <1>5 DEF OrderView
  <2>3. incoming.tif # "FOK"
    <3>1. EligibleLevels(incoming.side, incoming.price) = {}
      BY <2>1 DEF CanMatch, would_cross
    <3>2. Reachable(incoming.side, incoming.price) = 0
      BY <3>1, SumOfNone DEF Reachable
    <3>3. incoming.leaves \in Nat
      BY <2>1, <1>5, OrderFields, Constants
    <3> QED BY <2>1, <3>2, <3>3 DEF FokCovered
  <2> QED BY <2>1, <2>2, <2>3, <1>5, RecordKeepsFok DEF Return
<1>9. ASSUME UNCHANGED vars PROVE FillOrKillAtomic'
  BY <1>9 DEF vars, FillOrKillAtomic
<1> QED BY <1>1, <1>2, <1>3, <1>4, <1>6, <1>7, <1>8, <1>9 DEF Next

-----------------------------------------------------------------------------
(***************************************************************************)
(* The identifiers of the matching loop, and the order of arrival.         *)
(***************************************************************************)

\* With identifiers for one more, a counter gives one and is left with
\* identifiers for the rest.
LEMMA AllocateOne ==
  ASSUME NEW n \in Ids \cup {NoId}, NEW k \in Nat, has_capacity(n, k + 1)
  PROVE  /\ n # NoId /\ Allocate(n) \in Ids \cup {NoId}
         /\ has_capacity(Allocate(n), k)
<1>1. n \in 1..IdLimit /\ IdLimit \in Nat /\ k <= IdLimit - n
  BY Constants DEF has_capacity, Ids, NoId
<1>2. CASE n = IdLimit
  BY <1>1, <1>2 DEF Allocate, has_capacity, Ids, NoId
<1>3. CASE n # IdLimit
  BY <1>1, <1>3 DEF Allocate, has_capacity, Ids, NoId
<1> QED BY <1>2, <1>3

\* Capacity for more is capacity for fewer.
LEMMA CapacityForFewer ==
  ASSUME NEW n \in Ids \cup {NoId}, NEW k \in Nat, NEW m \in Nat, m <= k,
         has_capacity(n, k)
  PROVE  has_capacity(n, m)
BY Constants DEF has_capacity, Ids, NoId

LEMMA ActiveFinite ==
  /\ IsFiniteSet(Active) /\ Cardinality(Active) \in Nat
  /\ \A x \in Active : Cardinality(Active \ {x}) = Cardinality(Active) - 1
<1>1. IsFiniteSet(Active)
  BY IdsFinite, FS_Subset DEF Active
<1> QED BY <1>1, FS_CardinalityType, FS_RemoveElement

LEMMA LoopCounters ==
  ASSUME TypeOK
  PROVE  next_match_sequence \in Ids \cup {NoId} /\ next_execution_id \in Ids \cup {NoId}
BY DEF TypeOK, Counters

\* While the loop can run, there is an order to meet and there are three
\* identifiers for the meeting.
LEMMA LoopAllocates ==
  ASSUME IInv, LoopHasCapacity, CanMatch
  PROVE  /\ next_match_sequence # NoId /\ next_execution_id # NoId
         /\ Allocate(next_execution_id) # NoId
         /\ \E k \in Nat : /\ Cardinality(Active) = k + 1
                           /\ has_capacity(Allocate(next_match_sequence), k)
                           /\ has_capacity(Allocate(Allocate(next_execution_id)), 2 * k)
<1>1. Active # {}
  <2>1. PICK p : p \in EligibleLevels(incoming.side, incoming.price)
    BY DEF CanMatch, would_cross
  <2>2. PICK s \in Sides : s = Opposite(incoming.side) /\ p \in levels[s]
    BY <2>1 DEF EligibleLevels, Opposite, Sides
  <2>3. p \in Prices /\ queue[s][p] \in Seq(Ids) /\ queue[s][p] # <<>>
    BY <2>2 DEF IInv, TypeOK, LevelsFifo
  <2>4. 1 \in 1..Len(queue[s][p])
    BY <2>3, EmptySeq
  <2> QED BY <2>2, <2>3, <2>4, QueuedIsActive DEF IInv
<1>2. PICK k \in Nat : Cardinality(Active) = k + 1
  <2>1. PICK x \in Active : TRUE
    BY <1>1
  <2>2. Cardinality(Active \ {x}) \in Nat
    BY ActiveFinite, FS_RemoveElement, FS_CardinalityType
  <2>3. Cardinality(Active) = Cardinality(Active \ {x}) + 1
    BY <2>2, ActiveFinite
  <2> QED BY <2>2, <2>3
<1>3. /\ has_capacity(next_match_sequence, k + 1)
      /\ has_capacity(next_execution_id, (2 * k + 1) + 1)
  <2>1. 2 * (k + 1) = (2 * k + 1) + 1
    OBVIOUS
  <2> QED BY <1>2, <2>1 DEF LoopHasCapacity, CanMatch
<1>4. next_match_sequence \in Ids \cup {NoId} /\ next_execution_id \in Ids \cup {NoId}
  BY LoopCounters DEF IInv
<1>5. next_match_sequence # NoId /\ has_capacity(Allocate(next_match_sequence), k)
  BY <1>3, <1>4, AllocateOne
<1>6. /\ next_execution_id # NoId /\ Allocate(next_execution_id) \in Ids \cup {NoId}
      /\ has_capacity(Allocate(next_execution_id), 2 * k + 1)
  BY <1>3, <1>4, AllocateOne
<1>7. /\ Allocate(next_execution_id) # NoId
      /\ has_capacity(Allocate(Allocate(next_execution_id)), 2 * k)
  BY <1>6, AllocateOne
<1> QED BY <1>2, <1>5, <1>6, <1>7

LEMMA StepCapacity ==
  ASSUME IInv, IInv', LoopHasCapacity, [Next]_vars
  PROVE  LoopHasCapacity'
<1>1. ASSUME NEW cmd \in Submits, Submit(cmd) PROVE LoopHasCapacity'
  <2>1. HasIdentifierCapacity
    BY <1>1 DEF Submit, SubmitOutcome
  <2>2. /\ next_match_sequence' = next_match_sequence
        /\ next_execution_id' = next_execution_id
        /\ Active' = Active
    BY <1>1 DEF Submit, Accept, matchIds, Active
  <2> QED BY <2>1, <2>2 DEF LoopHasCapacity, HasIdentifierCapacity
<1>2. ASSUME NEW cmd \in ReplaceCommand, Replace(cmd) PROVE LoopHasCapacity'
  <2>1. HasIdentifierCapacity
    BY <1>2 DEF Replace, ReplaceOutcome
  <2>2. cmd.id \in Active /\ Active' = Active \ {cmd.id}
    BY <1>2, ReplaceAccepted, RemoveActiveLeaves DEF Replace, IInv, Left
  <2>3. PICK n, m : n = Cardinality(Active) /\ m = Cardinality(Active')
    OBVIOUS
  <2>4. n \in Nat /\ m \in Nat /\ m = n - 1
    <3>1. IsFiniteSet(Active \ {cmd.id})
      BY ActiveFinite, FS_RemoveElement
    <3> QED BY <2>2, <2>3, <3>1, ActiveFinite, FS_CardinalityType
  <2>5. /\ next_match_sequence' = next_match_sequence
        /\ next_execution_id' = next_execution_id
    BY <1>2 DEF Replace, Accept, matchIds
  <2>6. has_capacity(next_match_sequence, m) /\ has_capacity(next_execution_id, 2 * m)
    <3>1. has_capacity(next_match_sequence, n) /\ has_capacity(next_execution_id, 2 * n)
      BY <2>1, <2>3 DEF HasIdentifierCapacity
    <3>2. m <= n /\ 2 * m <= 2 * n /\ 2 * m \in Nat /\ 2 * n \in Nat
      BY <2>4
    <3>3. next_match_sequence \in Ids \cup {NoId} /\ next_execution_id \in Ids \cup {NoId}
      BY LoopCounters DEF IInv
    <3> QED BY <2>4, <3>1, <3>2, <3>3, CapacityForFewer
  <2> QED BY <2>3, <2>5, <2>6 DEF LoopHasCapacity, has_capacity
<1>3. ASSUME MatchOne PROVE LoopHasCapacity'
  <2>1. PICK side, p, x, q : Fill(side, p, x, q)
    BY <1>3, MatchIsFill
  <2>2. /\ next_match_sequence' = Allocate(next_match_sequence)
        /\ next_execution_id' = Allocate(Allocate(next_execution_id))
        /\ CanMatch
    BY <1>3 DEF MatchOne
  <2>3. PICK k \in Nat : /\ Cardinality(Active) = k + 1
                         /\ has_capacity(Allocate(next_match_sequence), k)
                         /\ has_capacity(Allocate(Allocate(next_execution_id)), 2 * k)
    BY <2>2, LoopAllocates
  <2>4. x \in Active
    BY <2>1 DEF Fill, MakerAndTaker
  <2>5. CASE incoming'.leaves = 0
    BY <2>5 DEF LoopHasCapacity
  <2>6. CASE incoming'.leaves # 0
    <3>1. Active' = Active \ {x}
      BY <2>1, <2>6, FillMoves
    <3>2. Cardinality(Active') = k
      BY <2>3, <2>4, <3>1, ActiveFinite
    <3> QED BY <2>2, <2>3, <3>2 DEF LoopHasCapacity, has_capacity
  <2> QED BY <2>5, <2>6
<1>4. ASSUME NEW c \in ClientIds, NEW x \in Ids, Cancel(c, x) PROVE LoopHasCapacity'
  BY <1>4 DEF Cancel, LoopHasCapacity
<1>5. ASSUME FinishFilled \/ FinishRest \/ FinishCancelled PROVE LoopHasCapacity'
  BY <1>5 DEF FinishFilled, FinishRest, FinishCancelled, Return, LoopHasCapacity
<1>6. ASSUME UNCHANGED vars PROVE LoopHasCapacity'
  BY <1>6 DEF vars, LoopHasCapacity, Active, has_capacity
<1> QED BY <1>1, <1>2, <1>3, <1>4, <1>5, <1>6 DEF Next

\* Fewer orders with the priorities they had, and a taker that is the same.
LEMMA FewerArrived ==
  ASSUME ArrivalOrder, Active' \subseteq Active,
         \A y \in Active' : active_by_exchange'[y].priority
                              = active_by_exchange[y].priority,
         \/ incoming' = NoOrder
         \/ incoming # NoOrder /\ incoming'.id = incoming.id
         \/ \A y \in Active' : y < incoming'.id
  PROVE  ArrivalOrder'
BY DEF ArrivalOrder

LEMMA StepArrival ==
  ASSUME IInv, IInv', ArrivalOrder, [Next]_vars
  PROVE  ArrivalOrder'
<1>1. ASSUME NEW o, AcceptableOrder(o), Accept(o)
      PROVE  incoming' = o /\ \A y \in Active : y < o.id
  <2>1. \A y \in Active : y \in Ids /\ orders_by_exchange[y] # NoOrder
    BY ActiveIsOrder, OrderFields DEF IInv, ActiveSound
  <2> QED BY <1>1, <2>1, NewIsNew DEF Accept
<1>2. ASSUME NEW cmd \in Submits, Submit(cmd) PROVE ArrivalOrder'
  <2>1. UNCHANGED active_by_exchange /\ Active' = Active
    BY <1>2 DEF Submit, Active
  <2>2. \A y \in Active : y < incoming'.id
    BY <1>1, <1>2, SubmitAccepted DEF Submit, IInv
  <2> QED BY <2>1, <2>2, FewerArrived
<1>3. ASSUME NEW x \in Active, RemoveActive(x)
      PROVE  /\ Active' \subseteq Active
             /\ \A y \in Active' : active_by_exchange'[y].priority
                                     = active_by_exchange[y].priority
  BY <1>3, RemoveActiveLeaves, ActiveIsOrder DEF Left, IInv
<1>4. ASSUME NEW cmd \in ReplaceCommand, Replace(cmd) PROVE ArrivalOrder'
  <2>1. cmd.id \in Active /\ RemoveActive(cmd.id)
    BY <1>4, ReplaceAccepted DEF Replace, IInv
  <2>2. \A y \in Active : y < incoming'.id
    BY <1>1, <1>4, ReplaceAccepted DEF Replace, IInv
  <2> QED BY <2>1, <2>2, <1>3, FewerArrived
<1>5. ASSUME NEW c \in ClientIds, NEW x \in Ids, Cancel(c, x) PROVE ArrivalOrder'
  <2>1. x \in Active /\ RemoveActive(x) /\ incoming' = NoOrder
    BY <1>5 DEF Cancel, locate_active, Active
  <2> QED BY <2>1, <1>3, FewerArrived
<1>6. ASSUME MatchOne PROVE ArrivalOrder'
  <2>1. PICK side, p, x, q : Fill(side, p, x, q)
    BY <1>6, MatchIsFill
  <2>2. /\ x \in Active /\ Open(active_by_exchange[x])
        /\ q \in 0..active_by_exchange[x].leaves
    BY <2>1 DEF Fill, MakerAndTaker
  <2>3. AfterFill(active_by_exchange[x], q).priority = active_by_exchange[x].priority
    BY <2>2, ActiveIsOrder, AfterFillFields DEF Open, IInv
  <2>4. /\ incoming # NoOrder /\ incoming'.id = incoming.id
        /\ Active' \subseteq Active
        /\ x \in Active' => active_by_exchange'[x] = AfterFill(active_by_exchange[x], q)
        /\ \A y \in Ids \ {x} : active_by_exchange'[y] = active_by_exchange[y]
    BY <2>1, FillMoves DEF Moved
  <2>5. \A y \in Active' : active_by_exchange'[y].priority = active_by_exchange[y].priority
    BY <2>3, <2>4 DEF Active
  <2> QED BY <2>4, <2>5, FewerArrived
<1>7. ASSUME FinishRest PROVE ArrivalOrder'
  <2>1. PICK x, t :
          /\ x = incoming.id /\ t = RestingRecord /\ x \in Ids /\ x \notin Active
          /\ Active' = Active \cup {x} /\ active_by_exchange'[x] = t
          /\ \A y \in Ids \ {x} : active_by_exchange'[y] = active_by_exchange[y]
          /\ incoming' = NoOrder /\ incoming # NoOrder
          /\ t.priority = incoming.priority
    BY <1>7, RestMoves, RestingFields DEF Moved, FinishRest
  <2>2. \A y \in Active : /\ y \in Ids /\ y < x
                          /\ active_by_exchange[y].priority < t.priority
                          /\ active_by_exchange'[y] = active_by_exchange[y]
    BY <2>1 DEF ArrivalOrder, IInv, IncomingSound, Active
  <2>3. ASSUME NEW a \in Active', NEW b \in Active', a < b
        PROVE  active_by_exchange'[a].priority < active_by_exchange'[b].priority
    <3>1. a # x \/ b # x
      BY <2>1, <2>3, IdsFinite
    <3>2. ~(a = x /\ b \in Active)
      BY <2>1, <2>2, <2>3, IdsFinite
    <3>3. a \in Active
      BY <2>1, <3>1, <3>2
    <3>4. CASE b = x
      BY <2>1, <2>2, <3>3, <3>4
    <3>5. CASE b \in Active
      BY <2>2, <2>3, <3>3, <3>5 DEF ArrivalOrder
    <3> QED BY <2>1, <3>4, <3>5
  <2> QED BY <2>1, <2>3 DEF ArrivalOrder
<1>8. ASSUME FinishFilled \/ FinishCancelled PROVE ArrivalOrder'
  BY <1>8 DEF FinishFilled, FinishCancelled, Return, ArrivalOrder, Active
<1>9. ASSUME UNCHANGED vars PROVE ArrivalOrder'
  BY <1>9 DEF vars, ArrivalOrder, Active
<1> QED BY <1>2, <1>4, <1>5, <1>6, <1>7, <1>8, <1>9 DEF Next


-----------------------------------------------------------------------------
(***************************************************************************)
(* The invariant is inductive.                                             *)
(***************************************************************************)

\* An engine without orders has empty levels.
LEMMA InitLotsInv == Init => LotsInv
<1> SUFFICES ASSUME Init PROVE LotsInv
  OBVIOUS
<1>1. IInv
  BY InitIInv
<1>2. /\ \A s \in Sides, p \in Prices : total[s][p] = 0
      /\ \A x \in Ids : active_by_exchange[x] = NoOrder /\ orders_by_exchange[x] = NoOrder
      /\ incoming = NoOrder
  BY DEF Init
<1>3. Active = {}
  BY <1>2 DEF Active
<1>4. TotalsSound
  <2> SUFFICES ASSUME NEW s \in Sides, NEW p \in Prices
               PROVE  /\ total[s][p] = SumFunctionOnSet(ShownAt(s, p), Ids)
                      /\ total[s][p] <= QuantityLimit
    BY DEF TotalsSound
  <2>1. \A x \in Ids : ShownAt(s, p)[x] = 0
    BY <1>3 DEF ShownAt, Shown
  <2>2. SumFunctionOnSet(ShownAt(s, p), Ids) = 0
    BY <2>1, IdsFinite, SumOfZeros
  <2> QED BY <1>2, <2>2, Constants
<1>5. RestFits /\ FokCovered /\ FillOrKillAtomic /\ LoopHasCapacity /\ ArrivalOrder
  BY <1>2, <1>3 DEF RestFits, FokCovered, FillOrKillAtomic, LoopHasCapacity, ArrivalOrder
<1> QED BY <1>1, <1>4, <1>5 DEF LotsInv

\* Every step keeps it.
LEMMA NextLotsInv == LotsInv /\ [Next]_vars => LotsInv'
<1> SUFFICES ASSUME LotsInv, [Next]_vars PROVE LotsInv'
  OBVIOUS
<1>1. /\ IInv /\ TotalsSound /\ RestFits /\ FokCovered /\ FillOrKillAtomic
      /\ LoopHasCapacity /\ ArrivalOrder
  BY DEF LotsInv
<1>2. IInv'
  BY <1>1, NextIInv
<1>3. TotalsSound' /\ RestFits'
  BY <1>1, <1>2, StepTotals, StepRoom
<1>4. FokCovered' /\ FillOrKillAtomic'
  BY <1>1, <1>2, <1>3, StepFok, StepAtomic
<1>5. LoopHasCapacity' /\ ArrivalOrder'
  BY <1>1, <1>2, StepCapacity, StepArrival
<1> QED BY <1>2, <1>3, <1>4, <1>5 DEF LotsInv

\* The level totals, the room that a resting order needs, the cover of a
\* fill-or-kill order, the identifiers of the loop and the order of arrival
\* are sound in every reachable state.
THEOREM LotsInvariance == Spec => []LotsInv
BY InitLotsInv, NextLotsInv, PTL DEF Spec

-----------------------------------------------------------------------------
(***************************************************************************)
(* The theorems.                                                           *)
(***************************************************************************)

\* What a level shows is what the orders of its queue have left.
LEMMA QueueSum ==
  ASSUME IInv, NEW s \in Sides, NEW p \in Prices
  PROVE  SumFunctionOnSet(ShownAt(s, p), Ids) =
           SumFunction([i \in 1..Len(queue[s][p]) |->
                         active_by_exchange[queue[s][p][i]].leaves])
<1>1. PICK S, q, f, g :
        /\ S = 1..Len(queue[s][p]) /\ q = queue[s][p] /\ f = ShownAt(s, p)
        /\ g = [i \in S |-> active_by_exchange[queue[s][p][i]].leaves]
  OBVIOUS
<1>2. IsFiniteSet(S)
  <2>1. Len(queue[s][p]) \in Nat
    BY DEF IInv, TypeOK
  <2> QED BY <1>1, <2>1, FS_Interval
<1>3. \A i \in S : q[i] \in Active /\ q[i] \in Ids /\ Shown(s, p, q[i]) = g[i]
                   /\ f[q[i]] \in Int /\ g[i] = f[q[i]]
  <2> SUFFICES ASSUME NEW i \in S
               PROVE  q[i] \in Active /\ q[i] \in Ids /\ Shown(s, p, q[i]) = g[i]
                      /\ f[q[i]] \in Int /\ g[i] = f[q[i]]
    OBVIOUS
  <2>1. /\ q[i] \in Active /\ q[i] \in Ids /\ active_by_exchange[q[i]].side = s
        /\ active_by_exchange[q[i]].price = p
    BY <1>1, QueuedIsActive, ActiveIsOrder DEF IInv
  <2>2. Shown(s, p, q[i]) = g[i]
    BY <1>1, <2>1 DEF Shown
  <2>3. f[q[i]] = Shown(s, p, q[i]) /\ Shown(s, p, q[i]) \in Nat
    BY <1>1, <2>1, ShownIsNat DEF IInv
  <2> QED BY <2>1, <2>2, <2>3
<1>4. \A i, j \in S : q[i] = q[j] => i = j
  BY <1>1, OnePlace DEF IInv
<1>5. \A i \in S : f[q[i]] \in Int /\ g[i] = f[q[i]]
  BY <1>3
<1>6. PICK R : R = {q[i] : i \in S}
  OBVIOUS
<1>7. SumFunctionOnSet(g, S) = SumFunctionOnSet(f, R)
  BY ONLY <1>2, <1>4, <1>5, <1>6, SumOfImage
<1>8. /\ R \in SUBSET Ids /\ \A x \in Ids : f[x] \in Int
      /\ \A x \in Ids \ R : f[x] = 0
  <2>1. R \in SUBSET Ids
    BY <1>3, <1>6
  <2>2. \A x \in Ids : f[x] = Shown(s, p, x) /\ f[x] \in Nat
    BY <1>1, ShownIsNat DEF IInv
  <2>3. ASSUME NEW x \in Ids, Shown(s, p, x) # 0 PROVE x \in R
    <3>1. x \in Active /\ active_by_exchange[x].side = s /\ active_by_exchange[x].price = p
      BY <2>3 DEF Shown
    <3>2. PICK i \in 1..Len(queue[s][p]) : queue[s][p][i] = x
      BY <3>1 DEF IInv, Located
    <3> QED BY <1>1, <1>6, <3>2
  <2> QED BY <2>1, <2>2, <2>3
<1>9. SumFunctionOnSet(f, Ids) = SumFunctionOnSet(f, R)
  BY ONLY <1>8, IdsFinite, SumOfRest
<1>10. SumFunction(g) = SumFunctionOnSet(g, S)
  BY <1>1 DEF SumFunction, SumFunctionOnSet
<1> QED BY <1>1, <1>7, <1>9, <1>10


\* The total that a level shows, which checked_add and checked_subtract keep
\* by hand, is always the sum over its queue, and it never overflows.
THEOREM LevelTotalsExact == Spec => []AggregateQuantity
<1>1. ASSUME LotsInv PROVE AggregateQuantity
  <2> SUFFICES ASSUME NEW s \in Sides, NEW p \in Prices
               PROVE  /\ total[s][p] = SumFunction([i \in 1..Len(queue[s][p]) |->
                            active_by_exchange[queue[s][p][i]].leaves])
                      /\ total[s][p] <= QuantityLimit
    BY DEF AggregateQuantity
  <2>1. total[s][p] = SumFunctionOnSet(ShownAt(s, p), Ids) /\ total[s][p] <= QuantityLimit
    BY <1>1 DEF LotsInv, TotalsSound
  <2>2. SumFunctionOnSet(ShownAt(s, p), Ids) =
          SumFunction([i \in 1..Len(queue[s][p]) |->
                        active_by_exchange[queue[s][p][i]].leaves])
    BY <1>1, QueueSum DEF LotsInv
  <2> QED BY <2>1, <2>2
<1> QED BY <1>1, LotsInvariance, PTL

\* The capacity check made on acceptance is enough for the whole loop: no
\* allocate call of match_level finds its counter exhausted.
THEOREM LoopNeverExhausted == Spec => []AllocationNeverThrows
<1>1. LotsInv => AllocationNeverThrows
  BY LoopAllocates DEF LotsInv, AllocationNeverThrows
<1> QED BY <1>1, LotsInvariance, PTL

\* A fill-or-kill order fills completely or is refused, a post-only order
\* never takes, and only good-til-cancelled orders rest.
THEOREM OrderTermsKept == Spec => []TermsKept
<1>1. LotsInv => FillOrKillAtomic
  BY DEF LotsInv
<1>2. (FillOrKillAtomic /\ PassiveAndAggressive) => TermsKept
  BY DEF TermsKept
<1> QED BY <1>1, <1>2, LotsInvariance, PassiveOrdersRest, PTL

\* A pass of the matching loop takes lots from the taker, and every other
\* step of a call is its last.
LEMMA StepProgresses ==
  ASSUME IInv, [Next]_vars, incoming # NoOrder, ~UNCHANGED vars
  PROVE  incoming' = NoOrder \/ incoming'.leaves < incoming.leaves
<1>1. CASE MatchOne
  <2>1. PICK side, p, x, q : Fill(side, p, x, q)
    BY <1>1, MatchIsFill
  <2>2. /\ incoming'.leaves = incoming.leaves - q /\ q \in Nat \ {0}
        /\ incoming \in OrderView
    BY <2>1, FillMoves
  <2>3. incoming.leaves \in Nat
    BY <2>2, OrderFields, Constants
  <2> QED BY <2>2, <2>3
<1>2. CASE FinishFilled \/ FinishRest \/ FinishCancelled
  BY <1>2 DEF FinishFilled, FinishRest, FinishCancelled, Return
<1> QED BY <1>1, <1>2 DEF Next, Submit, Cancel, Replace

\* The matching loop ends: a call makes at most as many passes as its order
\* has lots.
THEOREM LoopEnds == Spec => MatchingProgresses
<1>1. ASSUME IInv, [Next]_vars
      PROVE  [incoming # NoOrder => \/ incoming' = NoOrder
                                    \/ incoming'.leaves < incoming.leaves]_vars
  <2>1. CASE UNCHANGED vars
    BY <2>1
  <2>2. CASE ~UNCHANGED vars
    BY <1>1, <2>2, StepProgresses
  <2> QED BY <2>1, <2>2
<1> QED BY <1>1, Invariance, PTL DEF Spec, MatchingProgresses


-----------------------------------------------------------------------------
(***************************************************************************)
(* The engine implements the market of PriceTimeMarket.                    *)
(***************************************************************************)

\* What the market sees of an active order.
View(x) ==
  [id |-> x, side |-> active_by_exchange[x].side,
   price |-> active_by_exchange[x].price, leaves |-> active_by_exchange[x].leaves]

\* One order changes in the engine, and one in the market.
LEMMA RestingChanges ==
  ASSUME NEW x \in Ids,
         \A y \in Ids \ {x} : active_by_exchange'[y] = active_by_exchange[y]
  PROVE  RestingOrders' = (RestingOrders \ {View(x)}) \cup {View(y)' : y \in Active' \cap {x}}
<1>1. RestingOrders = {View(y) : y \in Active} /\ RestingOrders' = {View(y)' : y \in Active'}
  BY DEF RestingOrders, View
<1>2. Active' \ {x} = Active \ {x} /\ Active \subseteq Ids /\ Active' \subseteq Ids
  BY DEF Active
<1>3. \A y \in Ids \ {x} : View(y)' = View(y)
  BY DEF View
<1>4. \A y \in Ids : View(y).id = y
  BY DEF View
<1>5. RestingOrders \ {View(x)} = {View(y) : y \in Active \ {x}}
  BY <1>1, <1>2, <1>4
<1>6. RestingOrders' = {View(y)' : y \in Active' \ {x}} \cup {View(y)' : y \in Active' \cap {x}}
  BY <1>1
<1>7. {View(y)' : y \in Active' \ {x}} = {View(y) : y \in Active \ {x}}
  BY <1>2, <1>3
<1> QED BY <1>5, <1>6, <1>7

\* The absent taker and only it is nobody.
LEMMA AggressorIsOrder ==
  ASSUME incoming \in OrderView, incoming # NoOrder
  PROVE  /\ Aggressor \in AggressorView /\ Aggressor # NoOrder
         /\ Aggressor = [id |-> incoming.id, side |-> incoming.side,
                         price |-> incoming.price, leaves |-> incoming.leaves,
                         mayRest |-> MayRest(incoming)]
<1>1. Aggressor = [id |-> incoming.id, side |-> incoming.side,
                   price |-> incoming.price, leaves |-> incoming.leaves,
                   mayRest |-> MayRest(incoming)]
  BY DEF Aggressor
<1>2. MayRest(incoming) \in BOOLEAN
  BY DEF MayRest
<1>3. Aggressor \in AggressorView
  BY <1>1, <1>2, OrderFields DEF AggressorView
<1> QED BY <1>1, <1>3, Constants

\* An order that is accepted arrives, and only the one it replaces goes.
LEMMA AcceptArrives ==
  ASSUME LotsInv, TypeOK', incoming = NoOrder, NEW o, AcceptableOrder(o), incoming' = o,
         NEW gone, RestingOrders' = RestingOrders \ gone
  PROVE  Market!Arrive(gone)
<1>1. o \in OrderView /\ o # NoOrder /\ o.leaves \in 1..QuantityLimit
  BY OrderFields DEF AcceptableOrder
<1>2. /\ Aggressor = NoOrder
      /\ Aggressor' = [id |-> o.id, side |-> o.side, price |-> o.price,
                       leaves |-> o.leaves, mayRest |-> MayRest(o)]
  BY <1>1 DEF Aggressor, MayRest
<1>3. Aggressor' \in Market!Arrival
  <2>1. MayRest(o) \in BOOLEAN
    BY DEF MayRest
  <2> QED BY <1>1, <1>2, <2>1, OrderFields DEF Market!Arrival, Ids, Sides, NoPrice
<1>4. Aggressor'.mayRest => Aggressor'.price # 0
  BY <1>2, Constants DEF AcceptableOrder
<1>5. \A r \in RestingOrders : r.id < Aggressor'.id
  <2>1. \A y \in Active : y \in Ids /\ orders_by_exchange[y] # NoOrder
    BY ActiveIsOrder, OrderFields DEF LotsInv, IInv, ActiveSound
  <2>2. \A y \in Active : y < o.id
    BY <2>1, NewIsNew DEF LotsInv
  <2> QED BY <1>2, <2>2 DEF RestingOrders
<1> QED BY <1>2, <1>3, <1>4, <1>5 DEF Market!Arrive

LEMMA SubmitArrives ==
  ASSUME LotsInv, TypeOK', NEW cmd \in Submits, Submit(cmd)
  PROVE  Market!Arrive({})
<1>1. PICK o : o = NewOrder(cmd.client, cmd.side, cmd.type, cmd.tif,
                            cmd.quantity, cmd.price, cmd.postOnly)
  OBVIOUS
<1>2. AcceptableOrder(o)
  BY <1>1, SubmitAccepted DEF LotsInv, IInv, Submit
<1>3. incoming = NoOrder /\ incoming' = o /\ RestingOrders' = RestingOrders \ {}
  BY <1>1 DEF Submit, Accept, RestingOrders, Active
<1> QED BY <1>2, <1>3, AcceptArrives

LEMMA ReplaceArrives ==
  ASSUME LotsInv, TypeOK', NEW cmd \in ReplaceCommand, Replace(cmd)
  PROVE  \E o \in RestingOrders : Market!Arrive({o})
<1>1. PICK o : o = NewOrder(cmd.newClient, active_by_exchange[cmd.id].side,
                            "Limit", "GTC", cmd.quantity, cmd.price, FALSE)
  OBVIOUS
<1>2. AcceptableOrder(o) /\ cmd.id \in Active
  BY <1>1, ReplaceAccepted DEF LotsInv, IInv, Replace
<1>3. incoming = NoOrder /\ incoming' = o /\ RemoveActive(cmd.id)
  BY <1>1 DEF Replace, Accept
<1>4. Left(cmd.id)
  BY <1>2, <1>3, RemoveActiveLeaves DEF LotsInv
<1>5. RestingOrders' = RestingOrders \ {View(cmd.id)} /\ View(cmd.id) \in RestingOrders
  BY <1>2, <1>4, RestingChanges DEF Left, RestingOrders, View, Active
<1>6. Market!Arrive({View(cmd.id)})
  BY <1>2, <1>3, <1>5, AcceptArrives
<1> QED BY <1>5, <1>6

LEMMA CancelWithdraws ==
  ASSUME LotsInv, NEW c \in ClientIds, NEW x \in Ids, Cancel(c, x)
  PROVE  \E o \in RestingOrders : Market!Withdraw(o)
<1>1. x \in Active /\ RemoveActive(x) /\ incoming = NoOrder /\ incoming' = NoOrder
  BY DEF Cancel, locate_active, Active
<1>2. Left(x)
  BY <1>1, RemoveActiveLeaves DEF LotsInv
<1>3. RestingOrders' = RestingOrders \ {View(x)} /\ View(x) \in RestingOrders
  BY <1>1, <1>2, RestingChanges DEF Left, RestingOrders, View, Active
<1>4. Aggressor = NoOrder /\ Aggressor' = NoOrder
  BY <1>1 DEF Aggressor
<1> QED BY <1>3, <1>4 DEF Market!Withdraw


\* Every active order shows at a price that has a level.
LEMMA ActiveHasLevel ==
  ASSUME IInv, NEW y \in Active, NEW s, s = active_by_exchange[y].side,
         NEW p, p = active_by_exchange[y].price
  PROVE  /\ s \in Sides /\ p \in Prices /\ p \in levels[s]
         /\ \E i \in 1..Len(queue[s][p]) : queue[s][p][i] = y
<1>1. s \in Sides /\ p \in Prices
  BY ActiveIsOrder, OrderFields DEF IInv, ActiveSound
<1>2. PICK i \in 1..Len(queue[s][p]) : queue[s][p][i] = y
  BY DEF IInv, Located
<1>3. queue[s][p] # <<>>
  BY <1>2
<1> QED BY <1>1, <1>2, <1>3 DEF IInv, LevelsFifo

\* The front of the best level precedes every other order of its side.
LEMMA FrontPrecedes ==
  ASSUME LotsInv, NEW side \in Sides, NEW p \in Prices, IsBest(side, p),
         NEW x \in Active, 1 \in 1..Len(queue[side][p]), x = queue[side][p][1],
         active_by_exchange[x].side = side, active_by_exchange[x].price = p,
         NEW y \in Active, y # x, active_by_exchange[y].side = side
  PROVE  Market!Precedes(View(x), View(y))
<1>1. PICK r : r = active_by_exchange[y].price
  OBVIOUS
<1>2. /\ r \in Prices /\ r \in levels[side]
      /\ \E i \in 1..Len(queue[side][r]) : queue[side][r][i] = y
  BY <1>1, ActiveHasLevel DEF LotsInv
<1>3. p \in Nat /\ r \in Nat /\ (IF side = "Buy" THEN r <= p ELSE p <= r)
  BY <1>2, Constants DEF IsBest
<1>4. /\ View(x).id = x /\ View(x).side = side /\ View(x).price = p
      /\ View(y).id = y /\ View(y).price = r
  BY <1>1 DEF View
<1>5. CASE r = p
  <2>1. PICK i \in 1..Len(queue[side][p]) : queue[side][p][i] = y
    BY <1>2, <1>5
  <2>2. 1 < i
    BY <2>1
  <2>3. active_by_exchange[x].priority < active_by_exchange[y].priority
    <3>1. \A j, k \in 1..Len(queue[side][p]) : j < k =>
            active_by_exchange[queue[side][p][j]].priority
              < active_by_exchange[queue[side][p][k]].priority
      BY DEF LotsInv, IInv, LevelsFifo
    <3> QED BY <2>1, <2>2, <3>1
  <2>4. x \in Nat /\ y \in Nat /\ active_by_exchange[x].priority \in Nat
        /\ active_by_exchange[y].priority \in Nat
    BY ActiveIsOrder, OrderFields, IdsFinite DEF LotsInv, IInv
  <2>5. ~(y < x)
    <3>1. \A m, n \in Active : m < n =>
            active_by_exchange[m].priority < active_by_exchange[n].priority
      BY DEF LotsInv, ArrivalOrder
    <3>2. y < x => active_by_exchange[y].priority < active_by_exchange[x].priority
      BY <3>1
    <3> QED BY <2>3, <2>4, <3>2
  <2> QED BY <1>4, <1>5, <2>4, <2>5 DEF Market!Precedes
<1>6. CASE r # p
  BY <1>3, <1>4, <1>6 DEF Market!Precedes, Sides
<1> QED BY <1>5, <1>6

\* The market agrees with the engine about which levels a taker accepts.
LEMMA AgreeIsEligible ==
  ASSUME IInv, incoming \in OrderView, incoming # NoOrder, NEW y \in Active
  PROVE  Market!Agree(Aggressor, View(y)) <=>
           /\ active_by_exchange[y].side = Opposite(incoming.side)
           /\ active_by_exchange[y].price \in EligibleLevels(incoming.side, incoming.price)
<1>1. incoming.side \in Sides /\ active_by_exchange[y].side \in Sides
  BY OrderFields, ActiveIsOrder DEF IInv
<1>2. active_by_exchange[y].price \in levels[active_by_exchange[y].side]
  BY ActiveHasLevel
<1>3. /\ Aggressor.side = incoming.side /\ Aggressor.price = incoming.price
      /\ View(y).side = active_by_exchange[y].side
      /\ View(y).price = active_by_exchange[y].price
  BY DEF Aggressor, View
<1> QED BY <1>1, <1>2, <1>3
        DEF Market!Agree, EligibleLevels, Eligible, Opposite, Sides, NoPrice

LEMMA MatchTrades ==
  ASSUME LotsInv, MatchOne
  PROVE  Market!Trade
<1>0. IInv
  BY DEF LotsInv
<1>1. PICK side, p, x, q : Fill(side, p, x, q)
  BY <1>0, MatchIsFill
<1>2. /\ x \in Active /\ x \in Ids /\ side \in Sides /\ p \in Prices
      /\ active_by_exchange[x] \in OrderView /\ Open(active_by_exchange[x])
      /\ active_by_exchange[x].side = side /\ active_by_exchange[x].price = p
      /\ 1 \in 1..Len(queue[side][p]) /\ x = queue[side][p][1]
      /\ side = Opposite(incoming.side) /\ IsBest(side, p)
      /\ p \in EligibleLevels(incoming.side, incoming.price)
      /\ q = MatchQuantity(active_by_exchange[x])
  BY <1>1 DEF Fill, MakerAndTaker
<1>3. /\ q \in Nat \ {0} /\ q <= incoming.leaves
      /\ incoming # NoOrder /\ incoming \in OrderView
      /\ incoming'.leaves = incoming.leaves - q
      /\ incoming'.id = incoming.id /\ incoming'.side = incoming.side
      /\ incoming'.price = incoming.price /\ incoming'.tif = incoming.tif
      /\ incoming'.type = incoming.type
      /\ \A y \in Ids \ {x} : active_by_exchange'[y] = active_by_exchange[y]
  BY <1>0, <1>1, FillMoves DEF Moved
<1>4. /\ Aggressor # NoOrder
      /\ Aggressor = [id |-> incoming.id, side |-> incoming.side,
                      price |-> incoming.price, leaves |-> incoming.leaves,
                      mayRest |-> MayRest(incoming)]
  BY <1>3, AggressorIsOrder
<1>5. PICK o : o = View(x) /\ o \in RestingOrders
  BY <1>2 DEF View, RestingOrders
<1>6. Market!Agree(Aggressor, o)
  BY <1>0, <1>2, <1>3, <1>5, AgreeIsEligible
<1>7. \A r \in RestingOrders : r.side = o.side /\ r # o => Market!Precedes(o, r)
  <2> SUFFICES ASSUME NEW y \in Active, View(y).side = o.side, View(y) # o
               PROVE  Market!Precedes(o, View(y))
    BY DEF RestingOrders, View
  <2>1. y # x /\ active_by_exchange[y].side = side
    BY <1>2, <1>5 DEF View
  <2> QED BY <1>2, <1>5, <2>1, FrontPrecedes
<1>8. o.leaves = active_by_exchange[x].leaves /\ o.leaves \in Nat /\ incoming.leaves \in Nat
  <2>1. o.leaves = active_by_exchange[x].leaves
    BY ONLY <1>5 DEF View
  <2>2. active_by_exchange[x].leaves \in Nat /\ incoming.leaves \in Nat
    BY <1>2, <1>3, OrderFields, Constants
  <2> QED BY <2>1, <2>2
<1>9. q = IF Aggressor.leaves < o.leaves THEN Aggressor.leaves ELSE o.leaves
  BY <1>2, <1>4, <1>8 DEF MatchQuantity
<1>10. Aggressor' = [Aggressor EXCEPT !.leaves = Aggressor.leaves - q]
  <2>1. incoming' # NoOrder
    <3>1. incoming.cum + incoming.leaves = incoming.quantity
      BY <1>0, <1>3 DEF IInv, IncomingSound
    <3>2. q \in 0..incoming.leaves /\ incoming' = AfterFill(incoming, q)
      BY <1>1 DEF Fill, MakerAndTaker
    <3>3. incoming' \in OrderView
      BY <1>3, <3>1, <3>2, AfterFillFields
    <3> QED BY <3>3, OrderFields
  <2>2. MayRest(incoming)' = MayRest(incoming)
    BY <1>3 DEF MayRest
  <2> QED BY <1>3, <1>4, <2>1, <2>2 DEF Aggressor
<1>11. RestingOrders' = (RestingOrders \ {o}) \cup
         {r \in {[o EXCEPT !.leaves = o.leaves - q]} : r.leaves > 0}
  <2>1. RestingOrders' = (RestingOrders \ {o}) \cup {View(y)' : y \in Active' \cap {x}}
    BY <1>2, <1>3, <1>5, RestingChanges
  <2>2. PICK n : n = [o EXCEPT !.leaves = o.leaves - q]
    OBVIOUS
  <2>a. n.leaves = o.leaves - q
    BY ONLY <1>5, <2>2 DEF View
  <2>b. {r \in {[o EXCEPT !.leaves = o.leaves - q]} : r.leaves > 0} =
          IF o.leaves - q > 0 THEN {n} ELSE {}
    BY ONLY <2>2, <2>a
  <2>3. CASE x \notin Active'
    <3>1. q = active_by_exchange[x].leaves
      BY <1>0, <1>1, <1>2, <2>3, FillMoves
    <3>2. ~(o.leaves - q > 0)
      BY <1>8, <3>1
    <3> QED BY <2>1, <2>b, <2>3, <3>2
  <2>4. CASE x \in Active'
    <3>1. active_by_exchange'[x] = AfterFill(active_by_exchange[x], q)
      BY <1>0, <1>1, <2>4, FillMoves
    <3>r. q \in 0..active_by_exchange[x].leaves
      BY <1>1 DEF Fill, MakerAndTaker
    <3>2. q <= active_by_exchange[x].leaves
      BY <1>8, <3>r
    <3>3. q # active_by_exchange[x].leaves
      <4> SUFFICES ASSUME q = active_by_exchange[x].leaves PROVE FALSE
        OBVIOUS
      <4>1. active_by_exchange' = [active_by_exchange EXCEPT ![x] = NoOrder]
        BY <1>1 DEF Fill
      <4>2. active_by_exchange'[x] = NoOrder
        BY <1>0, <1>2, <4>1 DEF IInv, TypeOK
      <4> QED BY <2>4, <4>2 DEF Active
    <3>4. /\ AfterFill(active_by_exchange[x], q).side = active_by_exchange[x].side
          /\ AfterFill(active_by_exchange[x], q).price = active_by_exchange[x].price
          /\ AfterFill(active_by_exchange[x], q).leaves = active_by_exchange[x].leaves - q
      BY <1>2, <3>r, AfterFillFields DEF Open
    <3>5. View(x)' = n
      BY ONLY <1>5, <1>8, <2>2, <3>1, <3>4 DEF View
    <3>6. o.leaves - q > 0
      BY <1>3, <1>8, <3>2, <3>3
    <3> QED BY <2>1, <2>b, <2>4, <3>5, <3>6
  <2> QED BY <2>3, <2>4
<1>12. q > 0
  BY <1>3
<1> QED BY ONLY <1>4, <1>5, <1>6, <1>7, <1>9, <1>10, <1>11, <1>12 DEF Market!Trade


\* A taker that the loop has left agrees with nobody in the market.
LEMMA DoneAgreesWithNobody ==
  ASSUME IInv, incoming # NoOrder, incoming.leaves > 0, ~CanMatch
  PROVE  \A o \in RestingOrders : ~Market!Agree(Aggressor, o)
<1>1. incoming \in OrderView
  BY DEF IInv, TypeOK
<1>2. EligibleLevels(incoming.side, incoming.price) = {}
  BY DEF CanMatch, would_cross
<1> SUFFICES ASSUME NEW y \in Active PROVE ~Market!Agree(Aggressor, View(y))
  BY DEF RestingOrders, View
<1> QED BY <1>1, <1>2, AgreeIsEligible

\* What the market keeps of a taker that settles.
Kept ==
  {[id |-> a.id, side |-> a.side, price |-> a.price, leaves |-> a.leaves] :
     a \in {b \in {Aggressor} : b.mayRest /\ b.leaves > 0}}

LEMMA SettleParts ==
  ASSUME IInv, incoming # NoOrder,
         incoming.leaves > 0 => ~CanMatch,
         incoming' = NoOrder, RestingOrders' = RestingOrders \cup Kept
  PROVE  Market!Settle
<1>1. incoming \in OrderView
  BY DEF IInv, TypeOK
<1>2. Aggressor # NoOrder /\ Aggressor.leaves = incoming.leaves
  BY <1>1, AggressorIsOrder
<1>3. Aggressor' = NoOrder
  BY DEF Aggressor
<1>4. Aggressor.leaves > 0 => \A o \in RestingOrders : ~Market!Agree(Aggressor, o)
  BY <1>2, DoneAgreesWithNobody
<1> QED BY <1>2, <1>3, <1>4 DEF Market!Settle, Kept

LEMMA FinishSettles ==
  ASSUME LotsInv, FinishFilled \/ FinishRest \/ FinishCancelled
  PROVE  Market!Settle
<1>0. IInv
  BY DEF LotsInv
<1>1. incoming # NoOrder /\ incoming \in OrderView /\ incoming' = NoOrder
  BY DEF FinishFilled, FinishRest, FinishCancelled, Return, LotsInv, IInv, TypeOK
<1>2. Aggressor = [id |-> incoming.id, side |-> incoming.side,
                   price |-> incoming.price, leaves |-> incoming.leaves,
                   mayRest |-> MayRest(incoming)]
  BY <1>1, AggressorIsOrder
<1>3. incoming.leaves \in Nat
  BY <1>1, OrderFields, Constants
<1>4. ASSUME FinishFilled \/ FinishCancelled PROVE RestingOrders' = RestingOrders \cup Kept
  <2>1. RestingOrders' = RestingOrders
    BY <1>4 DEF FinishFilled, FinishCancelled, RestingOrders, Active
  <2>2. ~(MayRest(incoming) /\ incoming.leaves > 0)
    BY <1>4, <1>3 DEF FinishFilled, FinishCancelled
  <2>3. Kept = {}
    BY <1>2, <2>2 DEF Kept
  <2> QED BY <2>1, <2>3
<1>5. ASSUME FinishRest PROVE RestingOrders' = RestingOrders \cup Kept
  <2>1. PICK x, t : x = incoming.id /\ t = RestingRecord
    OBVIOUS
  <2>2. /\ x \in Ids /\ x \notin Active /\ Active' = Active \cup {x}
        /\ active_by_exchange'[x] = t
        /\ \A y \in Ids \ {x} : active_by_exchange'[y] = active_by_exchange[y]
    BY <1>0, <1>5, <2>1, RestMoves DEF Moved
  <2>3. /\ t.side = incoming.side /\ t.price = incoming.price
        /\ t.leaves = incoming.leaves /\ MayRest(incoming) /\ incoming.leaves > 0
    BY <1>0, <1>1, <1>5, <2>1, RestingFields DEF FinishRest
  <2>4. RestingOrders' = (RestingOrders \ {View(x)}) \cup {View(x)'}
    <3>1. Active' \cap {x} = {x}
      BY <2>2
    <3>2. {View(y)' : y \in {x}} = {View(x)'}
      BY DEF View
    <3> QED BY <2>2, <3>1, <3>2, RestingChanges
  <2>5. View(x) \notin RestingOrders
    BY <2>2 DEF RestingOrders, View
  <2>6. View(x)' = [id |-> incoming.id, side |-> incoming.side,
                    price |-> incoming.price, leaves |-> incoming.leaves]
    BY <2>1, <2>2, <2>3 DEF View
  <2>7. Kept = {View(x)'}
    <3>1. /\ Aggressor.id = incoming.id /\ Aggressor.side = incoming.side
          /\ Aggressor.price = incoming.price /\ Aggressor.leaves = incoming.leaves
          /\ Aggressor.mayRest = MayRest(incoming)
      BY <1>2
    <3>2. {b \in {Aggressor} : b.mayRest /\ b.leaves > 0} = {Aggressor}
      BY <2>3, <3>1
    <3> QED BY <2>6, <3>1, <3>2 DEF Kept
  <2> QED BY <2>4, <2>5, <2>7
<1>6. RestingOrders' = RestingOrders \cup Kept
  BY <1>4, <1>5
<1>7. incoming.leaves > 0 => ~CanMatch
  BY <1>3 DEF FinishFilled, FinishRest, FinishCancelled
<1> QED BY <1>0, <1>1, <1>6, <1>7, SettleParts

\* Every step of the engine is a step of the market or invisible to it.
LEMMA StepIsMarketStep ==
  ASSUME LotsInv, TypeOK', [Next]_vars
  PROVE  Market!MarketNext \/ UNCHANGED <<RestingOrders, Aggressor>>
<1>1. CASE \E cmd \in Submits : Submit(cmd)
  BY <1>1, SubmitArrives DEF Market!MarketNext
<1>2. CASE \E c \in ClientIds, x \in Ids : Cancel(c, x)
  BY <1>2, CancelWithdraws DEF Market!MarketNext
<1>3. CASE \E cmd \in ReplaceCommand : Replace(cmd)
  BY <1>3, ReplaceArrives DEF Market!MarketNext
<1>4. CASE MatchOne
  BY <1>4, MatchTrades DEF Market!MarketNext
<1>5. CASE FinishFilled \/ FinishRest \/ FinishCancelled
  BY <1>5, FinishSettles DEF Market!MarketNext
<1>6. CASE UNCHANGED vars
  BY <1>6 DEF vars, RestingOrders, Aggressor, Active, MayRest
<1> QED BY <1>1, <1>2, <1>3, <1>4, <1>5, <1>6 DEF Next

\* The engine's maps, lists, indices and counters implement the market: the
\* best price trades first, at one price the order that came first, and an
\* order that leaves lots behind agrees with nobody who stays.
THEOREM EngineImplementsMarket == Spec => ImplementsMarket
<1>1. Init => Market!MarketInit
  <2> SUFFICES ASSUME Init PROVE RestingOrders = {} /\ Aggressor = NoOrder
    BY DEF Market!MarketInit
  <2>1. Active = {} /\ incoming = NoOrder
    BY DEF Init, Active
  <2> QED BY <2>1 DEF RestingOrders, Aggressor
<1>2. LotsInv /\ LotsInv' /\ [Next]_vars => [Market!MarketNext]_(Market!marketVars)
  <2> SUFFICES ASSUME LotsInv, LotsInv', [Next]_vars
               PROVE  Market!MarketNext \/ UNCHANGED Market!marketVars
    OBVIOUS
  <2>1. TypeOK'
    BY DEF LotsInv, IInv
  <2> QED BY <2>1, StepIsMarketStep DEF Market!marketVars
<1> QED BY <1>1, <1>2, LotsInvariance, PTL DEF Spec, ImplementsMarket, Market!Spec

=============================================================================
