--------------------------- MODULE CaptureRun_proofs ---------------------------
(***************************************************************************)
(* Proofs about the market-data collector, for every exchange, feed, set   *)
(* of symbols and limit: its books are the exchange's, every symbol has    *)
(* what it waits for, its intervals run forward, and its manifest lists    *)
(* every snapshot file.                                                    *)
(***************************************************************************)
EXTENDS CaptureRun, SumTheorems

-----------------------------------------------------------------------------
(* One synchronizer.                                                       *)

\* What every operation of a synchronizer preserves.
Good(s) ==
  /\ s \in Synchronizer
  /\ \A i \in s.intervals : i[1] <= i[2]
  /\ s.state = "SYNCHRONIZED" =>
       /\ s.local \in 0 .. LastId
       /\ s.book = Truth[s.local]
       /\ s.start \in {NoId} \cup (0 .. s.local)

\* An event that overlaps the book's identifier leaves the exchange's book:
\* a level that the event does not bring is one that no update has changed.
LEMMA ReplacedExact ==
  ASSUME NEW local \in 0 .. LastId, NEW u \in Update,
         u.first <= local + 1, local <= u.final
  PROVE  Replaced(Truth[local], u) = Truth[u.final]
<1>1. Truth \in [0 .. LastId -> Book] /\ LastId \in Nat
  BY SynchronizerAssumption
<1>2. u.first \in 1 .. LastId /\ u.final \in 1 .. LastId
  BY DEF Update
<1>3. Truth[u.final] \in [Level -> Nat]
  BY <1>1, <1>2 DEF Book
<1>4. ASSUME NEW l \in Level
      PROVE  (IF l \in DOMAIN Changes(u) THEN Changes(u)[l] ELSE Truth[local][l]) = Truth[u.final][l]
  <2>1. CASE l \in DOMAIN Changes(u)
    BY <2>1 DEF Changes
  <2>2. CASE l \notin DOMAIN Changes(u)
    <3>1. \A k \in (u.first - 1) .. u.final : Truth[k][l] = Truth[u.final][l]
      BY <2>2 DEF Changes
    <3>2. local \in (u.first - 1) .. u.final
      BY <1>1, <1>2
    <3> QED BY <2>2, <3>1, <3>2
  <2> QED BY <2>1, <2>2
<1> QED BY <1>3, <1>4 DEF Replaced

\* The interval that a synchronizer closes runs forward.
LEMMA CloseIntervalForward ==
  ASSUME NEW s, Good(s)
  PROVE  /\ CloseInterval(s) \in SUBSET ((0 .. LastId) \X (0 .. LastId))
         /\ \A i \in CloseInterval(s) : i[1] <= i[2]
<1>1. s.intervals \in SUBSET ((0 .. LastId) \X (0 .. LastId)) /\ LastId \in Nat
  BY SynchronizerAssumption DEF Good, Synchronizer
<1>2. CASE s.state = "SYNCHRONIZED" /\ s.start # NoId
  <2>1. s.start \in 0 .. s.local /\ s.local \in 0 .. LastId
    BY <1>2 DEF Good
  <2>2. <<s.start, s.local>> \in (0 .. LastId) \X (0 .. LastId) /\ s.start <= s.local
    BY <2>1, <1>1
  <2> QED BY <1>1, <1>2, <2>2 DEF CloseInterval, Good
<1>3. CASE ~(s.state = "SYNCHRONIZED" /\ s.start # NoId)
  BY <1>1, <1>3 DEF CloseInterval, Good
<1> QED BY <1>2, <1>3

LEMMA NewGood == Good(NewSynchronizer)
BY SynchronizerAssumption DEF Good, NewSynchronizer, Synchronizer, EmptyBook, Book

LEMMA ResynchronizationGood ==
  ASSUME NEW s, Good(s)
  PROVE  Good(begin_resynchronization(s)) /\ begin_resynchronization(s).state = "BUFFERING"
<1> DEFINE closed == CloseInterval(s)
<1>1. closed \in SUBSET ((0 .. LastId) \X (0 .. LastId)) /\ \A i \in closed : i[1] <= i[2]
  BY CloseIntervalForward
<1>2. s \in Synchronizer
  BY DEF Good
<1>3. begin_resynchronization(s) =
        [s EXCEPT !.intervals = closed, !.state = "BUFFERING", !.local = NoId,
                  !.start = NoId, !.buffer = << >>]
  BY DEF begin_resynchronization
<1> HIDE DEF closed
<1>4. << >> \in Seq(Update)
  OBVIOUS
<1>5. begin_resynchronization(s) \in Synchronizer
  BY <1>1, <1>2, <1>3, <1>4 DEF Synchronizer
<1>6. /\ begin_resynchronization(s).intervals = closed
      /\ begin_resynchronization(s).state = "BUFFERING"
  BY <1>2, <1>3 DEF Synchronizer
<1> QED BY <1>1, <1>5, <1>6 DEF Good

LEMMA InvalidateGood ==
  ASSUME NEW s, Good(s), NEW buffer \in Seq(Update)
  PROVE  /\ Good(invalidate(s)) /\ invalidate(s).state = "INVALID"
         /\ Good([invalidate(s) EXCEPT !.buffer = buffer])
         /\ [invalidate(s) EXCEPT !.buffer = buffer].state = "INVALID"
<1> DEFINE closed == CloseInterval(s)
<1>1. closed \in SUBSET ((0 .. LastId) \X (0 .. LastId)) /\ \A i \in closed : i[1] <= i[2]
  BY CloseIntervalForward
<1>2. s \in Synchronizer
  BY DEF Good
<1>3. invalidate(s) = [s EXCEPT !.intervals = closed, !.state = "INVALID", !.local = NoId,
                                !.start = NoId, !.buffer = << >>]
  BY DEF invalidate
<1> HIDE DEF closed
<1>4. << >> \in Seq(Update)
  OBVIOUS
<1>5. invalidate(s) \in Synchronizer /\ [invalidate(s) EXCEPT !.buffer = buffer] \in Synchronizer
  BY <1>1, <1>2, <1>3, <1>4 DEF Synchronizer
<1>6. invalidate(s).intervals = closed /\ invalidate(s).state = "INVALID"
  BY <1>2, <1>3 DEF Synchronizer
<1>7. /\ [invalidate(s) EXCEPT !.buffer = buffer].intervals = closed
      /\ [invalidate(s) EXCEPT !.buffer = buffer].state = "INVALID"
  BY <1>5, <1>6 DEF Synchronizer
<1> QED BY <1>1, <1>5, <1>6, <1>7 DEF Good

LEMMA FinalizeGood ==
  ASSUME NEW s, Good(s)
  PROVE  Good(finalize(s)) /\ finalize(s).state = s.state
BY CloseIntervalForward DEF Good, finalize, Synchronizer

\* An update that is applied to a synchronized book keeps it exact; a gap or
\* a refusal takes the book out of use, every other outcome leaves it alone.
LEMMA ApplyGood ==
  ASSUME NEW s, Good(s), s.state = "SYNCHRONIZED", NEW u \in Update
  PROVE  /\ Good(apply_update(s, u))
         /\ IF Outcome(s, u) \in {"gap", "refused"}
              THEN apply_update(s, u).state = "INVALID"
              ELSE apply_update(s, u).state = "SYNCHRONIZED"
<1>1. CASE Outcome(s, u) = "gap"
  <2>1. <<u>> \in Seq(Update)
    OBVIOUS
  <2>2. apply_update(s, u) = [invalidate(s) EXCEPT !.buffer = <<u>>]
    BY <1>1 DEF apply_update
  <2> QED BY <1>1, <2>1, <2>2, InvalidateGood
<1>2. CASE Outcome(s, u) = "refused"
  <2>1. apply_update(s, u) = invalidate(s)
    BY <1>2 DEF apply_update
  <2>2. << >> \in Seq(Update)
    OBVIOUS
  <2> QED BY <1>2, <2>1, <2>2, InvalidateGood
<1>3. CASE Outcome(s, u) = "applied"
  <2>1. apply_update(s, u) = [s EXCEPT !.book = Replaced(s.book, u), !.local = u.final]
    BY <1>3 DEF apply_update
  <2>2. s.local \in 0 .. LastId /\ s.book = Truth[s.local] /\ LastId \in Nat
    BY SynchronizerAssumption DEF Good
  <2>3. u.final \in 1 .. LastId /\ u.first \in 1 .. LastId
    BY DEF Update
  <2>4. u.first <= s.local + 1 /\ s.local <= u.final
    <3>1. ~(u.final < s.local)
      BY <1>3 DEF Outcome
    <3>2. u.final # s.local
      BY <1>3, <3>1 DEF Outcome
    <3>3. ~(u.first > s.local + 1)
      BY <1>3, <3>1, <3>2 DEF Outcome
    <3> QED BY <2>2, <2>3, <3>1, <3>3
  <2>5. Replaced(s.book, u) = Truth[u.final]
    BY <2>2, <2>4, ReplacedExact
  <2>6. Truth[u.final] \in Book
    BY <2>2, <2>3, SynchronizerAssumption
  <2>7. s.start \in {NoId} \cup (0 .. u.final)
    BY <2>2, <2>3, <2>4 DEF Good
  <2>8. [s EXCEPT !.book = Truth[u.final], !.local = u.final] \in Synchronizer
    <3>1. s \in Synchronizer /\ u.final \in {NoId} \cup (0 .. LastId)
      BY <2>2, <2>3 DEF Good
    <3> QED BY <2>6, <3>1 DEF Synchronizer
  <2> QED BY <1>3, <2>1, <2>2, <2>3, <2>5, <2>7, <2>8 DEF Good, Synchronizer
<1>4. CASE Outcome(s, u) \notin {"gap", "refused", "applied"}
  BY <1>4 DEF apply_update
<1> QED BY <1>1, <1>2, <1>3, <1>4

LEMMA IngestGood ==
  ASSUME NEW s, Good(s), NEW u \in Update
  PROVE  /\ Good(ingest(s, u))
         /\ s.state # "SYNCHRONIZED" => ingest(s, u).state = s.state
         /\ s.state = "SYNCHRONIZED" => ingest(s, u) = apply_update(s, u)
<1>1. CASE s.state = "SYNCHRONIZED"
  BY <1>1, ApplyGood DEF ingest
<1>2. CASE s.state # "SYNCHRONIZED"
  <2>1. Append(s.buffer, u) \in Seq(Update)
    BY DEF Good, Synchronizer
  <2> QED BY <1>2, <2>1 DEF ingest, Good, Synchronizer
<1> QED BY <1>1, <1>2

LEMMA InstallGood ==
  ASSUME NEW s, Good(s), NEW last \in 0 .. LastId
  PROVE  Good(install_snapshot(s, last)) /\ install_snapshot(s, last).state = "SYNCHRONIZED"
<1>1. Truth[last] \in Book /\ << >> \in Seq(Update)
  BY SynchronizerAssumption
<1> QED BY <1>1, SynchronizerAssumption DEF Good, install_snapshot, Synchronizer

LEMMA RemainingUpdates ==
  ASSUME NEW s, Good(s), NEW last \in 0 .. LastId
  PROVE  Remaining(s, last) \in Seq(Update)
<1>1. s.buffer \in Seq(Update)
  BY DEF Good, Synchronizer
<1>2. CASE FirstNewer(s, last) = {}
  BY <1>2 DEF Remaining
<1>3. CASE FirstNewer(s, last) # {}
  <2>1. PICK k \in DOMAIN s.buffer : Remaining(s, last) = SubSeq(s.buffer, k, Len(s.buffer))
    BY <1>3 DEF Remaining, FirstNewer
  <2> QED BY <1>1, <2>1
<1> QED BY <1>2, <1>3

LEMMA RejectGood ==
  ASSUME NEW s, Good(s), NEW last \in 0 .. LastId
  PROVE  Good(reject_snapshot(s, last))
<1>1. Truth[last] \in Book /\ Remaining(s, last) \in Seq(Update)
  BY SynchronizerAssumption, RemainingUpdates
<1> QED BY <1>1, SynchronizerAssumption DEF Good, reject_snapshot, Synchronizer

-----------------------------------------------------------------------------
(* The run.                                                                *)

Listening == {"loop", "receive", "drain"}
TaskValues == {NoTask, PendingTask, NoId} \cup (0 .. LastId)

\* While the buffered events are applied, the book is a synchronized one.
IInv ==
  /\ TypeOK
  /\ \A s \in Symbols : Good(sync[s])
  /\ pc \in Listening => \A s \in Symbols : (sync[s].state = "SYNCHRONIZED") <=> (tasks[s] = NoTask)
  /\ pc = "drain" => installing \in Symbols /\ tasks[installing] = NoTask

LEMMA Values ==
  /\ NoTask # PendingTask /\ NoTask # NoId /\ NoTask \notin Symbols
  /\ \A i \in 0 .. LastId : i # NoTask
  /\ LastId \in Nat /\ SnapshotIds \subseteq 0 .. LastId /\ Feed \subseteq Update
BY CaptureAssumption, SynchronizerAssumption DEF load_capture_config

\* A step after which nobody listens keeps the invariant if it keeps the
\* types and the books.
LEMMA NotListening ==
  ASSUME TypeOK', \A s \in Symbols : Good(sync'[s]), pc' \notin Listening
  PROVE  IInv'
BY DEF IInv, Listening

\* The exception handler of a connection.
LEMMA TransportErrorSafe ==
  ASSUME IInv, TransportError,
         clock' \in Nat, connections' \in Nat, opened' \in Nat,
         sync' \in [Symbols -> Synchronizer], \A s \in Symbols : Good(sync'[s])
  PROVE  IInv'
<1>1. reconnects' \in Nat
  BY DEF IInv, TypeOK, TransportError
<1>2. pc' \in {"finish", "backoff"}
  BY DEF TransportError
<1>3. tasks' \in [Symbols -> TaskValues]
  BY DEF TransportError, TaskValues
<1>4. installing' = NoTask /\ draining' \in Seq(Update)
  BY DEF TransportError
<1>5. TypeOK'
  BY <1>1, <1>2, <1>3, <1>4 DEF TypeOK, TaskValues, Ended, Awaiting
<1> QED BY <1>2, <1>5, NotListening DEF Listening

LEMMA InitSafe == Init => IInv
<1> SUFFICES ASSUME Init PROVE IInv
  OBVIOUS
<1>1. Good(NewSynchronizer) /\ NewSynchronizer \in Synchronizer
  BY NewGood DEF Good
<1>2. sync \in [Symbols -> Synchronizer] /\ \A s \in Symbols : Good(sync[s])
  BY <1>1 DEF Init
<1>3. draining \in Seq(Update) /\ installing = NoTask
  BY DEF Init
<1>4. TypeOK
  BY <1>2, <1>3 DEF Init, TypeOK
<1> QED BY <1>2, <1>4 DEF Init, IInv, Listening

\* Steps of the connection and of the clock, which leave the books alone.
LEMMA QuietSafe ==
  ASSUME IInv, Begin \/ Connect \/ LoopEnds \/ Retry \/ WriteManifest \/ WriteDigest
  PROVE  IInv'
<1>1. UNCHANGED depth
  BY DEF Begin, Connect, LoopEnds, Retry, WriteManifest, WriteDigest
<1>2. pc' \in {"connect", "finish", "opening", "digest", "done", "raised"}
  BY DEF Begin, Connect, LoopEnds, Retry, WriteManifest, WriteDigest
<1>3. clock' \in Nat /\ connections' \in Nat /\ opened' \in Nat /\ reconnects' \in Nat
  BY DEF IInv, TypeOK, Begin, Connect, LoopEnds, Retry, WriteManifest, WriteDigest, link
<1>4. TypeOK'
  BY <1>1, <1>2, <1>3 DEF IInv, TypeOK, depth, Ended, Awaiting
<1>5. \A s \in Symbols : Good(sync'[s])
  BY <1>1 DEF IInv, depth
<1> QED BY <1>2, <1>4, <1>5, NotListening DEF Listening

LEMMA TickSafe ==
  ASSUME IInv, Tick \/ Wait \/ Timeout
  PROVE  IInv'
<1>1. UNCHANGED <<depth, link>>
  BY DEF Tick, Wait, Timeout
<1>2. clock' \in Nat
  BY DEF IInv, TypeOK, Tick, Wait, Timeout
<1>3. pc' = pc \/ (pc \in {"loop", "receive"} /\ pc' \in {"loop", "receive"})
  BY DEF Tick, Wait, Timeout
<1>4. TypeOK'
  <2>1. UNCHANGED <<connections, opened, reconnects, sync, tasks, installing, draining>>
    BY <1>1 DEF depth, link
  <2>2. pc' \in Ended \cup Awaiting \cup {"start", "connect", "loop", "drain", "finish",
                                          "manifest", "digest"}
    BY <1>3 DEF IInv, TypeOK, Awaiting
  <2> QED BY <1>2, <2>1, <2>2 DEF IInv, TypeOK
<1> QED BY <1>1, <1>3, <1>4 DEF IInv, depth, Listening

LEMMA SocketOpensSafe ==
  ASSUME IInv, SocketOpens
  PROVE  IInv'
<1>1. ASSUME NEW s \in Symbols
      PROVE  Good(sync'[s]) /\ sync'[s].state = "BUFFERING"
  <2>1. Good(sync[s]) /\ sync'[s] = begin_resynchronization(sync[s])
    BY DEF IInv, SocketOpens
  <2> QED BY <2>1, ResynchronizationGood
<1>2. sync' \in [Symbols -> Synchronizer]
  <2>1. sync' = [s \in Symbols |-> begin_resynchronization(sync[s])]
    BY DEF SocketOpens
  <2>2. \A s \in Symbols : begin_resynchronization(sync[s]) \in Synchronizer
    BY <1>1, <2>1 DEF Good
  <2> QED BY <2>1, <2>2
<1>3. /\ tasks' = [s \in Symbols |-> PendingTask] /\ opened' = clock /\ pc' = "loop"
      /\ UNCHANGED <<clock, connections, reconnects, installing, draining>>
  BY DEF SocketOpens
<1>4. TypeOK'
  BY <1>2, <1>3 DEF IInv, TypeOK
<1>5. \A s \in Symbols : tasks'[s] # NoTask
  BY <1>3, Values
<1> QED BY <1>1, <1>3, <1>4, <1>5 DEF IInv

LEMMA TasksSafe ==
  ASSUME IInv, NEW s \in Symbols, SnapshotArrives(s) \/ SnapshotFails(s)
  PROVE  IInv'
<1>1. tasks[s] = PendingTask /\ pc \in Awaiting
  BY DEF SnapshotArrives, SnapshotFails
<1>2. PICK v \in {NoId} \cup (0 .. LastId) : tasks' = [tasks EXCEPT ![s] = v]
  BY Values DEF SnapshotArrives, SnapshotFails
<1>3. UNCHANGED <<clock, pc, link, sync, installing, draining>>
  BY DEF SnapshotArrives, SnapshotFails
<1>4. v # NoTask
  BY Values
<1>5. TypeOK'
  BY <1>2, <1>3 DEF IInv, TypeOK, link
<1>6. \A t \in Symbols : tasks'[t] = NoTask <=> tasks[t] = NoTask
  BY <1>1, <1>2, <1>4, Values DEF IInv, TypeOK
<1>7. pc # "drain"
  BY <1>1 DEF Awaiting
<1> QED BY <1>3, <1>5, <1>6, <1>7 DEF IInv

LEMMA OrphanSafe ==
  ASSUME IInv, OrphanArrives
  PROVE  IInv'
<1>1. UNCHANGED <<clock, pc, link, sync, tasks, installing, draining>>
  BY DEF OrphanArrives
<1> QED BY <1>1 DEF IInv, TypeOK, link

LEMMA ConnectionFailsSafe ==
  ASSUME IInv, TransportError, UNCHANGED <<clock, connections, opened, sync>>
  PROVE  IInv'
<1>1. /\ clock' \in Nat /\ connections' \in Nat /\ opened' \in Nat
      /\ sync' \in [Symbols -> Synchronizer] /\ \A s \in Symbols : Good(sync'[s])
  BY DEF IInv, TypeOK
<1> QED BY <1>1, TransportErrorSafe

LEMMA FailuresSafe ==
  ASSUME IInv,
         \/ SocketFails \/ Undecodable \/ AppendFails \/ DaySealFails \/ BrokenWriter
         \/ \E s \in Symbols : TaskRaises(s)
  PROVE  IInv'
<1>1. TransportError /\ UNCHANGED <<clock, connections, opened, sync>>
  BY DEF SocketFails, Undecodable, AppendFails, DaySealFails, BrokenWriter, TaskRaises
<1> QED BY <1>1, ConnectionFailsSafe

LEMMA LoopStopsSafe ==
  ASSUME IInv, LoopStops
  PROVE  IInv'
<1>1. /\ tasks' = [s \in Symbols |-> NoTask] /\ pc' = "connect"
      /\ UNCHANGED <<clock, link, sync, installing, draining>>
  BY DEF LoopStops, ConnectionEnds
<1>2. TypeOK'
  BY <1>1 DEF IInv, TypeOK, link
<1> QED BY <1>1, <1>2, NotListening DEF IInv, Listening

LEMMA InstallSafe ==
  ASSUME IInv, NEW s \in Symbols, InstallSnapshot(s)
  PROVE  IInv'
<1> DEFINE last == tasks[s]
<1>1. last \in 0 .. LastId /\ Good(sync[s]) /\ pc = "loop"
  BY DEF IInv, InstallSnapshot
<1>2. sync \in [Symbols -> Synchronizer] /\ tasks \in [Symbols -> TaskValues]
  BY DEF IInv, TypeOK, TaskValues
<1>3. CASE Overlaps(sync[s], last)
  <2>1. /\ sync' = [sync EXCEPT ![s] = install_snapshot(sync[s], last)]
        /\ installing' = s /\ draining' = Remaining(sync[s], last)
        /\ tasks' = [tasks EXCEPT ![s] = NoTask] /\ pc' = "drain"
        /\ UNCHANGED <<clock, connections, opened, reconnects>>
    BY <1>3 DEF InstallSnapshot
  <2>2. Good(install_snapshot(sync[s], last)) /\ install_snapshot(sync[s], last).state = "SYNCHRONIZED"
    BY <1>1, InstallGood
  <2>3. draining' \in Seq(Update)
    BY <1>1, <2>1, RemainingUpdates
  <2>4. sync' \in [Symbols -> Synchronizer]
    BY <1>2, <2>1, <2>2 DEF Good
  <2>5. tasks' \in [Symbols -> TaskValues]
    BY <1>2, <2>1 DEF TaskValues
  <2>6. TypeOK'
    BY <2>1, <2>3, <2>4, <2>5 DEF IInv, TypeOK, TaskValues
  <2>7. ASSUME NEW t \in Symbols
        PROVE  Good(sync'[t]) /\ ((sync'[t].state = "SYNCHRONIZED") <=> (tasks'[t] = NoTask))
    <3>1. CASE t = s
      BY <1>2, <2>1, <2>2, <3>1
    <3>2. CASE t # s
      BY <1>1, <1>2, <2>1, <3>2 DEF IInv, Listening
    <3> QED BY <3>1, <3>2
  <2>8. installing' \in Symbols /\ tasks'[installing'] = NoTask
    BY <1>2, <2>1
  <2> QED BY <2>6, <2>7, <2>8 DEF IInv
<1>4. CASE ~Overlaps(sync[s], last)
  <2>1. sync' = [sync EXCEPT ![s] = reject_snapshot(sync[s], last)] /\ TransportError
    BY <1>4 DEF InstallSnapshot
  <2>2. Good(reject_snapshot(sync[s], last))
    BY <1>1, RejectGood
  <2>3. sync' \in [Symbols -> Synchronizer] /\ \A t \in Symbols : Good(sync'[t])
    BY <1>2, <2>1, <2>2 DEF Good, IInv
  <2>4. clock' \in Nat /\ connections' \in Nat /\ opened' \in Nat
    BY DEF IInv, TypeOK, InstallSnapshot
  <2> QED BY <2>1, <2>3, <2>4, TransportErrorSafe
<1> QED BY <1>3, <1>4

LEMMA DrainSafe ==
  ASSUME IInv, Drain
  PROVE  IInv'
<1>1. pc = "drain" /\ installing \in Symbols /\ tasks[installing] = NoTask
  BY DEF IInv, Drain
<1>2. Good(sync[installing]) /\ sync[installing].state = "SYNCHRONIZED"
  BY <1>1 DEF IInv, Listening
<1>3. sync \in [Symbols -> Synchronizer] /\ draining \in Seq(Update)
  BY DEF IInv, TypeOK
<1>4. UNCHANGED <<clock, connections, opened>>
  BY DEF Drain
<1>5. CASE draining = << >>
  <2>1. pc' = "loop" /\ installing' = NoTask /\ UNCHANGED <<sync, tasks, draining, reconnects>>
    BY <1>5 DEF Drain
  <2>2. TypeOK'
    BY <1>4, <2>1 DEF IInv, TypeOK
  <2> QED BY <1>1, <2>1, <2>2 DEF IInv, Listening
<1>6. CASE draining # << >>
  <2> DEFINE u == Head(draining)
  <2>1. u \in Update /\ Tail(draining) \in Seq(Update)
    BY <1>3, <1>6
  <2>2. sync' = [sync EXCEPT ![installing] = apply_update(sync[installing], u)]
    BY <1>6 DEF Drain
  <2>3. Good(apply_update(sync[installing], u))
    BY <1>2, <2>1, ApplyGood
  <2>4. sync' \in [Symbols -> Synchronizer] /\ \A t \in Symbols : Good(sync'[t])
    BY <1>1, <1>3, <2>2, <2>3 DEF Good, IInv
  <2>5. CASE Outcome(sync[installing], u) \in {"gap", "refused"}
    <3>1. TransportError
      BY <1>6, <2>5 DEF Drain
    <3>2. clock' \in Nat /\ connections' \in Nat /\ opened' \in Nat
      BY <1>4 DEF IInv, TypeOK
    <3> QED BY <2>4, <3>1, <3>2, TransportErrorSafe
  <2>6. CASE Outcome(sync[installing], u) \notin {"gap", "refused"}
    <3>1. draining' = Tail(draining) /\ UNCHANGED <<pc, tasks, installing, reconnects>>
      BY <1>6, <2>6 DEF Drain
    <3>2. apply_update(sync[installing], u).state = "SYNCHRONIZED"
      BY <1>2, <2>1, <2>6, ApplyGood
    <3>3. TypeOK'
      BY <1>4, <2>1, <2>4, <3>1 DEF IInv, TypeOK
    <3>4. \A t \in Symbols : (sync'[t].state = "SYNCHRONIZED") <=> (tasks'[t] = NoTask)
      BY <1>1, <1>2, <1>3, <2>2, <3>1, <3>2 DEF IInv, Listening
    <3> QED BY <1>1, <2>4, <3>1, <3>3, <3>4 DEF IInv
  <2> QED BY <2>5, <2>6
<1> QED BY <1>5, <1>6

\* A message that is recorded: what the depth part has done to one symbol.
LEMMA MessageSafe ==
  ASSUME IInv, Recorded, pc' \in {"loop", "connect"},
         sync' \in [Symbols -> Synchronizer], \A t \in Symbols : Good(sync'[t]),
         tasks' \in [Symbols -> TaskValues],
         pc' = "loop" =>
           \A t \in Symbols : (sync'[t].state = "SYNCHRONIZED") <=> (tasks'[t] = NoTask)
  PROVE  IInv'
<1>1. UNCHANGED <<clock, link, installing, draining>>
  BY DEF Recorded
<1>2. TypeOK'
  BY <1>1 DEF IInv, TypeOK, TaskValues, link
<1> QED BY <1>1, <1>2 DEF IInv, Listening

\* A symbol whose book is given up gets a fresh task; the others keep theirs.
LEMMA GivenUpSafe ==
  ASSUME IInv, Recorded, pc' = "loop", NEW s \in Symbols, NEW after,
         Good(after), after.state # "SYNCHRONIZED",
         sync' = [sync EXCEPT ![s] = after], NewTask(s)
  PROVE  IInv'
<1>1. tasks' = [tasks EXCEPT ![s] = PendingTask]
  BY DEF NewTask
<1>2. sync \in [Symbols -> Synchronizer] /\ tasks \in [Symbols -> TaskValues] /\ pc = "receive"
  BY DEF IInv, TypeOK, TaskValues, Recorded
<1>3. sync' \in [Symbols -> Synchronizer] /\ tasks' \in [Symbols -> TaskValues]
  BY <1>1, <1>2 DEF Good, TaskValues
<1>4. ASSUME NEW t \in Symbols
      PROVE  Good(sync'[t]) /\ ((sync'[t].state = "SYNCHRONIZED") <=> (tasks'[t] = NoTask))
  <2>1. CASE t = s
    BY <1>1, <1>2, <2>1, Values
  <2>2. CASE t # s
    BY <1>1, <1>2, <2>2 DEF IInv, Listening
  <2> QED BY <2>1, <2>2
<1> QED BY <1>3, <1>4, MessageSafe

\* A symbol whose book and task stay as they were.
LEMMA KeptSafe ==
  ASSUME IInv, Recorded, pc' = "loop", NEW s \in Symbols, NEW after,
         Good(after), after.state = sync[s].state,
         sync' = [sync EXCEPT ![s] = after], UNCHANGED tasks
  PROVE  IInv'
<1>1. sync \in [Symbols -> Synchronizer] /\ tasks \in [Symbols -> TaskValues] /\ pc = "receive"
  BY DEF IInv, TypeOK, TaskValues, Recorded
<1>2. sync' \in [Symbols -> Synchronizer] /\ tasks' \in [Symbols -> TaskValues]
  BY <1>1 DEF Good
<1>3. ASSUME NEW t \in Symbols
      PROVE  Good(sync'[t]) /\ ((sync'[t].state = "SYNCHRONIZED") <=> (tasks'[t] = NoTask))
  <2>1. CASE t = s
    BY <1>1, <2>1 DEF IInv, Listening
  <2>2. CASE t # s
    BY <1>1, <2>2 DEF IInv, Listening
  <2> QED BY <2>1, <2>2
<1> QED BY <1>2, <1>3, MessageSafe

LEMMA DepthMessageSafe ==
  ASSUME IInv, NEW s \in Symbols, NEW u \in Feed, DepthMessage(s, u)
  PROVE  IInv'
<1>1. u \in Update /\ Good(sync[s]) /\ Recorded /\ pc' = "loop" /\ Depth(s, u)
  BY Values DEF IInv, DepthMessage
<1>2. Good(ingest(sync[s], u))
  BY <1>1, IngestGood
<1> DEFINE result == IF sync[s].state = "SYNCHRONIZED" THEN Outcome(sync[s], u) ELSE "buffered"
<1>3. CASE result = "gap" /\ sync' = [sync EXCEPT ![s] = ingest(sync[s], u)] /\ NewTask(s)
  <2>1. sync[s].state = "SYNCHRONIZED" /\ Outcome(sync[s], u) = "gap"
    BY <1>3
  <2>2. ingest(sync[s], u).state = "INVALID"
    BY <1>1, <2>1, IngestGood, ApplyGood
  <2> QED BY <1>1, <1>2, <1>3, <2>2, GivenUpSafe
<1>4. CASE result = "refused" /\ Resynchronize(s, ingest(sync[s], u))
  <2> DEFINE after == begin_resynchronization(ingest(sync[s], u))
  <2>1. Good(after) /\ after.state = "BUFFERING"
    BY <1>2, ResynchronizationGood
  <2>2. sync' = [sync EXCEPT ![s] = after] /\ NewTask(s)
    BY <1>4 DEF Resynchronize
  <2> HIDE DEF after
  <2> QED BY <1>1, <2>1, <2>2, GivenUpSafe
<1>5. CASE /\ result \notin {"gap", "refused"}
           /\ sync' = [sync EXCEPT ![s] = ingest(sync[s], u)] /\ UNCHANGED <<tasks, orphans>>
  <2>1. ingest(sync[s], u).state = sync[s].state
    <3>1. CASE sync[s].state = "SYNCHRONIZED"
      BY <1>1, <1>5, <3>1, IngestGood, ApplyGood
    <3>2. CASE sync[s].state # "SYNCHRONIZED"
      BY <1>1, <3>2, IngestGood
    <3> QED BY <3>1, <3>2
  <2> QED BY <1>1, <1>2, <1>5, <2>1, KeptSafe
<1> QED BY <1>1, <1>3, <1>4, <1>5 DEF Depth

LEMMA MalformedSafe ==
  ASSUME IInv, NEW s \in Symbols, MalformedDepth(s)
  PROVE  IInv'
<1> DEFINE after == begin_resynchronization(sync[s])
<1>1. Good(after) /\ after.state = "BUFFERING"
  BY ResynchronizationGood DEF IInv
<1>2. sync' = [sync EXCEPT ![s] = after] /\ NewTask(s) /\ Recorded /\ pc' = "loop"
  BY DEF MalformedDepth, Resynchronize
<1> HIDE DEF after
<1> QED BY <1>1, <1>2, GivenUpSafe

LEMMA OtherSafe ==
  ASSUME IInv, OtherMessage
  PROVE  IInv'
<1>1. Recorded /\ pc' = "loop" /\ UNCHANGED <<sync, tasks>> /\ pc = "receive"
  BY DEF OtherMessage, Recorded
<1>2. /\ sync' \in [Symbols -> Synchronizer] /\ \A t \in Symbols : Good(sync'[t])
      /\ tasks' \in [Symbols -> TaskValues]
      /\ \A t \in Symbols : (sync'[t].state = "SYNCHRONIZED") <=> (tasks'[t] = NoTask)
  BY <1>1 DEF IInv, TypeOK, TaskValues, Listening
<1> QED BY <1>1, <1>2, MessageSafe

LEMMA ShutdownSafe ==
  ASSUME IInv, ServerShutdown
  PROVE  IInv'
<1>1. /\ Recorded /\ pc' = "connect" /\ tasks' = [s \in Symbols |-> NoTask] /\ UNCHANGED sync
  BY DEF ServerShutdown, ConnectionEnds
<1>2. /\ sync' \in [Symbols -> Synchronizer] /\ \A t \in Symbols : Good(sync'[t])
      /\ tasks' \in [Symbols -> TaskValues]
  BY <1>1 DEF IInv, TypeOK, TaskValues
<1> QED BY <1>1, <1>2, MessageSafe

LEMMA SealLastSafe ==
  ASSUME IInv, SealLast
  PROVE  IInv'
<1>1. ASSUME NEW s \in Symbols
      PROVE  Good(sync'[s])
  <2>1. Good(sync[s]) /\ sync'[s] = finalize(sync[s])
    BY DEF IInv, SealLast
  <2> QED BY <2>1, FinalizeGood
<1>2. sync' \in [Symbols -> Synchronizer]
  <2>1. sync' = [s \in Symbols |-> finalize(sync[s])]
    BY DEF SealLast
  <2>2. \A s \in Symbols : finalize(sync[s]) \in Synchronizer
    BY <1>1, <2>1 DEF Good
  <2> QED BY <2>1, <2>2
<1>3. pc' \in {"manifest", "raised"} /\ UNCHANGED <<clock, link, tasks, installing, draining>>
  BY DEF SealLast
<1>4. TypeOK'
  BY <1>2, <1>3 DEF IInv, TypeOK, link, Ended
<1> QED BY <1>1, <1>3, <1>4, NotListening DEF Listening

LEMMA CrashSafe ==
  ASSUME IInv, Crash
  PROVE  IInv'
<1>1. /\ sync' = [s \in Symbols |-> NewSynchronizer] /\ tasks' = [s \in Symbols |-> NoTask]
      /\ pc' = "crashed" /\ clock' = 0 /\ opened' = 0 /\ connections' = 0 /\ reconnects' = 0
      /\ installing' = NoTask /\ draining' = << >>
  BY DEF Crash
<1>2. Good(NewSynchronizer) /\ NewSynchronizer \in Synchronizer /\ << >> \in Seq(Update)
  BY NewGood DEF Good
<1>3. sync' \in [Symbols -> Synchronizer] /\ \A s \in Symbols : Good(sync'[s])
  BY <1>1, <1>2
<1>4. TypeOK'
  BY <1>1, <1>2, <1>3 DEF TypeOK, Ended
<1> QED BY <1>1, <1>3, <1>4, NotListening DEF Listening

LEMMA StutterSafe ==
  ASSUME IInv, UNCHANGED vars
  PROVE  IInv'
BY DEF IInv, TypeOK, vars, link, depth

\* No action breaks the invariant.
LEMMA StepSafe == IInv /\ [Next]_vars => IInv'
<1> SUFFICES ASSUME IInv, [Next]_vars PROVE IInv'
  OBVIOUS
<1>1. CASE LinkStep
  BY <1>1, QuietSafe, TickSafe, SocketOpensSafe, FailuresSafe DEF LinkStep
<1>2. CASE LoopStep
  BY <1>2, LoopStopsSafe, DrainSafe, TickSafe, InstallSafe, FailuresSafe DEF LoopStep
<1>3. CASE FinalStep
  BY <1>3, SealLastSafe, QuietSafe DEF FinalStep
<1>4. CASE SnapshotStep
  BY <1>4, TasksSafe DEF SnapshotStep
<1>5. CASE Message
  BY <1>5, DepthMessageSafe, MalformedSafe, OtherSafe, ShutdownSafe, FailuresSafe DEF Message
<1>6. CASE OrphanArrives
  BY <1>6, OrphanSafe
<1>7. CASE Tick
  BY <1>7, TickSafe
<1>8. CASE Crash
  BY <1>8, CrashSafe
<1>9. CASE UNCHANGED vars
  BY <1>9, StutterSafe
<1> QED BY <1>1, <1>2, <1>3, <1>4, <1>5, <1>6, <1>7, <1>8, <1>9 DEF Next

\* The invariant holds in every state of every run.
LEMMA Invariant == Spec => []IInv
<1>1. Init => IInv
  BY InitSafe
<1>2. IInv /\ [Next]_vars => IInv'
  BY StepSafe
<1> QED BY <1>1, <1>2, PTL DEF Spec

-----------------------------------------------------------------------------
(* The theorems.                                                           *)

\* Every variable keeps its type, for any bounds (the collector's run).
THEOREM CaptureTypes == Spec => []TypeOK
<1>1. IInv => TypeOK
  BY DEF IInv
<1> QED BY <1>1, Invariant, PTL

\* The book that the collector calls synchronized is the exchange's, whatever
\* the feed and the snapshots do (LocalOrderBook and DepthSynchronizer).
THEOREM SynchronizedIsTruth == Spec => []BookFaithful
<1>1. IInv => BookFaithful
  BY DEF IInv, BookFaithful, Good
<1> QED BY <1>1, Invariant, PTL

\* While it listens, a symbol waits for a snapshot exactly when it has no
\* synchronized book (the collector's snapshot_tasks).
THEOREM SnapshotPending == Spec => []SnapshotWhenNeeded
<1>1. IInv => SnapshotWhenNeeded
  BY DEF IInv, SnapshotWhenNeeded, Listening
<1> QED BY <1>1, Invariant, PTL

\* The synchronized intervals that the manifest reports run forward.
THEOREM IntervalsRunForward == Spec => []IntervalsForward
<1>1. IInv => IntervalsForward
  BY DEF IInv, IntervalsForward, Good
<1> QED BY <1>1, Invariant, PTL

\* What is on disk is listed, from the first snapshot to the manifest; after
\* the manifest nothing is written that it could miss.
StoreFields == {"writer", "next", "metadata", "segments", "files", "snapshots", "snapshotFiles"}
IsStore(st) == st = [f \in StoreFields |-> st[f]]
Listing ==
  /\ IsStore(store)
  /\ store.snapshots = store.snapshotFiles
  /\ pc = "digest" => manifest.snapshots = store.snapshotFiles
  /\ digest => pc \in Ended /\ manifest.snapshots = store.snapshotFiles

\* A store that lists what another one lists.
SameSnapshots(st, other) ==
  /\ IsStore(st) /\ st.snapshots = other.snapshots /\ st.snapshotFiles = other.snapshotFiles

\* File work on segments leaves the snapshots alone.
LEMMA SegmentWork ==
  ASSUME NEW st, IsStore(st)
  PROVE  /\ SameSnapshots(Sealed(st), st)
         /\ SameSnapshots(Opened(st), st)
         /\ SameSnapshots(Appended(st), st)
         /\ \A renamed : SameSnapshots(HalfSealed(st, renamed), st)
<1>1. SameSnapshots(Sealed(st), st)
  BY DEF Sealed, SameSnapshots, IsStore, StoreFields
<1>2. SameSnapshots(Opened(st), st)
  BY DEF Opened, SameSnapshots, IsStore, StoreFields
<1>3. SameSnapshots(Appended(st), st)
  BY DEF Appended, SameSnapshots, IsStore, StoreFields
<1>4. ASSUME NEW renamed PROVE SameSnapshots(HalfSealed(st, renamed), st)
  BY DEF HalfSealed, SameSnapshots, IsStore, StoreFields
<1> QED BY <1>1, <1>2, <1>3, <1>4

LEMMA MessageWork ==
  ASSUME NEW st, IsStore(st)
  PROVE  /\ SameSnapshots(Appended(ForToday(st)), st)
         /\ SameSnapshots(AfterMessage(Appended(ForToday(st))), st)
<1> DEFINE today == ForToday(st)
           written == Appended(today)
<1>1. SameSnapshots(today, st)
  <2>1. SameSnapshots(Opened(st), st) /\ SameSnapshots(st, st)
    BY SegmentWork DEF SameSnapshots
  <2>2. SameSnapshots(Opened(Sealed(st)), st)
    <3>1. SameSnapshots(Sealed(st), st)
      BY SegmentWork
    <3>2. SameSnapshots(Opened(Sealed(st)), Sealed(st))
      BY <3>1, SegmentWork DEF SameSnapshots
    <3> QED BY <3>1, <3>2 DEF SameSnapshots
  <2> QED BY <2>1, <2>2 DEF ForToday
<1>2. SameSnapshots(written, st)
  <2>1. SameSnapshots(Appended(today), today)
    BY <1>1, SegmentWork DEF SameSnapshots
  <2> QED BY <1>1, <2>1 DEF SameSnapshots
<1>3. SameSnapshots(AfterMessage(written), st)
  <2>1. SameSnapshots(Sealed(written), written)
    BY <1>2, SegmentWork DEF SameSnapshots
  <2> QED BY <1>2, <2>1 DEF AfterMessage, SameSnapshots
<1> QED BY <1>2, <1>3

\* The steps that write files without ending the run keep the listing: they
\* are taken before the manifest is written.
LEMMA WorkListed ==
  ASSUME Listing, SameSnapshots(store', store), ~digest, pc' # "digest", UNCHANGED digest
  PROVE  Listing'
BY DEF Listing, SameSnapshots, IsStore

LEMMA ListingStep == Listing /\ [Next]_vars => Listing'
<1> SUFFICES ASSUME Listing, [Next]_vars PROVE Listing'
  OBVIOUS
<1>1. IsStore(store) /\ SameSnapshots(store, store)
  BY DEF Listing, SameSnapshots
<1>2. pc \notin Ended => ~digest
  BY DEF Listing
<1>3. CASE UNCHANGED <<store, manifest, digest, pc>>
  BY <1>3 DEF Listing, IsStore
<1>4. CASE UNCHANGED <<store, digest>> /\ pc \notin Ended \cup {"digest"} /\ pc' # "digest"
  BY <1>1, <1>2, <1>4, WorkListed
<1>5. CASE Begin
  <2>1. SameSnapshots(store', store)
    BY <1>1, <1>5 DEF Begin, SameSnapshots, IsStore, StoreFields
  <2> QED BY <1>2, <1>5, <2>1, WorkListed DEF Begin, Ended
<1>6. CASE Message
  <2>1. pc = "receive" /\ pc' # "digest" /\ UNCHANGED digest
    BY <1>6 DEF Message, DepthMessage, MalformedDepth, OtherMessage, ServerShutdown, Undecodable,
                AppendFails, DaySealFails, BrokenWriter, Recorded, TransportError, ConnectionEnds
  <2>2. \/ UNCHANGED store
        \/ store' = Appended(ForToday(store))
        \/ store' = AfterMessage(Appended(ForToday(store)))
        \/ \E renamed \in BOOLEAN : store' = HalfSealed(store, renamed)
    BY <1>6 DEF Message, DepthMessage, MalformedDepth, OtherMessage, ServerShutdown, Undecodable,
                AppendFails, DaySealFails, BrokenWriter, disk
  <2>3. SameSnapshots(store', store)
    BY <1>1, <2>2, SegmentWork, MessageWork
  <2> QED BY <1>2, <2>1, <2>3, WorkListed DEF Ended
<1>7. CASE SnapshotStep \/ OrphanArrives
  <2>1. /\ pc \in Awaiting /\ UNCHANGED <<pc, digest>>
        /\ \/ UNCHANGED store
           \/ \E file : store' = [store EXCEPT !.snapshotFiles = @ \cup {file},
                                               !.snapshots = @ \cup {file}]
    BY <1>7 DEF SnapshotStep, SnapshotArrives, SnapshotFails, OrphanArrives, outcome, disk
  <2>2. IsStore(store') /\ store'.snapshots = store'.snapshotFiles
    BY <2>1 DEF Listing, IsStore, StoreFields
  <2> QED BY <1>2, <2>1, <2>2 DEF Listing, Awaiting, Ended
<1>8. CASE SealLast
  <2>1. /\ pc = "finish" /\ pc' # "digest" /\ UNCHANGED digest
        /\ \/ UNCHANGED store \/ store' = Sealed(store)
           \/ \E renamed \in BOOLEAN : store' = HalfSealed(store, renamed \/ store.writer.renamed)
    BY <1>8 DEF SealLast, outcome
  <2>2. SameSnapshots(store', store)
    BY <1>1, <2>1, SegmentWork
  <2> QED BY <1>2, <2>1, <2>2, WorkListed DEF Ended
<1>9. CASE WriteManifest
  <2>1. UNCHANGED <<store, digest>> /\ pc = "manifest" /\ manifest'.snapshots = store.snapshots
    BY <1>9 DEF WriteManifest, disk
  <2> QED BY <1>2, <2>1 DEF Listing, IsStore, Ended
<1>10. CASE WriteDigest
  <2>1. UNCHANGED <<store, manifest>> /\ pc = "digest" /\ pc' \in Ended /\ pc' # "digest"
    BY <1>10 DEF WriteDigest, disk, Ended
  <2> QED BY <2>1 DEF Listing, IsStore
<1>11. CASE Crash
  <2>1. UNCHANGED <<store, digest>> /\ pc \notin Ended /\ pc' = "crashed"
    BY <1>11 DEF Crash, disk, outcome
  <2> QED BY <1>1, <1>2, <2>1, WorkListed
<1>12. CASE Tick \/ UNCHANGED vars
  BY <1>3, <1>12 DEF Tick, vars, disk, outcome
<1>13. CASE Connect \/ LoopEnds \/ SocketOpens \/ SocketFails \/ Retry \/ Timeout
  <2>1. UNCHANGED <<store, digest>> /\ pc \notin Ended \cup {"digest"} /\ pc' # "digest"
    BY <1>13 DEF Connect, LoopEnds, SocketOpens, SocketFails, Retry, Timeout, disk, outcome,
                 TransportError, Ended
  <2> QED BY <1>4, <2>1
<1>14. CASE LoopStep
  <2>1. pc \in {"loop", "drain"}
    BY <1>14 DEF LoopStep, LoopStops, Drain, Wait, InstallSnapshot, TaskRaises
  <2>2. UNCHANGED <<store, digest>>
    BY <1>14 DEF LoopStep, LoopStops, Drain, Wait, InstallSnapshot, TaskRaises, disk, outcome
  <2>3. pc' # "digest"
    BY <1>14, <2>1 DEF LoopStep, LoopStops, Drain, Wait, InstallSnapshot, TaskRaises, TransportError,
                       ConnectionEnds
  <2> QED BY <1>4, <2>1, <2>2, <2>3 DEF Ended
<1> QED BY <1>5, <1>6, <1>7, <1>8, <1>9, <1>10, <1>11, <1>12, <1>13, <1>14
        DEF Next, LinkStep, FinalStep

\* The manifest of a finished capture lists every snapshot file on disk, also
\* those of connections that were given up (the collector's finally block).
THEOREM EverySnapshotListed == Spec => []SnapshotsListed
<1>1. Init => Listing
  <2> SUFFICES ASSUME Init PROVE Listing
    OBVIOUS
  <2>1. store = [writer |-> NoWriter, next |-> 0, metadata |-> FALSE, segments |-> {},
                 files |-> {}, snapshots |-> {}, snapshotFiles |-> {}]
    BY DEF Init
  <2>2. IsStore(store) /\ store.snapshots = store.snapshotFiles
    BY <2>1 DEF IsStore, StoreFields
  <2>3. pc = "start" /\ ~digest
    BY DEF Init
  <2> QED BY <2>2, <2>3 DEF Listing
<1>2. Listing /\ [Next]_vars => Listing'
  BY ListingStep
<1>3. Listing => SnapshotsListed
  BY DEF Listing, SnapshotsListed
<1> QED BY <1>1, <1>2, <1>3, PTL DEF Spec

\* What a synchronizer says of its book, and what it reports of it afterwards,
\* is true in every run of the collector.
THEOREM BooksAlwaysSound == Spec => []BooksSound
<1>1. BookFaithful /\ IntervalsForward => BooksSound
  BY DEF BooksSound
<1>2. QED BY <1>1, SynchronizedIsTruth, IntervalsRunForward, PTL

\* No snapshot is missing, neither for a book that waits nor in the manifest.
THEOREM SnapshotsAlwaysAccounted == Spec => []SnapshotsAccounted
<1>1. SnapshotWhenNeeded /\ SnapshotsListed => SnapshotsAccounted
  BY DEF SnapshotsAccounted
<1>2. QED BY <1>1, SnapshotPending, EverySnapshotListed, PTL


-----------------------------------------------------------------------------
(***************************************************************************)
(* What has been written is what is listed.                                *)
(***************************************************************************)

\* The records of a set of segment files.
Listed(segments) == SumFunction([f \in segments |-> f.records])

\* The records in the segments of a store, and in the open one.
Written(st) == Listed(st.segments) + (IF st.writer = NoWriter THEN 0 ELSE st.writer.records)

\* Indices grow, so that no segment is listed twice.
StoreSound(st) ==
  /\ st \in [writer : Writers \cup {NoWriter}, next : Nat, metadata : BOOLEAN,
             segments : SUBSET SegmentFiles, files : SUBSET SegmentFiles,
             snapshots : SUBSET SnapshotFiles, snapshotFiles : SUBSET SnapshotFiles]
  /\ IsFiniteSet(st.segments) /\ st.segments \subseteq st.files
  /\ \A f \in st.segments : f.index < st.next
  /\ st.writer # NoWriter =>
       /\ st.writer.index < st.next
       /\ \A f \in st.segments : f.index < st.writer.index

\* No record is lost between the files and the counters; a fault of the disk
\* may leave one uncounted.
CountsSound ==
  /\ StoreSound(store)
  /\ total \in Nat /\ appended \in Nat /\ faults \in Nat
  /\ appended = Written(store)
  /\ faults = 0 => total = appended

\* The metadata files come first.
MetadataFirst ==
  (store.writer # NoWriter \/ store.segments # {} \/ pc \in Awaiting \cup {"connect", "loop", "drain"})
    => store.metadata

\* Only a run that has lasted as long as it had to is complete.
CompleteIsLong ==
  /\ status \in Statuses
  /\ status = "complete" =>
       /\ pc \in {"finish", "manifest", "digest"} \cup Ended
       /\ Planned <= Deadline /\ (pc # "crashed" => clock >= Deadline)

\* The manifest is what is on disk, and nothing is written after it.
ManifestSound ==
  /\ pc \in {"manifest", "digest", "done"} => store.writer = NoWriter
  /\ pc \in {"digest", "done"} => manifest # NoManifest
  /\ pc = "done" => digest
  /\ digest => pc \in Ended
  /\ manifest # NoManifest =>
       /\ pc \in {"digest"} \cup Ended /\ store.writer = NoWriter
       /\ manifest.segments = store.segments /\ manifest.total = total
       /\ manifest.metadata = store.metadata
       /\ manifest.status = "complete" => manifest.duration >= Planned

CountInv ==
  /\ CountsSound /\ MetadataFirst /\ CompleteIsLong /\ ManifestSound
  /\ orphans \subseteq Nat \X Symbols


LEMMA StoreFieldsOf ==
  ASSUME NEW st, StoreSound(st)
  PROVE  /\ st.writer \in Writers \cup {NoWriter} /\ st.next \in Nat /\ st.metadata \in BOOLEAN
         /\ st.segments \in SUBSET SegmentFiles /\ st.files \in SUBSET SegmentFiles
         /\ st.snapshots \in SUBSET SnapshotFiles /\ st.snapshotFiles \in SUBSET SnapshotFiles
         /\ IsFiniteSet(st.segments) /\ st.segments \subseteq st.files
BY DEF StoreSound

\* Listing a file that was not listed adds its records.
LEMMA ListedMore ==
  ASSUME NEW segments \in SUBSET SegmentFiles, IsFiniteSet(segments),
         NEW file \in SegmentFiles, file \notin segments
  PROVE  Listed(segments \cup {file}) = Listed(segments) + file.records
<1>1. PICK f, g : /\ f = [x \in segments |-> x.records]
                  /\ g = [x \in segments \cup {file} |-> x.records]
  OBVIOUS
<1>2. \A x \in segments \cup {file} : g[x] \in Int
  BY <1>1 DEF SegmentFiles
<1>3. \A x \in segments : g[x] = f[x]
  BY <1>1
<1>4. SumFunctionOnSet(g, segments \cup {file}) = g[file] + SumFunctionOnSet(g, segments)
  BY ONLY <1>2, file \notin segments, IsFiniteSet(segments), SumWith
<1>5. SumFunctionOnSet(g, segments) = SumFunctionOnSet(f, segments)
  BY ONLY <1>3, IsFiniteSet(segments), SumOfEquals
<1>6. /\ Listed(segments) = SumFunctionOnSet(f, segments)
      /\ Listed(segments \cup {file}) = SumFunctionOnSet(g, segments \cup {file})
  BY <1>1 DEF Listed, SumFunction
<1>7. SumFunctionOnSet(g, segments) \in Int
  BY ONLY <1>2, IsFiniteSet(segments), SumIsInt
<1>8. g[file] = file.records /\ g[file] \in Int
  BY <1>1, <1>2
<1> QED BY <1>4, <1>5, <1>6, <1>7, <1>8

LEMMA ListedIsInt ==
  ASSUME NEW segments \in SUBSET SegmentFiles, IsFiniteSet(segments)
  PROVE  Listed(segments) \in Int
<1>1. PICK f : f = [x \in segments |-> x.records]
  OBVIOUS
<1>2. \A x \in segments : f[x] \in Int
  BY <1>1 DEF SegmentFiles
<1>3. SumFunctionOnSet(f, segments) \in Int
  BY ONLY <1>2, IsFiniteSet(segments), SumIsInt
<1> QED BY <1>1, <1>3 DEF Listed, SumFunction

\* What every file operation on segments leaves sound: the records are all
\* there, and the metadata and the snapshots are as they were.
Keeps(st, old, more) ==
  /\ StoreSound(st) /\ Written(st) = Written(old) + more
  /\ st.metadata = old.metadata

\* Sealing lists the records of the open segment.
LEMMA SealedKeeps ==
  ASSUME NEW st, StoreSound(st), st.writer # NoWriter
  PROVE  Keeps(Sealed(st), st, 0) /\ Sealed(st).writer = NoWriter
<1>1. PICK new, file : new = Sealed(st) /\ file = Segment(st.writer.index, st.writer.records)
  OBVIOUS
<1>2. /\ st.writer \in Writers /\ st.segments \in SUBSET SegmentFiles /\ IsFiniteSet(st.segments)
      /\ st.files \in SUBSET SegmentFiles /\ st.segments \subseteq st.files
  BY StoreFieldsOf
<1>3. /\ file \in SegmentFiles /\ file.index = st.writer.index /\ file.records = st.writer.records
      /\ st.writer.records \in Nat /\ st.writer.index \in Nat
  BY <1>1, <1>2 DEF Segment, SegmentFiles, Writers
<1>4. /\ new.writer = NoWriter /\ new.segments = st.segments \cup {file}
      /\ new.files = st.files \cup {file} /\ new.next = st.next /\ new.metadata = st.metadata
      /\ new \in [writer : Writers \cup {NoWriter}, next : Nat, metadata : BOOLEAN,
                  segments : SUBSET SegmentFiles, files : SUBSET SegmentFiles,
                  snapshots : SUBSET SnapshotFiles, snapshotFiles : SUBSET SnapshotFiles]
  <2>1. new = [st EXCEPT !.segments = st.segments \cup {file}, !.files = st.files \cup {file},
                         !.writer = NoWriter]
    BY <1>1 DEF Sealed
  <2> QED BY <1>2, <1>3, <2>1 DEF StoreSound
<1>5. file \notin st.segments
  <2>1. \A f \in st.segments : f.index < st.writer.index
    BY DEF StoreSound
  <2> QED BY <1>3, <2>1
<1>6. IsFiniteSet(new.segments)
  BY <1>2, <1>4, FS_AddElement
<1>7. StoreSound(new)
  <2>1. \A f \in new.segments : f.index < new.next
    BY <1>3, <1>4 DEF StoreSound
  <2> QED BY <1>2, <1>4, <1>6, <2>1 DEF StoreSound
<1>8. Written(new) = Written(st) + 0
  <2>1. Listed(new.segments) = Listed(st.segments) + file.records
    BY <1>2, <1>3, <1>4, <1>5, ListedMore
  <2>2. Listed(st.segments) \in Int
    BY <1>2, ListedIsInt
  <2> QED BY <1>3, <1>4, <2>1, <2>2 DEF Written
<1> QED BY <1>1, <1>4, <1>7, <1>8 DEF Keeps

LEMMA OpenedKeeps ==
  ASSUME NEW st, StoreSound(st), st.writer = NoWriter, Day \in Nat
  PROVE  Keeps(Opened(st), st, 0) /\ Opened(st).writer # NoWriter
<1>1. PICK new, w : /\ new = Opened(st)
                    /\ w = [index |-> st.next, day |-> Day, records |-> 0,
                            broken |-> FALSE, renamed |-> FALSE]
  OBVIOUS
<1>2. st.next \in Nat /\ st.segments \in SUBSET SegmentFiles /\ IsFiniteSet(st.segments)
  BY StoreFieldsOf
<1>3. w \in Writers /\ w # NoWriter /\ w.index = st.next /\ w.records = 0
  <2>1. w \in Writers
    BY <1>1, <1>2 DEF Writers
  <2> QED BY <1>1, <2>1, CaptureAssumption DEF load_capture_config
<1>4. /\ new.writer = w /\ new.next = st.next + 1 /\ new.segments = st.segments
      /\ new.files = st.files /\ new.metadata = st.metadata
      /\ new \in [writer : Writers \cup {NoWriter}, next : Nat, metadata : BOOLEAN,
                  segments : SUBSET SegmentFiles, files : SUBSET SegmentFiles,
                  snapshots : SUBSET SnapshotFiles, snapshotFiles : SUBSET SnapshotFiles]
  <2>1. new = [st EXCEPT !.writer = w, !.next = st.next + 1]
    BY <1>1 DEF Opened
  <2>2. st.next + 1 \in Nat
    BY <1>2
  <2> QED BY <1>3, <2>1, <2>2 DEF StoreSound
<1>5. \A f \in st.segments : f.index \in Nat /\ f.index < st.next
  BY <1>2 DEF StoreSound, SegmentFiles
<1>6. StoreSound(new)
  <2>1. \A f \in new.segments : f.index < new.next /\ f.index < new.writer.index
    BY <1>2, <1>3, <1>4, <1>5
  <2>2. new.writer.index < new.next
    BY <1>2, <1>3, <1>4
  <2> QED BY <1>4, <2>1, <2>2 DEF StoreSound
<1>7. Listed(st.segments) \in Int
  BY <1>2, ListedIsInt
<1> QED BY <1>1, <1>3, <1>4, <1>6, <1>7 DEF Keeps, Written

\* Another record goes into the open segment.
LEMMA AppendedKeeps ==
  ASSUME NEW st, StoreSound(st), st.writer # NoWriter
  PROVE  Keeps(Appended(st), st, 1) /\ Appended(st).writer # NoWriter
<1>1. PICK new, w : new = Appended(st) /\ w = [st.writer EXCEPT !.records = st.writer.records + 1]
  OBVIOUS
<1>2. st.writer \in Writers /\ st.segments \in SUBSET SegmentFiles /\ IsFiniteSet(st.segments)
  BY StoreFieldsOf
<1>3. /\ w \in Writers /\ w # NoWriter /\ w.index = st.writer.index
      /\ w.records = st.writer.records + 1 /\ st.writer.records \in Nat
  <2>1. /\ w \in Writers /\ w.index = st.writer.index
        /\ w.records = st.writer.records + 1 /\ st.writer.records \in Nat
    BY <1>1, <1>2 DEF Writers
  <2> QED BY <2>1, CaptureAssumption DEF load_capture_config
<1>4. /\ new.writer = w /\ new.next = st.next /\ new.segments = st.segments
      /\ new.files = st.files /\ new.metadata = st.metadata
      /\ new \in [writer : Writers \cup {NoWriter}, next : Nat, metadata : BOOLEAN,
                  segments : SUBSET SegmentFiles, files : SUBSET SegmentFiles,
                  snapshots : SUBSET SnapshotFiles, snapshotFiles : SUBSET SnapshotFiles]
  <2>1. new = [st EXCEPT !.writer = w]
    BY <1>1 DEF Appended
  <2> QED BY <1>2, <1>3, <2>1 DEF StoreSound
<1>5. StoreSound(new)
  BY <1>3, <1>4 DEF StoreSound
<1>6. Listed(st.segments) \in Int
  BY <1>2, ListedIsInt
<1> QED BY <1>1, <1>3, <1>4, <1>5, <1>6 DEF Keeps, Written

\* A seal that fails loses nothing: the open segment keeps its records.
LEMMA HalfSealedKeeps ==
  ASSUME NEW st, StoreSound(st), st.writer # NoWriter, NEW renamed \in BOOLEAN
  PROVE  Keeps(HalfSealed(st, renamed), st, 0) /\ HalfSealed(st, renamed).writer # NoWriter
<1>1. PICK new, w, more :
        /\ new = HalfSealed(st, renamed)
        /\ w = [st.writer EXCEPT !.broken = TRUE, !.renamed = renamed]
        /\ more = IF renamed THEN st.files \cup {Segment(st.writer.index, st.writer.records)}
                             ELSE st.files
  OBVIOUS
<1>2. /\ st.writer \in Writers /\ st.segments \in SUBSET SegmentFiles /\ IsFiniteSet(st.segments)
      /\ st.files \in SUBSET SegmentFiles /\ st.segments \subseteq st.files
  BY StoreFieldsOf
<1>3. /\ w \in Writers /\ w # NoWriter /\ w.index = st.writer.index
      /\ w.records = st.writer.records /\ st.writer.records \in Nat
  <2>1. /\ w \in Writers /\ w.index = st.writer.index
        /\ w.records = st.writer.records /\ st.writer.records \in Nat
    BY <1>1, <1>2 DEF Writers
  <2> QED BY <2>1, CaptureAssumption DEF load_capture_config
<1>4. more \in SUBSET SegmentFiles /\ st.files \subseteq more
  BY <1>1, <1>2 DEF Segment, SegmentFiles, Writers
<1>5. /\ new.writer = w /\ new.next = st.next /\ new.segments = st.segments
      /\ new.files = more /\ new.metadata = st.metadata
      /\ new \in [writer : Writers \cup {NoWriter}, next : Nat, metadata : BOOLEAN,
                  segments : SUBSET SegmentFiles, files : SUBSET SegmentFiles,
                  snapshots : SUBSET SnapshotFiles, snapshotFiles : SUBSET SnapshotFiles]
  <2>1. new = [st EXCEPT !.writer = w, !.files = more]
    BY <1>1, <1>2 DEF HalfSealed, StoreSound, Writers
  <2> QED BY <1>3, <1>4, <2>1 DEF StoreSound
<1>6. StoreSound(new)
  BY <1>2, <1>3, <1>4, <1>5 DEF StoreSound
<1>7. Listed(st.segments) \in Int
  BY <1>2, ListedIsInt
<1> QED BY <1>1, <1>3, <1>5, <1>6, <1>7 DEF Keeps, Written

\* The file work of one message writes one record.
LEMMA MessageKeeps ==
  ASSUME NEW st, StoreSound(st), Day \in Nat
  PROVE  /\ Keeps(Appended(ForToday(st)), st, 1)
         /\ Keeps(AfterMessage(Appended(ForToday(st))), st, 1)
<1>1. PICK today, written : today = ForToday(st) /\ written = Appended(today)
  OBVIOUS
<1>n. Written(st) \in Int
  <2>1. /\ st.writer = NoWriter \/ st.writer.records \in Nat
    BY StoreFieldsOf DEF Writers
  <2> QED BY <2>1, StoreFieldsOf, ListedIsInt DEF Written
<1>2. Keeps(today, st, 0) /\ today.writer # NoWriter
  <2>1. CASE st.writer = NoWriter
    BY <1>1, <2>1, OpenedKeeps DEF ForToday
  <2>2. CASE st.writer # NoWriter /\ st.writer.day # Day
    <3>1. PICK s : s = Sealed(st) /\ today = Opened(s)
      BY <1>1, <2>2 DEF ForToday
    <3>2. Keeps(s, st, 0) /\ s.writer = NoWriter
      BY <2>2, <3>1, SealedKeeps
    <3>3. Keeps(today, s, 0) /\ today.writer # NoWriter
      BY <3>1, <3>2, OpenedKeeps DEF Keeps
    <3> QED BY <1>n, <3>2, <3>3 DEF Keeps
  <2>3. CASE st.writer # NoWriter /\ st.writer.day = Day
    BY <1>1, <1>n, <2>3 DEF ForToday, Keeps
  <2> QED BY <2>1, <2>2, <2>3
<1>3. Keeps(written, st, 1) /\ written.writer # NoWriter
  <2>1. Keeps(written, today, 1) /\ written.writer # NoWriter
    BY <1>1, <1>2, AppendedKeeps DEF Keeps
  <2> QED BY <1>n, <1>2, <2>1 DEF Keeps
<1>4. Keeps(AfterMessage(written), st, 1)
  <2>1. Keeps(Sealed(written), written, 0)
    BY <1>3, SealedKeeps DEF Keeps
  <2>2. Keeps(Sealed(written), st, 1)
    BY <1>n, <1>3, <2>1 DEF Keeps
  <2> QED BY <1>3, <2>2 DEF AfterMessage
<1> QED BY <1>1, <1>3, <1>4


\* The collector is between its first metadata file and the finally block.
Capturing == Awaiting \cup {"connect", "loop", "drain"}

\* The counters after file work that has written some records.
LEMMA CountsMove ==
  ASSUME CountsSound, NEW more \in {0, 1}, Keeps(store', store, more),
         appended' = appended + more,
         \/ total' = total + more /\ UNCHANGED faults
         \/ total' = total /\ faults' = faults + 1
  PROVE  CountsSound'
<1>1. /\ StoreSound(store') /\ Written(store') = Written(store) + more
      /\ appended = Written(store) /\ total \in Nat /\ appended \in Nat /\ faults \in Nat
      /\ faults = 0 => total = appended
  BY DEF CountsSound, Keeps
<1>2. appended' = Written(store')
  BY <1>1
<1>3. total' \in Nat /\ appended' \in Nat /\ faults' \in Nat /\ (faults' = 0 => total' = appended')
  BY <1>1
<1> QED BY <1>1, <1>2, <1>3 DEF CountsSound

LEMMA CountsStay ==
  ASSUME CountsSound, UNCHANGED <<store, total, appended, faults>>
  PROVE  CountsSound'
BY DEF CountsSound

\* A step of a run that goes on, or that gives up.
LEMMA CapturingKeeps ==
  ASSUME CountInv, CountsSound', pc \in Capturing, pc' \in Capturing \cup {"finish"},
         UNCHANGED <<manifest, digest>>, store'.metadata = store.metadata,
         status' \in {status, "aborted"}, orphans' \subseteq Nat \X Symbols
  PROVE  CountInv'
<1>1. pc \notin {"finish", "manifest", "digest"} \cup Ended
  BY DEF Capturing, Awaiting, Ended
<1>2. status # "complete" /\ status \in Statuses /\ manifest = NoManifest /\ ~digest
  BY <1>1 DEF CountInv, CompleteIsLong, ManifestSound
<1>3. MetadataFirst'
  BY DEF CountInv, MetadataFirst, Capturing
<1>4. CompleteIsLong'
  BY <1>2 DEF CompleteIsLong, Statuses
<1>5. ManifestSound'
  BY <1>2 DEF ManifestSound, Capturing, Awaiting
<1> QED BY <1>3, <1>4, <1>5 DEF CountInv

\* Orphaned tasks belong to a connection and a symbol.
LEMMA OrphansTyped ==
  ASSUME TypeOK, CountInv,
         orphans' = orphans \/ orphans' \subseteq orphans \cup ({connections} \X Symbols)
  PROVE  orphans' \subseteq Nat \X Symbols
BY DEF TypeOK, CountInv

\* Steps that touch no file and no counter, while the run goes on.
LEMMA QuietCounts ==
  ASSUME TypeOK, CountInv,
         \/ Connect \/ SocketOpens \/ SocketFails \/ Retry \/ Timeout
         \/ LoopStep \/ Undecodable \/ BrokenWriter \/ \E s \in Symbols : SnapshotFails(s)
  PROVE  CountInv'
<1>1. UNCHANGED <<store, total, appended, faults, manifest, digest>>
  BY DEF Connect, SocketOpens, SocketFails, Retry, Timeout, LoopStep, LoopStops, Drain, Wait,
         InstallSnapshot, TaskRaises, Undecodable, BrokenWriter, SnapshotFails, disk, outcome
<1>2. pc \in Capturing
  BY DEF Connect, SocketOpens, SocketFails, Retry, Timeout, LoopStep, LoopStops, Drain, Wait,
         InstallSnapshot, TaskRaises, Undecodable, BrokenWriter, SnapshotFails, Capturing, Awaiting
<1>3. pc' \in Capturing \cup {"finish"} /\ status' \in {status, "aborted"}
  BY <1>2 DEF Connect, SocketOpens, SocketFails, Retry, Timeout, LoopStep, LoopStops, Drain, Wait,
         InstallSnapshot, TaskRaises, Undecodable, BrokenWriter, SnapshotFails, Capturing, Awaiting,
         TransportError, ConnectionEnds, outcome
<1>4. orphans' = orphans \/ orphans' \subseteq orphans \cup ({connections} \X Symbols)
  BY DEF Connect, SocketOpens, SocketFails, Retry, Timeout, LoopStep, LoopStops, Drain, Wait,
         InstallSnapshot, TaskRaises, Undecodable, BrokenWriter, SnapshotFails,
         TransportError, Running, depth
<1>5. CountsSound'
  BY <1>1, CountsStay DEF CountInv
<1> QED BY <1>1, <1>2, <1>3, <1>4, <1>5, OrphansTyped, CapturingKeeps

\* A message is recorded, or the disk fails it.
LEMMA MessageCounts ==
  ASSUME TypeOK, CountInv, Message, ~Undecodable, ~BrokenWriter
  PROVE  CountInv'
<1>1. /\ pc = "receive" /\ UNCHANGED <<manifest, digest>>
      /\ pc' \in {"loop", "connect", "finish", "backoff"} /\ status' \in {status, "aborted"}
  BY DEF Message, DepthMessage, MalformedDepth, OtherMessage, ServerShutdown,
         AppendFails, DaySealFails, Recorded, TransportError, ConnectionEnds
<1>2. orphans' = orphans \/ orphans' \subseteq orphans \cup ({connections} \X Symbols)
  <2>1. ASSUME NEW s \in Symbols, NewTask(s)
        PROVE  orphans' \subseteq orphans \cup ({connections} \X Symbols)
    BY <2>1 DEF NewTask, Running
  <2>2. ASSUME NEW s \in Symbols, NEW u, Depth(s, u)
        PROVE  orphans' = orphans \/ orphans' \subseteq orphans \cup ({connections} \X Symbols)
    BY <2>1, <2>2 DEF Depth, Resynchronize
  <2>3. TransportError => orphans' \subseteq orphans \cup ({connections} \X Symbols)
    BY DEF TransportError, Running
  <2>4. CASE \E s \in Symbols, u \in Feed : DepthMessage(s, u)
    BY <2>2, <2>4 DEF DepthMessage
  <2>5. CASE \E s \in Symbols : MalformedDepth(s)
    BY <2>1, <2>5 DEF MalformedDepth, Resynchronize
  <2>6. CASE OtherMessage \/ ServerShutdown
    BY <2>6 DEF OtherMessage, ServerShutdown
  <2>7. CASE AppendFails \/ DaySealFails
    BY <2>3, <2>7 DEF AppendFails, DaySealFails
  <2> QED BY <2>4, <2>5, <2>6, <2>7 DEF Message
<1>3. CountsSound /\ StoreSound(store) /\ total \in Nat /\ appended \in Nat
  BY DEF CountInv, CountsSound
<1>d. Day \in Nat
  <2>1. clock \in Nat /\ DayLength \in Nat /\ DayLength > 0
    BY CaptureAssumption DEF TypeOK, load_capture_config
  <2> QED BY <2>1 DEF Day
<1>4. CASE AppendFails
  <2>1. /\ Keeps(store', store, 1) /\ appended' = appended + 1 /\ total' = total
        /\ faults' = faults + 1
    BY <1>3, <1>4, <1>d, MessageKeeps DEF AppendFails
  <2> QED BY <1>3, <2>1, CountsMove, <1>1, <1>2, OrphansTyped, CapturingKeeps
          DEF Keeps, Capturing, Awaiting
<1>5. CASE DaySealFails
  <2>1. /\ Keeps(store', store, 0) /\ appended' = appended + 0 /\ total' = total
        /\ faults' = faults + 1
    BY <1>3, <1>5, HalfSealedKeeps DEF DaySealFails
  <2> QED BY <1>3, <2>1, CountsMove, <1>1, <1>2, OrphansTyped, CapturingKeeps
          DEF Keeps, Capturing, Awaiting
<1>6. CASE ~AppendFails /\ ~DaySealFails
  <2>1. /\ Recorded
        /\ \/ store' = Appended(ForToday(store))
           \/ store' = AfterMessage(Appended(ForToday(store)))
    BY <1>6 DEF Message, DepthMessage, MalformedDepth, OtherMessage, ServerShutdown
  <2>2. /\ Keeps(store', store, 1) /\ appended' = appended + 1 /\ total' = total + 1
        /\ UNCHANGED faults
    BY <1>3, <1>d, <2>1, MessageKeeps DEF Recorded
  <2> QED BY <1>3, <2>2, CountsMove, <1>1, <1>2, OrphansTyped, CapturingKeeps
          DEF Keeps, Capturing, Awaiting
<1> QED BY <1>4, <1>5, <1>6


\* Another snapshot file changes no segment and no count.
LEMMA SnapshotKeeps ==
  ASSUME CountsSound, NEW file \in SnapshotFiles,
         store' = [store EXCEPT !.snapshotFiles = store.snapshotFiles \cup {file},
                                !.snapshots = store.snapshots \cup {file}],
         UNCHANGED <<total, appended, faults>>
  PROVE  CountsSound' /\ store'.metadata = store.metadata
<1>1. StoreSound(store)
  BY DEF CountsSound
<1>2. /\ store'.writer = store.writer /\ store'.segments = store.segments
      /\ store'.files = store.files /\ store'.next = store.next
      /\ store'.metadata = store.metadata
      /\ store' \in [writer : Writers \cup {NoWriter}, next : Nat, metadata : BOOLEAN,
                     segments : SUBSET SegmentFiles, files : SUBSET SegmentFiles,
                     snapshots : SUBSET SnapshotFiles, snapshotFiles : SUBSET SnapshotFiles]
  BY <1>1 DEF StoreSound
<1>3. StoreSound(store')
  BY <1>1, <1>2 DEF StoreSound
<1>4. Written(store') = Written(store)
  BY <1>2 DEF Written
<1> QED BY <1>2, <1>3, <1>4 DEF CountsSound

LEMMA SnapshotCounts ==
  ASSUME TypeOK, CountInv, OrphanArrives \/ \E s \in Symbols : SnapshotArrives(s)
  PROVE  CountInv'
<1>1. /\ pc \in Awaiting /\ pc' = pc /\ status' = status
      /\ UNCHANGED <<manifest, digest, total, appended, faults>>
      /\ orphans' \subseteq orphans
  BY DEF OrphanArrives, SnapshotArrives, outcome
<1>2. UNCHANGED store \/ \E file \in SnapshotFiles :
        store' = [store EXCEPT !.snapshotFiles = store.snapshotFiles \cup {file},
                               !.snapshots = store.snapshots \cup {file}]
  <2>1. ASSUME NEW c \in Nat, NEW s \in Symbols, NEW last \in SnapshotIds
        PROVE  Snapshot(c, s, last) \in SnapshotFiles
    BY CaptureAssumption DEF Snapshot, SnapshotFiles, load_capture_config
  <2>2. CASE OrphanArrives
    <3>1. PICK o \in orphans, last \in SnapshotIds :
            store' = [store EXCEPT
                        !.snapshotFiles = store.snapshotFiles \cup {Snapshot(o[1], o[2], last)},
                        !.snapshots = store.snapshots \cup {Snapshot(o[1], o[2], last)}]
      BY <2>2 DEF OrphanArrives
    <3>2. o[1] \in Nat /\ o[2] \in Symbols
      BY DEF CountInv
    <3> QED BY <2>1, <3>1, <3>2
  <2>3. CASE \E s \in Symbols : SnapshotArrives(s)
    <3>1. PICK s \in Symbols, last \in SnapshotIds :
            \/ UNCHANGED store
            \/ store' = [store EXCEPT
                          !.snapshotFiles = store.snapshotFiles \cup {Snapshot(connections, s, last)},
                          !.snapshots = store.snapshots \cup {Snapshot(connections, s, last)}]
      BY <2>3 DEF SnapshotArrives
    <3> QED BY <2>1, <3>1 DEF TypeOK
  <2> QED BY <2>2, <2>3
<1>3. CountsSound' /\ store'.metadata = store.metadata
  BY <1>1, <1>2, CountsStay, SnapshotKeeps DEF CountInv
<1>4. orphans' \subseteq Nat \X Symbols
  BY <1>1 DEF CountInv
<1> QED BY <1>1, <1>3, <1>4, CapturingKeeps DEF Capturing

\* The exchange information is stored first.
LEMMA BeginCounts ==
  ASSUME CountInv, Begin
  PROVE  CountInv'
<1>1. /\ pc = "start" /\ UNCHANGED <<total, appended, manifest, digest, faults, orphans>>
      /\ \/ /\ pc' = "connect" /\ UNCHANGED status
            /\ store' = [store EXCEPT !.metadata = TRUE]
         \/ pc' = "finish" /\ status' = "aborted" /\ UNCHANGED store
  BY DEF Begin, depth
<1>2. StoreSound(store) /\ CountsSound
  BY DEF CountInv, CountsSound
<1>3. CountsSound' /\ (pc' = "connect" => store'.metadata)
  <2>1. CASE store' = [store EXCEPT !.metadata = TRUE] /\ pc' = "connect"
    <3>1. /\ store'.writer = store.writer /\ store'.segments = store.segments
          /\ store'.files = store.files /\ store'.next = store.next /\ store'.metadata
          /\ store' \in [writer : Writers \cup {NoWriter}, next : Nat, metadata : BOOLEAN,
                         segments : SUBSET SegmentFiles, files : SUBSET SegmentFiles,
                         snapshots : SUBSET SnapshotFiles, snapshotFiles : SUBSET SnapshotFiles]
      BY <1>2, <2>1 DEF StoreSound
    <3>2. StoreSound(store')
      BY <1>2, <3>1 DEF StoreSound
    <3>3. Written(store') = Written(store)
      BY <3>1 DEF Written
    <3> QED BY <1>1, <1>2, <3>1, <3>2, <3>3 DEF CountsSound
  <2>2. CASE UNCHANGED store /\ pc' = "finish"
    BY <1>1, <1>2, <2>2, CountsStay
  <2> QED BY <1>1, <2>1, <2>2
<1>4. status # "complete" /\ status \in Statuses /\ manifest = NoManifest /\ ~digest
  BY <1>1 DEF CountInv, CompleteIsLong, ManifestSound, Ended
<1>5. MetadataFirst'
  BY <1>1, <1>3 DEF CountInv, MetadataFirst, Awaiting
<1>6. CompleteIsLong' /\ ManifestSound'
  BY <1>1, <1>4 DEF CompleteIsLong, ManifestSound, Statuses, Ended
<1> QED BY <1>1, <1>3, <1>5, <1>6 DEF CountInv

LEMMA LoopEndsCounts ==
  ASSUME TypeOK, CountInv, LoopEnds
  PROVE  CountInv'
<1>1. /\ pc = "connect" /\ pc' = "finish"
      /\ status' = (IF Deadline >= Planned /\ clock >= Deadline THEN "complete" ELSE "pilot_incomplete")
      /\ UNCHANGED <<clock, store, total, appended, manifest, digest, faults, orphans>>
  BY DEF LoopEnds, disk, depth
<1>2. CountsSound'
  BY <1>1, CountsStay DEF CountInv
<1>3. manifest = NoManifest /\ ~digest
  BY <1>1 DEF CountInv, ManifestSound, Ended
<1>4. MetadataFirst'
  BY <1>1 DEF CountInv, MetadataFirst, Awaiting
<1>5. ManifestSound'
  BY <1>1, <1>3 DEF ManifestSound, Ended
<1>6. CompleteIsLong'
  BY <1>1, CaptureAssumption DEF CompleteIsLong, Statuses, load_capture_config, TypeOK
<1> QED BY <1>1, <1>2, <1>4, <1>5, <1>6 DEF CountInv

\* The last segment is sealed, or the run ends without a manifest.
LEMMA SealLastCounts ==
  ASSUME CountInv, SealLast
  PROVE  CountInv'
<1>1. /\ pc = "finish" /\ pc' \in {"manifest", "raised"}
      /\ UNCHANGED <<clock, total, appended, status, manifest, digest, orphans>>
  BY DEF SealLast, outcome
<1>2. CountsSound /\ StoreSound(store) /\ total \in Nat /\ appended \in Nat
  BY DEF CountInv, CountsSound
<1>3. /\ CountsSound' /\ store'.metadata = store.metadata
      /\ pc' = "manifest" => store'.writer = NoWriter
      /\ (store'.writer # NoWriter \/ store'.segments # {}) =>
           (store.writer # NoWriter \/ store.segments # {})
  <2>1. CASE /\ store.writer = NoWriter /\ store' = store /\ pc' = "manifest" /\ UNCHANGED faults
    BY <1>1, <1>2, <2>1, CountsStay
  <2>2. CASE /\ store.writer # NoWriter /\ store' = Sealed(store) /\ UNCHANGED faults
    <3>1. Keeps(store', store, 0) /\ store'.writer = NoWriter
      BY <1>2, <2>2, SealedKeeps
    <3>2. appended' = appended + 0 /\ total' = total + 0
      BY <1>1, <1>2
    <3> QED BY <1>2, <2>2, <3>1, <3>2, CountsMove DEF Keeps
  <2>3. CASE /\ store.writer # NoWriter /\ pc' = "raised"
             /\ \E renamed \in BOOLEAN : store' = HalfSealed(store, renamed \/ store.writer.renamed)
             /\ faults' = IF DiskMayFail THEN faults + 1 ELSE faults
    <3>1. PICK renamed : store' = HalfSealed(store, renamed) /\ renamed \in BOOLEAN
      BY <2>3
    <3>2. Keeps(store', store, 0)
      BY <1>2, <2>3, <3>1, HalfSealedKeeps
    <3>3. appended' = appended + 0 /\ total' = total + 0
      BY <1>1, <1>2
    <3> QED BY <1>1, <1>2, <2>3, <3>2, <3>3, CountsMove DEF Keeps
  <2> QED BY <2>1, <2>2, <2>3 DEF SealLast
<1>4. manifest = NoManifest /\ ~digest
  BY <1>1 DEF CountInv, ManifestSound, Ended
<1>5. MetadataFirst'
  BY <1>1, <1>3 DEF CountInv, MetadataFirst, Awaiting
<1>6. ManifestSound'
  BY <1>1, <1>3, <1>4 DEF ManifestSound, Ended
<1>7. CompleteIsLong'
  BY <1>1 DEF CountInv, CompleteIsLong, Ended
<1> QED BY <1>1, <1>3, <1>5, <1>6, <1>7 DEF CountInv

\* The manifest takes what is there, and the digest after it.
LEMMA ManifestCounts ==
  ASSUME TypeOK, CountInv, WriteManifest
  PROVE  CountInv'
<1>1. /\ pc = "manifest" /\ pc' = "digest"
      /\ manifest' = [segments |-> store.segments, snapshots |-> store.snapshots,
                      metadata |-> store.metadata, total |-> total, status |-> status,
                      duration |-> clock]
      /\ UNCHANGED <<clock, store, total, appended, faults, status, digest, orphans>>
  BY DEF WriteManifest, disk, depth
<1>2. CountsSound'
  BY <1>1, CountsStay DEF CountInv
<1>3. /\ manifest'.segments = store.segments /\ manifest'.total = total
      /\ manifest'.metadata = store.metadata /\ manifest'.status = status
      /\ manifest'.duration = clock /\ manifest' # NoManifest
  <2>1. /\ store.segments \in SUBSET SegmentFiles /\ store.snapshots \in SUBSET SnapshotFiles
        /\ store.metadata \in BOOLEAN /\ total \in Nat /\ status \in Statuses /\ clock \in Nat
    BY StoreFieldsOf DEF CountInv, CountsSound, CompleteIsLong, TypeOK
  <2>2. manifest' \in Manifests
    BY <1>1, <2>1 DEF Manifests
  <2> QED BY <1>1, <2>2, CaptureAssumption DEF load_capture_config
<1>4. store.writer = NoWriter /\ ~digest
  BY <1>1 DEF CountInv, ManifestSound, Ended
<1>5. status = "complete" => clock >= Planned
  <2>1. status = "complete" => Planned <= Deadline /\ clock >= Deadline
    BY <1>1 DEF CountInv, CompleteIsLong
  <2> QED BY <2>1, CaptureAssumption DEF load_capture_config, TypeOK
<1>6. ManifestSound'
  BY <1>1, <1>3, <1>4, <1>5 DEF ManifestSound, Ended
<1>7. MetadataFirst' /\ CompleteIsLong'
  BY <1>1 DEF CountInv, MetadataFirst, CompleteIsLong, Awaiting
<1> QED BY <1>1, <1>2, <1>6, <1>7 DEF CountInv

LEMMA DigestCounts ==
  ASSUME CountInv, WriteDigest
  PROVE  CountInv'
<1>1. /\ pc = "digest" /\ pc' \in {"raised", "done"} /\ digest'
      /\ UNCHANGED <<clock, store, total, appended, faults, status, manifest, orphans>>
  BY DEF WriteDigest, disk, depth
<1>2. CountsSound'
  BY <1>1, CountsStay DEF CountInv
<1> QED BY <1>1, <1>2 DEF CountInv, MetadataFirst, CompleteIsLong, ManifestSound, Ended, Awaiting

\* A crash forgets the connections and keeps the files.
LEMMA CrashCounts ==
  ASSUME CountInv, Crash
  PROVE  CountInv'
<1>1. /\ pc \notin Ended /\ pc' = "crashed" /\ orphans' = {}
      /\ UNCHANGED <<store, total, appended, faults, status, manifest, digest>>
  BY DEF Crash, disk, outcome
<1>2. CountsSound'
  BY <1>1, CountsStay DEF CountInv
<1> QED BY <1>1, <1>2 DEF CountInv, MetadataFirst, CompleteIsLong, ManifestSound, Ended, Awaiting

LEMMA TickCounts ==
  ASSUME TypeOK, CountInv, Tick \/ UNCHANGED vars
  PROVE  CountInv'
<1>1. /\ clock' \in Nat /\ clock' >= clock
      /\ UNCHANGED <<pc, store, total, appended, faults, status, manifest, digest, orphans>>
  BY DEF Tick, vars, disk, depth, outcome, TypeOK
<1>2. CountsSound'
  BY <1>1, CountsStay DEF CountInv
<1>3. CompleteIsLong'
  BY <1>1, CaptureAssumption DEF CountInv, CompleteIsLong, TypeOK, load_capture_config
<1> QED BY <1>1, <1>2, <1>3 DEF CountInv, MetadataFirst, ManifestSound

LEMMA CountStep == TypeOK /\ CountInv /\ [Next]_vars => CountInv'
<1> SUFFICES ASSUME TypeOK, CountInv, [Next]_vars PROVE CountInv'
  OBVIOUS
<1>1. CASE LinkStep
  BY <1>1, BeginCounts, LoopEndsCounts, QuietCounts DEF LinkStep
<1>2. CASE LoopStep \/ SnapshotStep \/ OrphanArrives
  BY <1>2, QuietCounts, SnapshotCounts DEF SnapshotStep
<1>3. CASE FinalStep
  BY <1>3, SealLastCounts, ManifestCounts, DigestCounts DEF FinalStep
<1>4. CASE Message
  BY <1>4, QuietCounts, MessageCounts
<1>5. CASE Tick \/ Crash \/ UNCHANGED vars
  BY <1>5, TickCounts, CrashCounts
<1> QED BY <1>1, <1>2, <1>3, <1>4, <1>5 DEF Next

LEMMA CountInit == Init => CountInv
<1> SUFFICES ASSUME Init PROVE CountInv
  OBVIOUS
<1>1. store = [writer |-> NoWriter, next |-> 0, metadata |-> FALSE, segments |-> {}, files |-> {},
               snapshots |-> {}, snapshotFiles |-> {}]
  BY DEF Init
<1>2. StoreSound(store)
  BY <1>1, FS_EmptySet DEF StoreSound
<1>3. Written(store) = 0
  <2>1. Listed({}) = 0
    BY SumOfNone DEF Listed, SumFunction
  <2> QED BY <1>1, <2>1 DEF Written
<1>4. CountsSound
  BY <1>2, <1>3 DEF CountsSound, Init
<1> QED BY <1>1, <1>4
        DEF CountInv, MetadataFirst, CompleteIsLong, ManifestSound, Init, Statuses, Awaiting, Ended

\* Records, counters and manifest are in step in every reachable state, also
\* after failed seals, lost appends and crashes.
THEOREM CountInvariance == Spec => []CountInv
<1>1. Init => CountInv
  BY CountInit
<1>2. TypeOK /\ CountInv /\ [Next]_vars => CountInv'
  BY CountStep
<1> QED BY <1>1, <1>2, CaptureTypes, PTL DEF Spec

\* What verify_capture_manifest accepts holds every record that was written,
\* and it accepts the manifest of every run that ends by itself on a sound disk.
THEOREM VerificationAlwaysExact == Spec => []VerificationExact
<1>1. ASSUME CountInv PROVE VerifiedIsExact
  <2> SUFFICES ASSUME Verifies PROVE manifest.total = appended
    BY DEF VerifiedIsExact
  <2>1. manifest # NoManifest /\ Listed(manifest.segments) = manifest.total
    BY DEF Verifies, Listed
  <2>2. manifest.segments = store.segments /\ store.writer = NoWriter
    BY <1>1, <2>1 DEF CountInv, ManifestSound
  <2>3. appended = Written(store) /\ StoreSound(store)
    BY <1>1 DEF CountInv, CountsSound
  <2>4. Listed(store.segments) \in Int
    BY <2>3, StoreFieldsOf, ListedIsInt
  <2> QED BY <2>1, <2>2, <2>3, <2>4 DEF Written
<1>2. ASSUME CountInv, SnapshotsListed PROVE FinishedRunVerifies
  <2> SUFFICES ASSUME pc = "done", faults = 0 PROVE Verifies
    BY DEF FinishedRunVerifies
  <2>1. /\ digest /\ manifest # NoManifest /\ store.writer = NoWriter
        /\ manifest.segments = store.segments /\ manifest.total = total
        /\ manifest.metadata = store.metadata
        /\ manifest.status = "complete" => manifest.duration >= Planned
    BY <1>2 DEF CountInv, ManifestSound
  <2>2. StoreSound(store) /\ appended = Written(store) /\ total = appended
    BY <1>2 DEF CountInv, CountsSound
  <2>3. manifest.segments \subseteq store.files
    BY <2>1, <2>2, StoreFieldsOf
  <2>4. manifest.snapshots \subseteq store.snapshotFiles
    BY <1>2, <2>1 DEF SnapshotsListed
  <2>5. Listed(store.segments) \in Int
    BY <2>2, StoreFieldsOf, ListedIsInt
  <2>6. SumFunction([f \in manifest.segments |-> f.records]) = manifest.total
    BY <2>1, <2>2, <2>5 DEF Written, Listed
  <2>7. manifest.segments # {} => manifest.metadata
    BY <1>2, <2>1 DEF CountInv, MetadataFirst
  <2> QED BY <2>1, <2>3, <2>4, <2>6, <2>7 DEF Verifies
<1>3. VerifiedIsExact /\ FinishedRunVerifies => VerificationExact
  BY DEF VerificationExact
<1> QED BY <1>1, <1>2, <1>3, CountInvariance, EverySnapshotListed, PTL
=============================================================================
