---------------------------- MODULE HistoricalReplay ----------------------------
(***************************************************************************)
(* The replay that is built from a canonical dataset                       *)
(* (historical_replay/builder.py): per connection a reset, its snapshot at *)
(* the first depth event that bridges it, and its messages; all of them    *)
(* sorted by the time they are available, and played into one book.        *)
(***************************************************************************)
EXTENDS CanonicalData

CONSTANTS
  Delay,           \* observation_processing_delay_ns
  RecentTrades,    \* maximum_recent_trades
  RequireExact     \* require_exact_snapshot_fetch_time_for_research

\* The configurations that are accepted, of the settings that are modelled.
load_historical_replay_config ==
  Delay \in Nat /\ RecentTrades \in Nat \ {0} /\ RequireExact \in BOOLEAN
ASSUME ReplayAssumption == load_historical_replay_config

-----------------------------------------------------------------------------
(* Staging.                                                                *)

HasLevels(row) == row.record.kind = "depth" /\ DOMAIN row.deltas # {}

\* Of some rows, the first and the last.
FirstOf(rows) == CHOOSE r \in rows : \A q \in rows : r.sequence <= q.sequence
LastOf(rows)  == CHOOSE r \in rows : \A q \in rows : q.sequence <= r.sequence

\* The connections with messages, and what was received on one of them.
ConnectionItems(dataset) == {row.record.connection : row \in ToSet(dataset.rows)}
MessagesOf(dataset, c) == {row \in ToSet(dataset.rows) : row.record.connection = c}

\* In the order of their starts, connection b is the one before c.
Precedes(dataset, b, c) ==
  /\ dataset.starts[b].started < dataset.starts[c].started
  /\ ~\E d \in ConnectionItems(dataset) :
       /\ dataset.starts[b].started < dataset.starts[d].started
       /\ dataset.starts[d].started < dataset.starts[c].started

\* The depth messages that continue the snapshot; the first is its bridge.
Bridges(messages, last) ==
  {row \in messages :
     /\ HasLevels(row)
     /\ row.record.data.first <= last + 1
     /\ last + 1 <= row.record.data.final}

\* No depth message of the connection, before its bridge or after, may repeat
\* or skip an update.
Continuous(messages, last) ==
  LET Earlier(row) == {q \in messages : HasLevels(q) /\ q.sequence < row.sequence}
      Before(row) == IF Earlier(row) = {} THEN last ELSE LastOf(Earlier(row)).record.data.final
  IN \A row \in messages : HasLevels(row) =>
       /\ row.record.data.final > Before(row)
       /\ row.record.data.first <= Before(row) + 1

SnapshotOf(dataset, c) == CHOOSE s \in dataset.snapshots : s.connection = c

\* What makes a connection unfit for the replay.
Unfit(dataset, c) ==
  LET messages == MessagesOf(dataset, c) IN
  \/ ~\E s \in dataset.snapshots : s.connection = c
  \/ \E s, t \in dataset.snapshots : s.connection = c /\ t.connection = c /\ s # t
  \/ \E b \in ConnectionItems(dataset) :
       /\ Precedes(dataset, b, c)
       /\ \E row \in MessagesOf(dataset, b) : dataset.starts[c].started < row.record.received
  \/ Bridges(messages, SnapshotOf(dataset, c).last) = {}
  \/ ~Continuous(messages, SnapshotOf(dataset, c).last)
  \/ \E row \in messages : row.record.kind = "depth" /\ ~HasLevels(row)

Priority ==
  [kind \in {"reset", "snapshot", "depth", "trade"} |->
     CASE kind = "reset" -> -1 [] kind = "snapshot" -> 0 [] kind = "depth" -> 1 [] OTHER -> 2]

Staged(kind, c, event, receive, available, sequence, payload) ==
  [kind |-> kind, connection |-> c, event |-> event, receive |-> receive,
   available |-> available, sequence |-> sequence, payload |-> payload]

\* The staged events of a connection; which trade it is, is its sequence.
StagedOf(dataset, c) ==
  LET messages == MessagesOf(dataset, c)
      start == dataset.starts[c].started
      snapshot == SnapshotOf(dataset, c)
      bridge == FirstOf(Bridges(messages, snapshot.last))
      FromMessage(row) ==
        Staged(row.record.kind, c, row.record.event, row.record.received,
               row.record.received + Delay, row.sequence,
               IF row.record.kind = "depth" THEN row.deltas ELSE << >>)
  IN {Staged("reset", c, start, start, start, FirstOf(messages).sequence, << >>),
      Staged("snapshot", c, start, bridge.record.received,
             bridge.record.received + Delay, bridge.sequence, snapshot.book)}
     \cup {FromMessage(row) : row \in messages}

\* Whether a comes before b in the replay.
KeyBefore(a, b) ==
  \/ a.available < b.available
  \/ a.available = b.available /\ Priority[a.kind] < Priority[b.kind]
  \/ a.available = b.available /\ Priority[a.kind] = Priority[b.kind] /\ a.sequence < b.sequence

\* The staged events in the order of the replay; no two of them have one key.
InOrder_bug(staged) ==
  LET Before(e) == {d \in staged :
                      \/ d.sequence < e.sequence
                      \/ d.sequence = e.sequence /\ Priority[d.kind] < Priority[e.kind]}
  IN [k \in 1 .. Cardinality(staged) |-> CHOOSE e \in staged : Cardinality(Before(e)) = k - 1]
InOrder(staged) ==
  LET Before(e) == {d \in staged : KeyBefore(d, e)}
  IN [k \in 1 .. Cardinality(staged) |-> CHOOSE e \in staged : Cardinality(Before(e)) = k - 1]

-----------------------------------------------------------------------------
(* _materialize_symbol_events: one step per event.                         *)

NoLevels == [l \in Level |-> 0]
EmptyReplay ==
  [ok |-> TRUE, why |-> "", book |-> NoLevels, recent |-> << >>, synchronized |-> FALSE,
   maximumEvent |-> 0, maximumAvailable |-> 0, events |-> << >>, observations |-> << >>]

Side(book, side) == {p \in Prices : book[<<side, p>>] > 0}
Unquotable(book) ==
  \/ Side(book, "bid") = {} \/ Side(book, "ask") = {}
  \/ \E p \in Side(book, "bid"), q \in Side(book, "ask") : p >= q

LargerOf(a, b) == IF a > b THEN a ELSE b

\* The book, the trades and the readiness after an event.
Deliver_bug(r, e) ==
  CASE e.kind = "snapshot" -> [r EXCEPT !.book = e.payload, !.synchronized = TRUE]
    [] e.kind = "depth"    -> [r EXCEPT !.book = [l \in Level |-> IF l \in DOMAIN e.payload
                                                    THEN e.payload[l] ELSE @[l]],
                                        !.synchronized = TRUE]
    [] OTHER -> r

Deliver(r, e) ==
  CASE e.kind = "snapshot" -> [r EXCEPT !.book = e.payload, !.synchronized = FALSE]
    [] e.kind = "depth"    -> [r EXCEPT !.book = [l \in Level |-> IF l \in DOMAIN e.payload
                                                    THEN e.payload[l] ELSE @[l]],
                                        !.synchronized = TRUE]
    [] OTHER ->
         LET trades == Append(r.recent, e)
         IN [r EXCEPT !.recent = SubSeq(trades, LargerOf(1, Len(trades) - RecentTrades + 1), Len(trades))]

Observation(r, e) ==
  [decision |-> e.available, maximumEvent |-> r.maximumEvent,
   maximumAvailable |-> r.maximumAvailable, delivered |-> Len(r.events),
   book |-> r.book, trades |-> r.recent]

PlayEvent(r, e) ==
  LET next == [Deliver(r, e) EXCEPT
                 !.maximumEvent = LargerOf(@, e.event),
                 !.maximumAvailable = LargerOf(@, e.available),
                 !.events = Append(@, e)]
  IN IF ~r.ok THEN r
     ELSE IF e.kind = "reset"
       THEN [r EXCEPT !.book = NoLevels, !.recent = << >>, !.synchronized = FALSE]
     ELSE IF e.event > e.receive \/ e.receive > e.available
       THEN [r EXCEPT !.ok = FALSE, !.why = "not_causal"]
     ELSE IF ~next.synchronized THEN next
     ELSE IF Unquotable(next.book) THEN [r EXCEPT !.ok = FALSE, !.why = "unquotable"]
     ELSE [next EXCEPT !.observations = Append(@, Observation(next, e))]

\* build_historical_replay; requireResearch is require_research_admissible_input.
build_historical_replay(dataset, requireResearch) ==
  LET sample == dataset.classification = "sample_only_non_research"
      order == InOrder(UNION {StagedOf(dataset, c) : c \in ConnectionItems(dataset)})
      played[k \in 0 .. Len(order)] ==
        IF k = 0 THEN EmptyReplay ELSE PlayEvent(played[k - 1], order[k])
      outcome == played[Len(order)]
  IN IF requireResearch /\ ~dataset.research THEN Refused("not_research")
     ELSE IF ~sample /\ RequireExact THEN Refused("inexact_snapshot_time")
     ELSE IF \E c \in ConnectionItems(dataset) : Unfit(dataset, c) THEN Refused("unfit")
     ELSE IF ~outcome.ok THEN Refused(outcome.why)
     ELSE [ok |-> TRUE, research |-> dataset.research /\ ~sample,
           classification |-> dataset.classification,
           events |-> outcome.events, observations |-> outcome.observations]

-----------------------------------------------------------------------------
\* verify_historical_replay: causal times, the order of the events, and what
\* an observation may know.
verify_historical_replay(replay) ==
  /\ \A e \in ToSet(replay.events) : e.event <= e.receive /\ e.receive <= e.available
  /\ \A k \in 1 .. (Len(replay.events) - 1) : ~KeyBefore(replay.events[k + 1], replay.events[k])
  /\ \A o \in ToSet(replay.observations) :
       o.maximumEvent <= o.maximumAvailable /\ o.maximumAvailable <= o.decision /\ ~Unquotable(o.book)
  /\ replay.classification = "sample_only_non_research" => ~replay.research
=============================================================================
