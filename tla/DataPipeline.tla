------------------------------ MODULE DataPipeline ------------------------------
(***************************************************************************)
(* From a capture to a replay: a collector records connections, messages   *)
(* and snapshots; when it is done, the capture is validated, canonicalised *)
(* and replayed.  Each stage reads the files of the one before and may     *)
(* refuse them.                                                            *)
(***************************************************************************)
EXTENDS HistoricalReplay

CONSTANTS
  Feed,            \* depth events that the exchange may send
  TradeIds,
  SnapshotIds,     \* identifiers at which a snapshot may be taken
  Outcomes,        \* origins and final statuses of a capture
  MaxConnections,  \* bound: connections of the capture
  MaxRecords,      \* bound: records of the capture
  MaxClock,        \* bound: the collector's clock
  MaxAnomalies,    \* bound: messages and connections that are out of the ordinary
  NoResult

ASSUME PipelineAssumption ==
  /\ Feed \subseteq Update
  /\ SnapshotIds \subseteq 0 .. LastId
  /\ Outcomes \subseteq {"live", "fixture"} \X {"complete", "pilot_incomplete"}
  /\ {MaxConnections, MaxRecords, MaxClock, MaxAnomalies} \subseteq Nat

VARIABLES clock, capture, report, dataset, replay
vars == <<clock, capture, report, dataset, replay>>

Init ==
  /\ clock = 0
  /\ capture = [records |-> << >>, connections |-> << >>, snapshots |-> {},
                origin |-> "live", status |-> "capturing"]
  /\ report = NoResult /\ dataset = NoResult /\ replay = NoResult

Capturing == capture.status = "capturing"
Current == Len(capture.connections)

\* Messages that are no market data or that come from the future, and
\* connections without their one snapshot.
Anomalies(of) ==
  Len(SelectSeq(of.records, LAMBDA r : ~r.intact \/ r.kind = "other" \/ r.event > r.received))
  + Cardinality({c \in DOMAIN of.connections :
                   Cardinality({s \in of.snapshots : s.connection = c}) # 1})

\* Time has passed since the last message when a connection begins.
Connect(snapshots) ==
  /\ Capturing /\ Current < MaxConnections /\ clock < MaxClock
  /\ clock' = IF Current = 0 THEN clock ELSE clock + 1
  /\ capture' = [capture EXCEPT
       !.connections = Append(@, [started |-> clock', messages |-> 0]),
       !.snapshots = @ \cup {[connection |-> Current + 1, last |-> last] : last \in snapshots}]
  /\ Anomalies(capture') <= MaxAnomalies
  /\ UNCHANGED <<report, dataset, replay>>

\* A message is stored as it is received.
Record(kind, data, event, intact) ==
  /\ Capturing /\ Current > 0 /\ Len(capture.records) < MaxRecords
  /\ \E time \in {clock, clock + 1} :
       /\ time <= MaxClock
       /\ clock' = time
       /\ capture' = [capture EXCEPT
            !.records = Append(@, [connection |-> Current,
                                   index |-> capture.connections[Current].messages,
                                   received |-> time, segmentDay |-> utc_day(time),
                                   event |-> event, kind |-> kind, data |-> data,
                                   intact |-> intact]),
            !.connections[Current].messages = @ + 1]
  /\ Anomalies(capture') <= MaxAnomalies
  /\ UNCHANGED <<report, dataset, replay>>

\* The exchange's time of a message, or that of one it sends again.
EventTimes(kind, data) ==
  {clock} \cup {r.event : r \in {r \in ToSet(capture.records) : r.kind = kind /\ r.data = data}}

ReceiveDepth ==
  \E u \in Feed : \E event \in EventTimes("depth", u) : Record("depth", u, event, TRUE)
ReceiveTrade ==
  \E id \in TradeIds : \E event \in EventTimes("trade", id) \cup {clock + 1} :
    Record("trade", id, event, TRUE)
ReceiveOther ==
  \/ Record("other", 0, clock, TRUE)
  \/ \E u \in Feed : Record("depth", u, clock, FALSE)

Validate ==
  /\ Capturing /\ Current > 0
  /\ \E outcome \in Outcomes :
       /\ capture' = [capture EXCEPT !.origin = outcome[1], !.status = outcome[2]]
       /\ report' = validate_capture_data(capture')
  /\ UNCHANGED <<clock, dataset, replay>>

Canonicalize ==
  /\ report # NoResult /\ dataset = NoResult
  /\ verify_data_validation_report(report)
  /\ \E tier \in {"sample", "processed"}, parquet \in BOOLEAN :
       dataset' = build_canonical_dataset(capture, report, tier, parquet)
  /\ UNCHANGED <<clock, capture, report, replay>>

Replay ==
  /\ dataset # NoResult /\ replay = NoResult
  /\ dataset.ok /\ verify_canonical_dataset(dataset)
  /\ \E requireResearch \in {RequireExact, FALSE} :
       replay' = build_historical_replay(dataset, requireResearch)
  /\ UNCHANGED <<clock, capture, report, dataset>>

Next ==
  \/ \E last \in SnapshotIds : Connect({last})
  \/ Connect({}) \/ Connect(SnapshotIds)
  \/ ReceiveDepth \/ ReceiveTrade \/ ReceiveOther
  \/ Validate \/ Canonicalize \/ Replay

Spec == Init /\ [][Next]_vars

-----------------------------------------------------------------------------
(* Properties.                                                             *)

Built == dataset # NoResult /\ dataset.ok
Replayed == replay # NoResult /\ replay.ok

\* A capture with a structurally valid day has lost no update on any of its
\* connections: between its one snapshot and the newest update it has seen,
\* every update is part of a recorded event.
ValidMeansContinuous ==
  (report # NoResult /\ \E d \in report : d.structural = "valid") =>
    \A c \in Recorded(capture) : \E last \in SnapshotIds :
      /\ {s.last : s \in {s \in capture.snapshots : s.connection = c}} = {last}
      /\ LET events == ToSet(DepthOf(capture, c)) IN
         \A u \in events : \A i \in (last + 1) .. u.final :
           \E v \in events : v.first <= i /\ i <= v.final

\* The canonical dataset accounts for every record of its days, each of them
\* once: as one row or as a repeat of a row, and no message becomes two rows.
DeduplicationExact ==
  Built =>
    LET kept == {row.record : row \in ToSet(dataset.rows)}
        raw == {r \in ToSet(capture.records) : utc_day(r.received) \in dataset.days}
    IN /\ raw = kept \cup ToSet(dataset.duplicates)
       /\ Len(dataset.rows) + Len(dataset.duplicates) = dataset.input
       /\ \A k, j \in DOMAIN dataset.rows : k # j =>
            NaturalKey(dataset.rows[k].record) # NaturalKey(dataset.rows[j].record)
       /\ \A r \in ToSet(dataset.duplicates) : \E q \in kept : SameDigest(q, r)

\* Fixed-point quantities are those of the exchange, with nothing rounded off.
UnitsExact ==
  Built =>
    /\ \A row \in ToSet(dataset.rows) : row.record.kind = "depth" =>
         \A l \in DOMAIN row.deltas :
           row.deltas[l] * Increment = Truth[row.record.data.final][l]
    /\ \A s \in dataset.snapshots, l \in Level : s.book[l] * Increment = Truth[s.last][l]

\* Canonicalisation neither loses nor invents a record or a quantity.
CanonicalExact == DeduplicationExact /\ UnitsExact

\* Research data comes only from days of a complete live capture that had no
\* critical issue, whatever the later stages are asked to build.
OnlyAdmittedIsResearch ==
  /\ Built /\ dataset.research =>
       /\ capture.origin = "live" /\ capture.status = "complete"
       /\ \A i \in Issues(capture) : i.severity = "critical" => i.day \notin dataset.days \cup {NoDay}
  /\ Replayed /\ replay.research => dataset.research

\* What the builders write, the verifiers accept.
BuiltVerifies ==
  /\ Built => verify_canonical_dataset(dataset)
  /\ Replayed => verify_historical_replay(replay)

\* An observation shows the exchange's book as of the last depth event that
\* has been delivered, and only trades of that event's connection.
ObservationsFaithful ==
  Replayed =>
    \A o \in ToSet(replay.observations) :
      \E k \in 1 .. o.delivered :
        /\ replay.events[k].kind = "depth"
        /\ \A j \in (k + 1) .. o.delivered : replay.events[j].kind = "trade"
        /\ \E row \in ToSet(dataset.rows) :
             /\ row.sequence = replay.events[k].sequence
             /\ \A l \in Level : o.book[l] * Increment = Truth[row.record.data.final][l]
        /\ \A e \in ToSet(o.trades) : e.connection = replay.events[k].connection
=============================================================================
