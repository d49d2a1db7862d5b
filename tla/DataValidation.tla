----------------------------- MODULE DataValidation -----------------------------
(***************************************************************************)
(* What the validator makes of a finished capture                          *)
(* (data_validation/validator.py): the issues of its records, connections  *)
(* and snapshots, and a decision for each UTC day.  One symbol; the issues *)
(* of several are independent.                                             *)
(*                                                                         *)
(* A record is a stored message: its connection and index there, when it   *)
(* was received, the day of its segment, the exchange's event time, and    *)
(* what it carries: a depth event, a trade id, or something else.  The     *)
(* payload of one that is not intact fails its hash or does not parse.     *)
(***************************************************************************)
EXTENDS DepthSynchronizer, SequencesExt

CONSTANTS
  DayLength,
  BoundaryTolerance,   \* boundary_tolerance_ns
  MinimumDepth,        \* minimum_depth_messages_per_symbol
  MinimumTrades,       \* minimum_trade_messages_per_symbol
  MaximumDelta         \* maximum_event_receive_delta_ns

\* The limits that the configuration accepts; its safeguards cannot be turned off.
load_data_validation_config ==
  /\ {DayLength, BoundaryTolerance, MinimumDepth, MinimumTrades, MaximumDelta} \subseteq Nat
  /\ DayLength > 0 /\ MinimumDepth > 0 /\ MinimumTrades > 0
ASSUME ValidationAssumption == load_data_validation_config

NoDay == -1     \* an issue that names no day
utc_day(time) == time \div DayLength

Critical(code, day) == [code |-> code, day |-> day, severity |-> "critical"]
Warning(code, day)  == [code |-> code, day |-> day, severity |-> "warning"]

\* The elements of a sequence at some of its positions, in their order.
ElementsAt(s, positions) ==
  LET part[k \in 0 .. Len(s)] ==
        IF k = 0 THEN << >>
        ELSE IF k \in positions THEN Append(part[k - 1], s[k]) ELSE part[k - 1]
  IN part[Len(s)]

-----------------------------------------------------------------------------
(* Records.                                                                *)

Distance(a, b) == IF a > b THEN a - b ELSE b - a

\* _validate_time_delta
time_delta_issues(r) ==
  IF Distance(r.received, r.event) > MaximumDelta
    THEN {Critical("event_receive_delta_excessive", utc_day(r.received))} ELSE {}

\* A trade whose id an earlier record of the capture already had.
Repeated(capture, k) ==
  \E j \in 1 .. (k - 1) : LET r == capture.records[j] IN
    r.intact /\ r.kind = "trade" /\ r.data = capture.records[k].data

RecordIssues(capture, k) ==
  LET r == capture.records[k]
      day == utc_day(r.received)
  IN (IF r.segmentDay # day THEN {Critical("segment_day_mismatch", day)} ELSE {})
     \cup
     IF ~r.intact THEN {Critical("record_invalid", day)}
     ELSE CASE r.kind = "other" -> {Critical("unexpected_event_type", day)}
            [] r.kind = "depth" -> time_delta_issues(r)
            [] OTHER            -> time_delta_issues(r) \cup
                 IF Repeated(capture, k) THEN {Warning("duplicate_trade_id", day)} ELSE {}

-----------------------------------------------------------------------------
(* Connections.                                                            *)

RecordsOf(capture, c) ==
  ElementsAt(capture.records,
             {k \in DOMAIN capture.records : capture.records[k].connection = c})
Recorded(capture) == {r.connection : r \in ToSet(capture.records)}

\* Index order is also the order of the records, as the collector writes them.
ConnectionIssues(capture, c) ==
  LET items == SetToSortSeq(ToSet(RecordsOf(capture, c)), LAMBDA a, b : a.index < b.index)
      Contiguous == \A k \in DOMAIN items : items[k].index = k - 1
      Reversed == \E k \in 1 .. (Len(items) - 1) : items[k].received > items[k + 1].received
  IN {Critical(code, NoDay) : code \in
        (IF Contiguous THEN {} ELSE {"message_index_discontinuity"}) \cup
        (IF Reversed THEN {"receive_utc_reversal", "receive_monotonic_reversal"} ELSE {}) \cup
        (IF capture.connections[c].messages = Len(RecordsOf(capture, c)) THEN {}
           ELSE {"connection_message_count_mismatch"})}

-----------------------------------------------------------------------------
(* Books: every depth event of a connection is buffered, and then its      *)
(* snapshot installed.                                                     *)

DepthOf(capture, c) ==
  LET records == RecordsOf(capture, c)
      depth == ElementsAt(records, {k \in DOMAIN records :
                                      records[k].intact /\ records[k].kind = "depth"})
  IN [k \in DOMAIN depth |-> depth[k].data]

\* One turn of install_snapshot's loop, which ends at an event that does not fit.
ApplyNext(acc, u) ==
  IF acc.result # "installed" THEN acc
  ELSE [sync |-> apply_update(acc.sync, u),
        result |-> IF Outcome(acc.sync, u) \in {"gap", "refused"}
                     THEN Outcome(acc.sync, u) ELSE "installed"]

\* install_snapshot with its loop: "installed", or why it stopped.
Installed(s, last) ==
  LET remaining == Remaining(s, last)
      applied[k \in 0 .. Len(remaining)] ==
        IF k = 0 THEN [sync |-> install_snapshot(s, last), result |-> "installed"]
        ELSE ApplyNext(applied[k - 1], remaining[k])
  IN IF Overlaps(s, last)
       THEN applied[Len(remaining)]
       ELSE [sync |-> reject_snapshot(s, last), result |-> "no_overlap"]

SnapshotIssues_bug(capture, c) ==
  LET snapshots == {s \in capture.snapshots : s.connection = c}
  IN IF snapshots = {} THEN {Critical("snapshot_missing", NoDay)} ELSE {}

SnapshotIssues(capture, c) ==
  LET snapshots == {s \in capture.snapshots : s.connection = c}
      last == (CHOOSE s \in snapshots : TRUE).last
      result == Installed([NewSynchronizer EXCEPT !.buffer = DepthOf(capture, c)], last).result
      codes == IF snapshots = {} THEN {"snapshot_missing"}
               ELSE IF Cardinality(snapshots) # 1 THEN {"snapshot_ambiguous"}
               ELSE CASE result = "installed" -> {}
                      [] result = "refused"   -> {"book_reconstruction_failed"}
                      [] OTHER -> {"snapshot_delta_no_overlap", "depth_not_synchronized"}
  IN {Critical(code, NoDay) : code \in codes}

Issues(capture) ==
  (UNION {RecordIssues(capture, k) : k \in DOMAIN capture.records}) \cup
  (UNION {ConnectionIssues(capture, c) \cup SnapshotIssues(capture, c) : c \in Recorded(capture)})

-----------------------------------------------------------------------------
(* Days.                                                                   *)

Days(capture) == {utc_day(r.received) : r \in ToSet(capture.records)}
OfDay(capture, day) == SelectSeq(capture.records, LAMBDA r : utc_day(r.received) = day)

\* Whether the day's records reach from one of its boundaries to the other.
Covered(capture, day) ==
  /\ \E r \in ToSet(OfDay(capture, day)) : r.received <= day * DayLength + BoundaryTolerance
  /\ \E r \in ToSet(OfDay(capture, day)) : r.received >= (day + 1) * DayLength - BoundaryTolerance

CountOf(capture, day, kind) ==
  Len(SelectSeq(OfDay(capture, day), LAMBDA r : r.intact /\ r.kind = kind))

Reasons(capture, day) ==
  (IF Covered(capture, day) THEN {} ELSE {"incomplete_utc_day_coverage"}) \cup
  (IF CountOf(capture, day, "depth") < MinimumDepth THEN {"insufficient_depth_messages"} ELSE {}) \cup
  (IF CountOf(capture, day, "trade") < MinimumTrades THEN {"insufficient_trade_messages"} ELSE {}) \cup
  (IF \E i \in Issues(capture) : i.severity = "critical" /\ i.day \in {NoDay, day}
     THEN {"critical_validation_issue"} ELSE {})

AdmissionReasons(capture) ==
  (IF capture.origin # "live" THEN {"non_live_fixture_origin"} ELSE {}) \cup
  (IF capture.status # "complete" THEN {"capture_not_complete"} ELSE {}) \cup
  (IF capture.origin = "live" /\ capture.status = "complete" THEN {}
     ELSE {"live_72h_pilot_not_complete"})

Decision(capture, day) ==
  LET reasons == Reasons(capture, day) IN
  [day |-> day,
   structural |-> IF reasons = {} THEN "valid" ELSE "invalid",
   reasons |-> reasons \cup AdmissionReasons(capture),
   admission |->
     IF reasons # {} THEN "quarantined"
     ELSE IF AdmissionReasons(capture) = {} THEN "admitted"
     ELSE IF capture.origin = "fixture" THEN "fixture_valid_not_admissible"
     ELSE "not_admissible"]

\* validate_capture_data, of a capture that verifies.
validate_capture_data(capture) == {Decision(capture, day) : day \in Days(capture)}

\* verify_data_validation_report
verify_data_validation_report(report) ==
  \A d \in report : d.admission = "admitted" => d.structural = "valid" /\ d.reasons = {}
=============================================================================
