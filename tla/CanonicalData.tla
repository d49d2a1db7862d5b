------------------------------ MODULE CanonicalData ------------------------------
(***************************************************************************)
(* The canonical dataset that is built from a validated capture            *)
(* (canonical_data/builder.py): the records of the selected days, without  *)
(* repeats, as rows with exact fixed-point quantities, and the snapshots   *)
(* of the connections that began on those days.                            *)
(***************************************************************************)
EXTENDS DataValidation

CONSTANT Increment    \* smallest quantity of the instrument

\* _positive_increment
positive_increment ==
  Increment \in Nat \ {0}
ASSUME CanonicalAssumption == positive_increment

Refused(why) == [ok |-> FALSE, why |-> why]

\* _selected_days: what the report lets into a tier.
SelectedDays_bug(report, tier) ==
  {d.day : d \in {d \in report : d.structural = "valid"}}
SelectedDays(report, tier) ==
  {d.day : d \in {d \in report :
     IF tier = "processed" THEN d.admission = "admitted"
     ELSE d.structural = "valid" /\ d.admission = "fixture_valid_not_admissible"}}

Classification(tier) ==
  IF tier = "processed" THEN "research_processed" ELSE "sample_only_non_research"

\* _raw_records: the segments of the selected days, in order.
raw_records(capture, days) ==
  ElementsAt(capture.records,
             {k \in DOMAIN capture.records : capture.records[k].segmentDay \in days})

-----------------------------------------------------------------------------
(* _deduplicate.  Two records have one natural key if they carry the same  *)
(* trade id or depth range, and one digest if they are the same message.   *)

NaturalKey(r) == <<r.kind, r.data>>
SameDigest(a, b) == NaturalKey(a) = NaturalKey(b) /\ a.event = b.event

\* What becomes of the next record.
Keep(acc, r) ==
  LET earlier == {q \in ToSet(acc.unique) : NaturalKey(q) = NaturalKey(r)}
  IN IF ~acc.ok THEN acc
     ELSE IF r.kind = "other" THEN [acc EXCEPT !.ok = FALSE]
     ELSE IF earlier = {} THEN [acc EXCEPT !.unique = Append(@, r)]
     ELSE IF \E q \in earlier : SameDigest(q, r) THEN [acc EXCEPT !.duplicates = Append(@, r)]
     ELSE [acc EXCEPT !.ok = FALSE]

deduplicate_bug(records) ==
  [ok |-> TRUE, unique |-> records, duplicates |-> << >>]

deduplicate(records) ==
  LET kept[k \in 0 .. Len(records)] ==
        IF k = 0 THEN [ok |-> TRUE, unique |-> << >>, duplicates |-> << >>]
        ELSE Keep(kept[k - 1], records[k])
  IN kept[Len(records)]

-----------------------------------------------------------------------------
(* Rows.                                                                   *)

\* decimal_to_units: an exact multiple of the increment, or an error.
Exact(quantity) == quantity % Increment = 0

decimal_to_units(quantity) == quantity \div Increment

\* _build_rows: per message its source record, and its levels or its trade.
build_rows(unique) ==
  [k \in DOMAIN unique |->
     [record |-> unique[k], sequence |-> k - 1,
      deltas |-> IF unique[k].kind = "depth"
                   THEN [l \in DOMAIN Changes(unique[k].data) |->
                           decimal_to_units(Changes(unique[k].data)[l])]
                   ELSE << >>]]

RowsExact(unique) ==
  \A r \in ToSet(unique) : r.kind = "depth" =>
    \A l \in DOMAIN Changes(r.data) : Exact(Changes(r.data)[l])

\* _snapshot_rows: snapshots of connections that began on a selected day.
snapshot_rows(capture, days) ==
  {s \in capture.snapshots : utc_day(capture.connections[s.connection].started) \in days}

SnapshotsExact(snapshots) ==
  \A s \in snapshots, l \in Level : Exact(Truth[s.last][l])

\* build_canonical_dataset; a processed dataset needs the Parquet engine.
build_canonical_dataset(capture, report, tier, parquetAvailable) ==
  LET days == SelectedDays(report, tier)
      raw == raw_records(capture, days)
      kept == deduplicate(raw)
      snapshots == snapshot_rows(capture, days)
  IN IF days = {} THEN Refused("no_selected_day")
     ELSE IF tier = "sample" /\ capture.origin # "fixture" THEN Refused("sample_is_for_the_fixture")
     ELSE IF ~kept.ok THEN Refused("conflicting_duplicate")
     ELSE IF ~RowsExact(kept.unique) \/ ~SnapshotsExact(snapshots) THEN Refused("inexact")
     ELSE IF tier = "processed" /\ ~parquetAvailable THEN Refused("no_parquet")
     ELSE [ok |-> TRUE, classification |-> Classification(tier),
           research |-> Classification(tier) = "research_processed",
           days |-> days, input |-> Len(raw), unique |-> Len(kept.unique),
           dropped |-> Len(kept.duplicates), rows |-> build_rows(kept.unique),
           duplicates |-> kept.duplicates, starts |-> capture.connections,
           snapshots |-> {[connection |-> s.connection, last |-> s.last,
                           book |-> [l \in Level |-> decimal_to_units(Truth[s.last][l])]] :
                          s \in snapshots},
           parquet |-> tier = "processed"]

\* verify_canonical_dataset: the tables are as long as the manifest says, and
\* what the dataset may be used for fits its class and format.
verify_canonical_dataset(dataset) ==
  /\ Len(dataset.rows) = dataset.unique /\ Len(dataset.duplicates) = dataset.dropped
  /\ \/ dataset.classification = "sample_only_non_research" /\ ~dataset.research
     \/ dataset.classification = "research_processed" /\ dataset.research /\ dataset.parquet
=============================================================================
