----------------------------- MODULE PredictionData -----------------------------
(***************************************************************************)
(* Features and labels of the prediction task (prediction/builder.py): for *)
(* a decision, the features are computed from the events that were known   *)
(* at that time, and the label from those that followed.                   *)
(*                                                                         *)
(* One instrument.  A book maps levels <<side, price>> to lots, zero where *)
(* there is no level; an event's place in the stream is its sequence.      *)
(***************************************************************************)
EXTENDS Integers, Sequences, FiniteSets, FiniteSetsExt, Functions

CONSTANTS
  ObservationLatency,  \* observation_latency_ns
  Windows,             \* feature_windows_ns, increasing
  Horizons,            \* candidate_horizons_ns, increasing
  TopLevels,           \* top_levels
  Prices,
  Snapshots,           \* books that the source sends as snapshots
  Changes,             \* level updates of depth events: levels to lots
  Trades,              \* prices, lots and aggressors of trades
  Times, Delays,       \* of events, and until they are available
  MaxEvents,
  DecisionTimes,
  CoverageEnd          \* coverage_end_ns

\* The feature configurations that are accepted, with scaled times.
load_prediction_feature_config ==
  /\ ObservationLatency \in Nat \ {0} /\ TopLevels \in Nat \ {0}
  /\ \A times \in {Windows, Horizons} :
       /\ times # << >> /\ times \in Seq(Nat \ {0})
       /\ \A i, j \in DOMAIN times : i < j => times[i] < times[j]
ASSUME PredictionAssumption == load_prediction_feature_config

VARIABLES
  stream,    \* the events, in the order of their times
  dataset    \* what the last build wrote
predictionVars == <<stream, dataset>>

PassiveSides == {"bid", "ask"}
OtherSide(side) == IF side = "bid" THEN "ask" ELSE "bid"
SideSign(side) == IF side = "bid" THEN 1 ELSE -1
Refused == [status |-> "refused", rows |-> {}]
NoDataset == [status |-> "none", rows |-> {}]

\* PredictionMarketEvent.validate, of every event that the source may send.
validate ==
  /\ IsFiniteSet(Prices) /\ Prices \subseteq Nat \ {0}
  /\ Snapshots \subseteq [PassiveSides \X Prices -> Nat]
  /\ \A book \in Snapshots, side \in PassiveSides : \E p \in Prices : book[<<side, p>>] > 0
  /\ \A levels \in Changes :
       /\ DOMAIN levels # {} /\ DOMAIN levels \subseteq PassiveSides \X Prices
       /\ levels \in [DOMAIN levels -> Nat]
  /\ \A t \in Trades : t.price \in Nat \ {0} /\ t.lots \in Nat \ {0} /\ t.maker \in BOOLEAN
  /\ Times \cup Delays \cup DecisionTimes \cup {CoverageEnd} \subseteq Nat
ASSUME MarketAssumption == validate

-----------------------------------------------------------------------------
(* Books.                                                                  *)

EmptyBook == [level \in PassiveSides \X Prices |-> 0]

Quoted(book, side) == {p \in Prices : book[<<side, p>>] > 0}
BestOf(book, side) == IF side = "bid" THEN Max(Quoted(book, side)) ELSE Min(Quoted(book, side))
Mid2(book) == BestOf(book, "bid") + BestOf(book, "ask")
SpreadOf(book) == BestOf(book, "ask") - BestOf(book, "bid")

\* _validate_book
Standing(book) ==
  /\ Quoted(book, "bid") # {} /\ Quoted(book, "ask") # {}
  /\ BestOf(book, "bid") < BestOf(book, "ask")

\* p2 is the worse of two prices of a side.
Behind(side, p1, p2) == IF side = "bid" THEN p2 < p1 ELSE p2 > p1

\* Lots on the n best levels of a side.
TopLots(book, side, n) ==
  SumFunctionOnSet([p \in Prices |-> book[<<side, p>>]],
    {p \in Quoted(book, side) : Cardinality({q \in Quoted(book, side) : Behind(side, q, p)}) < n})

\* _apply_event
apply_event(event, book) ==
  CASE event.kind = "snapshot" -> event.book
    [] event.kind = "depth"    -> [level \in DOMAIN book |->
                                     IF level \in DOMAIN event.levels THEN event.levels[level]
                                     ELSE book[level]]
    [] event.kind = "trade"    -> book

\* The book after each of a sequence of events.
BooksOf(events) ==
  LET after[k \in 0 .. Len(events)] ==
        IF k = 0 THEN EmptyBook ELSE apply_event(events[k], after[k - 1])
  IN after

BookEvents(events) == {k \in DOMAIN events : events[k].kind # "trade"}
Replayable(events) == \A k \in BookEvents(events) : Standing(BooksOf(events)[k])

-----------------------------------------------------------------------------
(* Features.                                                               *)

Cutoff(point) == point.time - ObservationLatency

\* The events at some places, in their order.
Kept(events, places) ==
  [n \in 1 .. Cardinality(places) |->
     events[CHOOSE k \in places : Cardinality({j \in places : j < k}) = n - 1]]

\* What the decision could know.
Known(events, point) ==
  {k \in DOMAIN events : events[k].time <= Cutoff(point) /\ events[k].available <= point.time}
Eligible(events, point) == Kept(events, Known(events, point))

\* A snapshot starts the history anew.
SinceSnapshot(events) ==
  LET starts == {k \in DOMAIN events : events[k].kind = "snapshot"}
  IN IF starts = {} THEN events ELSE SubSeq(events, Max(starts), Len(events))

\* _past_summary: the last book event up to a time, or else the first.
PastOf(used, start) ==
  LET before == {k \in BookEvents(used) : used[k].time <= start}
  IN IF before = {} THEN Min(BookEvents(used)) ELSE Max(before)

\* The book event before another.
PreviousOf(used, k) ==
  LET before == {j \in BookEvents(used) : j < k} IN IF before = {} THEN k ELSE Max(before)

\* _window_trades: left-open, right-closed.
TradesIn(used, start, end) ==
  {k \in DOMAIN used : used[k].kind = "trade" /\ start < used[k].time /\ used[k].time <= end}

\* _toward_quote_flow
TowardQuote(used, trades, side) ==
  SumFunctionOnSet(
    [k \in trades |-> IF used[k].maker = (side = "bid") THEN used[k].lots ELSE -used[k].lots],
    trades)

AbsoluteOf(n) == IF n < 0 THEN -n ELSE n

\* _trunc_ratio rounds towards zero.
trunc_ratio(numerator, denominator) ==
  (IF numerator < 0 THEN -1 ELSE 1) * (AbsoluteOf(numerator) \div denominator)

Imbalance(book, side, n) ==
  LET same == TopLots(book, side, n)
      opposite == TopLots(book, OtherSide(side), n)
  IN trunc_ratio(10000 * (same - opposite), same + opposite)

\* realized_abs_mid_move: the path of the mid within a window.
RealizedMove(used, start) ==
  SumFunctionOnSet(
    [k \in BookEvents(used) |->
       AbsoluteOf(Mid2(BooksOf(used)[k]) - Mid2(BooksOf(used)[PreviousOf(used, k)]))],
    {k \in BookEvents(used) : start < used[k].time})

\* _summary carries the time since which the best price has been what it is.
QuoteSince(used, side) ==
  LET best == BestOf(BooksOf(used)[Len(used)], side)
  IN used[Min({k \in BookEvents(used) :
                 \A j \in BookEvents(used) : j >= k => BestOf(BooksOf(used)[j], side) = best})].time

MaxWindow == Windows[Len(Windows)]

\* The conditions of _feature_row.
HasHistory(used, cutoff) ==
  /\ Replayable(used) /\ BookEvents(used) # {}
  /\ used[Min(BookEvents(used))].time <= cutoff - MaxWindow

\* The features proper, of a book and the events that led to it.
Features(used, side, cutoff) ==
  LET book == BooksOf(used)[Len(used)]
      Then(i) == BooksOf(used)[PastOf(used, cutoff - Windows[i])]
      traded(i) == TradesIn(used, cutoff - Windows[i], cutoff)
      trades == {used[k].time : k \in {j \in DOMAIN used : used[j].kind = "trade"}}
  IN [spread |-> SpreadOf(book),
      same_top |-> <<TopLots(book, side, 1), TopLots(book, side, TopLevels)>>,
      opposite_top |-> <<TopLots(book, OtherSide(side), 1),
                         TopLots(book, OtherSide(side), TopLevels)>>,
      imbalance |-> <<Imbalance(book, side, 1), Imbalance(book, side, TopLevels)>>,
      flow |-> [i \in DOMAIN Windows |-> TowardQuote(used, traded(i), side)],
      move |-> [i \in DOMAIN Windows |-> SideSign(side) * (Mid2(book) - Mid2(Then(i)))],
      count |-> [i \in DOMAIN Windows |-> Cardinality(traded(i))],
      realized |-> [i \in DOMAIN Windows |-> RealizedMove(used, cutoff - Windows[i])],
      spread_change |-> [i \in DOMAIN Windows |-> SpreadOf(book) - SpreadOf(Then(i))],
      quote_age |-> cutoff - QuoteSince(used, side),
      trade_age |-> IF trades = {} THEN MaxWindow + 1 ELSE cutoff - Max(trades)]

\* _feature_row
feature_row(events, point) ==
  LET eligible == Eligible(events, point)
      used == SinceSnapshot(eligible)
      book == BooksOf(used)[Len(used)]
  IN [point |-> point, cutoff |-> Cutoff(point),
      best |-> [side \in PassiveSides |-> BestOf(book, side)], mid |-> Mid2(book),
      maximum_event |-> Max({eligible[k].time : k \in DOMAIN eligible}),
      maximum_available |-> Max({used[k].available : k \in DOMAIN used}),
      source_event_count |-> Len(used),
      features |-> Features(used, point.side, Cutoff(point))]

-----------------------------------------------------------------------------
(* Labels.                                                                 *)

MaxHorizon == Horizons[Len(Horizons)]

UpTo(events, time) == Kept(events, {k \in DOMAIN events : events[k].time <= time})
Following(events, row) ==
  {k \in DOMAIN events : row.cutoff < events[k].time /\ events[k].time <= row.cutoff + MaxHorizon}

\* The event takes the quote, or shows that it has gone.
Depletes(events, k, side, quote) ==
  IF events[k].kind = "trade" THEN Behind(side, quote, events[k].price)
  ELSE LET book == BooksOf(events)[k]
       IN book[<<side, quote>>] = 0 \/ Behind(side, quote, BestOf(book, side))

\* The conditions of _future_label.
HasFuture(events, row) ==
  /\ CoverageEnd >= row.cutoff + MaxHorizon
  /\ Replayable(UpTo(events, row.cutoff + MaxHorizon))
  /\ \A k \in Following(events, row) : events[k].kind # "snapshot"

MidAt_bug(events, time) ==
  LET known == Kept(events, {k \in DOMAIN events : events[k].time < time}) IN Mid2(BooksOf(known)[Len(known)])

\* The mid once every event up to a time has been applied.
MidAt(events, time) ==
  LET known == UpTo(events, time) IN Mid2(BooksOf(known)[Len(known)])

\* _future_label
future_label(events, row) ==
  LET side == row.point.side
      depleting == {k \in Following(events, row) : Depletes(events, k, side, row.best[side])}
      time == IF depleting = {} THEN -1 ELSE events[Min(depleting)].time
  IN [depletion_time |-> time,
      depleted |-> [i \in DOMAIN Horizons |-> time # -1 /\ time <= row.cutoff + Horizons[i]],
      adverse |-> [i \in DOMAIN Horizons |->
                     SideSign(side) * (row.mid - MidAt(events, row.cutoff + Horizons[i]))]]

-----------------------------------------------------------------------------
(* The build.                                                              *)

Accepts_bug(events) ==
  \A k \in 1 .. Len(events) - 1 : events[k].time <= events[k + 1].time

\* The order that build_feature_label_rows asks of an event stream.
Accepts(events) ==
  /\ events # << >>
  /\ \A k \in 1 .. Len(events) - 1 :
       events[k].time <= events[k + 1].time /\ events[k].available <= events[k + 1].available

\* _feature_row and _future_label raise for a point.
Buildable(events, point) ==
  /\ point.time > ObservationLatency
  /\ Replayable(Eligible(events, point))
  /\ HasHistory(SinceSnapshot(Eligible(events, point)), Cutoff(point))
  /\ HasFuture(events, feature_row(events, point))

\* build_feature_label_rows: every decision gets its row, or there are none.
build_feature_label_rows(events, decisions) ==
  IF Accepts(events) /\ \A point \in decisions : Buildable(events, point)
    THEN [status |-> "written",
          rows |-> {[feature |-> feature_row(events, point),
                     label |-> future_label(events, feature_row(events, point))] :
                      point \in decisions}]
    ELSE Refused

\* verify_prediction_dataset, of a dataset of a number of decisions.
verify_prediction_dataset(rows, count) ==
  /\ Cardinality(rows) = count
  /\ \A r \in rows :
       /\ r.feature.maximum_event <= r.feature.cutoff
       /\ r.feature.maximum_available <= r.feature.point.time
       /\ r.feature.cutoff < CoverageEnd

PredictionInit == stream = << >> /\ dataset = NoDataset

\* The source's next event.
Emit ==
  /\ Len(stream) < MaxEvents /\ dataset = NoDataset
  /\ \E time \in Times, delay \in Delays :
       /\ stream # << >> => time >= stream[Len(stream)].time
       /\ \/ \E book \in Snapshots :
               stream' = Append(stream, [kind |-> "snapshot", book |-> book,
                                         time |-> time, available |-> time + delay])
          \/ \E levels \in Changes :
               stream' = Append(stream, [kind |-> "depth", levels |-> levels,
                                         time |-> time, available |-> time + delay])
          \/ \E trade \in Trades :
               stream' = Append(stream, [kind |-> "trade", price |-> trade.price,
                                         lots |-> trade.lots, maker |-> trade.maker,
                                         time |-> time, available |-> time + delay])
  /\ UNCHANGED dataset

\* write_prediction_fixture: each checkpoint is a decision on either side.
Build ==
  /\ dataset = NoDataset
  /\ \E time \in DecisionTimes :
       dataset' = build_feature_label_rows(stream, {[time |-> time, side |-> side] : side \in PassiveSides})
  /\ UNCHANGED stream

PredictionNext == Emit \/ Build
PredictionSpec == PredictionInit /\ [][PredictionNext]_predictionVars

-----------------------------------------------------------------------------
(* Properties.                                                             *)

\* The lots on a level at a time, by its last writer.
LotsAt(level, time) ==
  LET writers == {k \in DOMAIN stream :
                    /\ stream[k].time <= time
                    /\ \/ stream[k].kind = "snapshot"
                       \/ stream[k].kind = "depth" /\ level \in DOMAIN stream[k].levels}
  IN IF writers = {} THEN 0
     ELSE LET e == stream[Max(writers)]
          IN IF e.kind = "snapshot" THEN e.book[level] ELSE e.levels[level]

BookAt(time) == [level \in PassiveSides \X Prices |-> LotsAt(level, time)]

\* Everything that had happened by the cutoff was known at the decision.
InTime(row) ==
  \A k \in DOMAIN stream : stream[k].time <= row.cutoff => stream[k].available <= row.point.time

\* Features are those of a market the decision saw: no event behind them is
\* newer than the decision allows, none before them is left out, and the book
\* they describe did stand.
FeaturesCausal ==
  \A r \in dataset.rows :
    LET n == Cardinality({k \in DOMAIN stream : /\ stream[k].time <= r.feature.cutoff
                                                /\ stream[k].available <= r.feature.point.time})
        book == BooksOf(stream)[n]
    IN /\ \A k \in 1 .. n : stream[k].available <= r.feature.point.time
       /\ \A side \in PassiveSides : r.feature.best[side] = BestOf(book, side)
       /\ r.feature.mid = Mid2(book)
       /\ verify_prediction_dataset(dataset.rows, 2)

\* A label says what the documented target says of the market after the
\* cutoff: the quote that stood then is traded through, or some later book of
\* the horizon lacks it or is worse; the mid is that at the horizon's end.
LabelsMeetTarget ==
  \A r \in dataset.rows : InTime(r.feature) =>
    LET cutoff == r.feature.cutoff
        side == r.feature.point.side
        quote == BestOf(BookAt(cutoff), side)
        Lost(k) == IF stream[k].kind = "trade" THEN Behind(side, quote, stream[k].price)
                   ELSE BestOf(BooksOf(stream)[k], side) # quote
                        /\ (BooksOf(stream)[k][<<side, quote>>] = 0
                            \/ Behind(side, quote, BestOf(BooksOf(stream)[k], side)))
    IN \A i \in DOMAIN Horizons :
         /\ r.label.depleted[i] <=>
              \E k \in DOMAIN stream :
                cutoff < stream[k].time /\ stream[k].time <= cutoff + Horizons[i] /\ Lost(k)
         /\ r.label.adverse[i] = SideSign(side) * (Mid2(BookAt(cutoff)) - Mid2(BookAt(cutoff + Horizons[i])))

\* The market of a row is one piece: no reset that the decision knew of lies in
\* its longest window, and none at all in its longest horizon.
NoResetInside ==
  \A r \in dataset.rows : \A k \in DOMAIN stream :
    stream[k].kind = "snapshot" =>
      LET time == stream[k].time IN
      /\ time <= r.feature.cutoff \/ r.feature.cutoff + MaxHorizon < time
      /\ (stream[k].available <= r.feature.point.time /\ time <= r.feature.cutoff) =>
           time <= r.feature.cutoff - MaxWindow

\* The features of a row describe one path of the mid: a move is never longer
\* than the way that led to it, and longer windows see no less.
OnePath ==
  \A r \in dataset.rows :
    LET f == r.feature.features
    IN /\ \A i \in DOMAIN Windows : AbsoluteOf(f.move[i]) <= f.realized[i]
       /\ \A i, j \in DOMAIN Windows : i < j => f.realized[i] <= f.realized[j] /\ f.count[i] <= f.count[j]
       /\ f.quote_age >= 0

\* The two rows of a decision are mirror images.
SidesMirror ==
  \A r, s \in dataset.rows :
    LET f == r.feature.features
        g == s.feature.features
    IN (r.feature.point.time = s.feature.point.time /\ r.feature.point.side # s.feature.point.side) =>
         /\ f.spread = g.spread /\ f.realized = g.realized /\ f.same_top = g.opposite_top
         /\ \A i \in DOMAIN f.imbalance : f.imbalance[i] = -g.imbalance[i]
         /\ \A i \in DOMAIN Windows : f.move[i] = -g.move[i] /\ f.flow[i] = -g.flow[i]

\* Features are of one market that the decision saw, seen from two sides.
FeaturesSound == FeaturesCausal /\ OnePath /\ SidesMirror

\* Labels are of the future that the target names, and of an unbroken one.
LabelsSound == LabelsMeetTarget /\ NoResetInside
=============================================================================
