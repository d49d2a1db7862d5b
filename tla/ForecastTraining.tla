---------------------------- MODULE ForecastTraining ----------------------------
(***************************************************************************)
(* Training, calibration and evaluation of the quote-depletion forecasts   *)
(* (prediction/simple_models.py, temporal_models.py and the fixtures that  *)
(* write_simple_model_fixture and write_temporal_model_fixture make).      *)
(*                                                                         *)
(* A fitted thing is the set of rows that it was fitted to.  Losses and    *)
(* forecasts are choices; probabilities are in hundredths.                 *)
(***************************************************************************)
EXTENDS Integers, Sequences, FiniteSets, FiniteSetsExt, Functions

CONSTANTS
  SplitDays,        \* days of the segments: a SplitDays record
  Symbols,
  RowsPer,          \* rows_per_symbol_side_day
  SequenceLength, SequenceStride,
  HorizonCount,     \* candidate horizons, nested
  GridKeys,         \* candidates of a simple family, by their order
  HyperKeys,        \* those of the temporal model, likewise
  MaxEpochs, Patience,
  LossValues, BrierValues,
  DepletedBy,       \* the horizon in which the quote of a row is depleted
  Forecasts,        \* probabilities of a fitted model
  EceBins, Thresholds,
  AggressiveCost, PassiveCost

\* load_temporal_model_config, where it binds the constants.
load_temporal_model_config ==
  /\ SplitDays \in [{"train", "validation", "calibration", "engineering_holdout"} -> Nat \ {0}]
  /\ RowsPer \in Nat \ {0} /\ SequenceStride \in Nat \ {0}
  /\ SequenceLength \in 2 .. RowsPer
  /\ MaxEpochs \in Nat /\ MaxEpochs >= 2 /\ Patience \in 1 .. MaxEpochs - 1
  /\ HyperKeys \subseteq Nat /\ IsFiniteSet(HyperKeys) /\ Cardinality(HyperKeys) \in 1 .. 8
  /\ AggressiveCost \in Nat \ {0} /\ PassiveCost \in Nat /\ AggressiveCost < PassiveCost

\* load_simple_model_config, likewise.
load_simple_model_config ==
  /\ EceBins \in Nat /\ EceBins >= 2
  /\ Thresholds \subseteq 1 .. 99 /\ Thresholds # {}
  /\ GridKeys \subseteq Nat /\ GridKeys # {} /\ IsFiniteSet(GridKeys)
  /\ Symbols # {} /\ IsFiniteSet(Symbols)

\* Losses are not negative, and a forecast is a probability.
ForecastNumbers ==
  /\ LossValues \subseteq Nat /\ BrierValues \subseteq Nat /\ Forecasts \subseteq 0 .. 100
  /\ HorizonCount \in Nat \ {0}

ASSUME ForecastAssumption ==
  load_temporal_model_config /\ load_simple_model_config /\ ForecastNumbers

VARIABLES
  fixture,     \* what the run is doing
  data,        \* the horizon of depletion of every row
  family,      \* the model that is being made,
  horizon,     \* and the horizon of its target
  training,    \* the candidate that is being fitted
  candidates,  \* results of the candidates that are done
  final_model, \* the model
  holdout      \* the forecast of every item of the holdout
forecastVars == <<fixture, data, family, horizon, training, candidates, final_model, holdout>>

SimpleFamilies == {"base_rate", "logistic", "gradient_boosted_trees", "simple_mlp"}
ModelFamilies == SimpleFamilies \cup {"causal_conv1d_lstm"}
Temporal == family = "causal_conv1d_lstm"

-----------------------------------------------------------------------------
(* Rows and sequences.                                                     *)

Train == SplitDays["train"]
UpToValidation == Train + SplitDays["validation"]
UpToCalibration == UpToValidation + SplitDays["calibration"]
TotalDays == UpToCalibration + SplitDays["engineering_holdout"]

\* split_for_day
split_for_day(day) ==
  IF day < Train THEN "train"
  ELSE IF day < UpToValidation THEN "validation"
  ELSE IF day < UpToCalibration THEN "calibration"
  ELSE "engineering_holdout"

RowId(day, symbol, side, index) == [day |-> day, symbol |-> symbol, side |-> side, index |-> index]
Rows == {RowId(d, y, s, k) : d \in 0 .. TotalDays - 1, y \in Symbols, s \in {"bid", "ask"},
                           k \in 0 .. RowsPer - 1}

\* generate_engineering_training_rows: the first row of a segment is a
\* sentinel, depleted at once on the bid and in no horizon on the ask.
SplitStarts == {0, Train, UpToValidation, UpToCalibration}
generate_engineering_training_rows(depleted) ==
  [row \in Rows |->
     IF row.day \in SplitStarts /\ row.index = 0
       THEN IF row.side = "bid" THEN 1 ELSE HorizonCount + 1
       ELSE depleted[row]]

\* Depletion within a horizon: targets are nested.
Target(row, h) == data[row] <= h

\* build_sequences: windows of the rows of a day, an instrument and a side.
Group(day, symbol, side) == [k \in 1 .. RowsPer |-> RowId(day, symbol, side, k - 1)]
SequencesOf(group) ==
  {SubSeq(group, start + 1, start + SequenceLength) :
     start \in {s \in 0 .. Len(group) - SequenceLength : s % SequenceStride = 0}}
build_sequences ==
  UNION {SequencesOf(Group(d, y, s)) : d \in 0 .. TotalDays - 1, y \in Symbols, s \in {"bid", "ask"}}

\* An item of a matrix: a row, or a sequence, whose target is its last row's.
Items == IF Temporal THEN build_sequences ELSE {<<row>> : row \in Rows}
Endpoint(item) == item[Len(item)]
RowsIn(items) == UNION {{item[k] : k \in DOMAIN item} : item \in items}

\* _rows_for_split, split_sequences
Segment(name) == {item \in Items : split_for_day(Endpoint(item).day) = name}
Classes(items, h) == {Target(Endpoint(item), h) : item \in items}

\* validate_training_rows, of labels: both classes for every instrument.
validate_training_rows ==
  \A name \in DOMAIN SplitDays, y \in Symbols, h \in 1 .. HorizonCount :
    {Target(row, h) : row \in {r \in Rows : split_for_day(r.day) = name /\ r.symbol = y}} = BOOLEAN

\* validate_sequences: their number, and both classes at their endpoints.
validate_sequences ==
  /\ Cardinality(build_sequences) =
       TotalDays * Cardinality(Symbols) * 2 * (1 + (RowsPer - SequenceLength) \div SequenceStride)
  /\ \A w \in build_sequences : \A k \in DOMAIN w :
       w[k].day = w[1].day /\ w[k].symbol = w[1].symbol /\ w[k].side = w[1].side
         /\ w[k].index = w[1].index + k - 1
  /\ \A name \in DOMAIN SplitDays, h \in 1 .. HorizonCount :
       {Target(Endpoint(w), h) : w \in {v \in build_sequences :
                                          split_for_day(Endpoint(v).day) = name}} = BOOLEAN

-----------------------------------------------------------------------------
(* Selection.                                                              *)

\* A loss that no network reaches, and what a diverged one shows.
Infinite == [loss |-> -1, brier |-> -1]
Diverged == [loss |-> -2, brier |-> -2]

\* The tuples are compared from the left; a diverged loss is below nothing.
Below(a, b) ==
  /\ a # Diverged /\ a # Infinite
  /\ b # Infinite => a.loss < b.loss \/ (a.loss = b.loss /\ a.brier < b.brier)

NoModel == [family |-> "none"]
NoTraining == [key |-> 0]
Untrained(key) == [key |-> key, epoch |-> 0, best |-> Infinite, best_epoch |-> 0, stale |-> 0,
                   history |-> << >>]
CandidateKeys == IF family = "base_rate" THEN {0} ELSE IF Temporal THEN HyperKeys ELSE GridKeys
EpochLimit == IF Temporal THEN MaxEpochs ELSE 1

\* The outcomes of an epoch; a network that has diverged stays so.
Outcomes ==
  LET finite == [loss : LossValues, brier : BrierValues]
      history == training.history
  IN IF ~Temporal THEN finite
     ELSE IF history # << >> /\ history[Len(history)] = Diverged THEN {Diverged}
     ELSE finite \cup {Diverged}

Epoch_bug(t, outcome) ==
  LET better == ~Below(t.best, outcome) /\ outcome # Diverged
  IN [t EXCEPT !.epoch = @ + 1, !.history = Append(@, outcome),
               !.best = IF better THEN outcome ELSE @,
               !.best_epoch = IF better THEN t.epoch + 1 ELSE @,
               !.stale = IF better THEN 0 ELSE @ + 1]

\* What an epoch leaves behind.
Epoch(t, outcome) ==
  LET better == Below(outcome, t.best)
  IN [t EXCEPT !.epoch = @ + 1, !.history = Append(@, outcome),
               !.best = IF better THEN outcome ELSE @,
               !.best_epoch = IF better THEN t.epoch + 1 ELSE @,
               !.stale = IF better THEN 0 ELSE @ + 1]

Stops(t) == t.epoch = EpochLimit \/ t.stale >= Patience

\* candidates.sort, results.sort
SelectedOf(results) ==
  CHOOSE a \in results : \A b \in results \ {a} :
    Below(a.best, b.best) \/ (a.best = b.best /\ a.key < b.key)

-----------------------------------------------------------------------------
(* The fitted model.                                                       *)

Scaled(f) == f \in {"logistic", "simple_mlp", "causal_conv1d_lstm"}

FittedModel_bug(selected) ==
  [family |-> family, horizon |-> horizon, key |-> selected.key, epochs |-> selected.best_epoch,
   prevalence |-> RowsIn(Segment("train")),
   scaler |-> IF Scaled(family) THEN RowsIn(Segment("train") \cup Segment("validation")) ELSE {},
   weights |-> IF family = "base_rate" THEN RowsIn(Segment("train"))
               ELSE RowsIn(Segment("train") \cup Segment("validation")),
   calibrator |-> IF family = "base_rate" THEN {} ELSE RowsIn(Segment("calibration"))]

\* fit_selected_model, fit_selected_temporal_model
FittedModel(selected) ==
  [family |-> family, horizon |-> horizon, key |-> selected.key, epochs |-> selected.best_epoch,
   prevalence |-> RowsIn(Segment("train")),
   scaler |-> IF Scaled(family) THEN RowsIn(Segment("train")) ELSE {},
   weights |-> IF family = "base_rate" THEN RowsIn(Segment("train"))
               ELSE RowsIn(Segment("train") \cup Segment("validation")),
   calibrator |-> IF family = "base_rate" THEN {} ELSE RowsIn(Segment("calibration"))]

\* model_card, temporal_model_card: the segments that a card names.
model_card ==
  [selection |-> "validation", final_fit |-> {"train", "validation"},
   scaler |-> IF Scaled(family) THEN {"train"} ELSE {},
   calibration |-> IF family = "base_rate" THEN {} ELSE {"calibration"}]

-----------------------------------------------------------------------------
(* Evaluation.                                                             *)

\* The mask of a bin in _ece and reliability_bins; the last bin is closed.
Bin(index) ==
  {item \in DOMAIN holdout :
     /\ holdout[item] * EceBins >= 100 * index
     /\ IF index + 1 < EceBins THEN holdout[item] * EceBins < 100 * (index + 1)
        ELSE holdout[item] <= 100}

Positive(items) == {item \in items : Target(Endpoint(item), horizon)}

\* precision and recall of a threshold: the counts behind them
Predicted(threshold) == {item \in DOMAIN holdout : holdout[item] >= threshold}
Counts(threshold) ==
  [tp |-> Cardinality(Positive(Predicted(threshold))),
   fp |-> Cardinality(Predicted(threshold) \ Positive(Predicted(threshold))),
   fn |-> Cardinality(Positive(DOMAIN holdout) \ Predicted(threshold))]

\* slice_metrics
Midpoint == UpToCalibration + SplitDays["engineering_holdout"] \div 2
OfSymbol(y) == {item \in DOMAIN holdout : Endpoint(item).symbol = y}
OfSide(s) == {item \in DOMAIN holdout : Endpoint(item).side = s}
FirstHalf == {item \in DOMAIN holdout :
                UpToCalibration <= Endpoint(item).day /\ Endpoint(item).day < Midpoint}
SecondHalf == {item \in DOMAIN holdout : Midpoint <= Endpoint(item).day}

\* decision_proxy: what a forecast costs, and what an oracle would have paid.
realized_bug(item) ==
  IF holdout[item] * PassiveCost > 100 * AggressiveCost THEN AggressiveCost
  ELSE PassiveCost

realized(item) ==
  IF holdout[item] * PassiveCost >= 100 * AggressiveCost THEN AggressiveCost
  ELSE IF Target(Endpoint(item), horizon) THEN PassiveCost ELSE 0

oracle(item) ==
  IF ~Target(Endpoint(item), horizon) THEN 0
  ELSE IF AggressiveCost < PassiveCost THEN AggressiveCost ELSE PassiveCost
RealizedCost(items) == SumFunctionOnSet([item \in items |-> realized(item)], items)

-----------------------------------------------------------------------------
(* The run.                                                                *)

ForecastInit ==
  /\ fixture = "generate" /\ data = << >> /\ family = "none" /\ horizon = 0
  /\ training = NoTraining /\ candidates = {} /\ final_model = NoModel /\ holdout = << >>

\* The directory is made, and then the rows are generated and validated: where
\* they are refused, the directory blocks every later attempt.
Generate ==
  /\ fixture = "generate"
  /\ \E depleted \in DepletedBy, f \in ModelFamilies, h \in 1 .. HorizonCount :
       /\ data' = generate_engineering_training_rows(depleted)
       /\ family' = f /\ horizon' = h
  /\ fixture' = IF validate_training_rows' /\ (Temporal' => validate_sequences')
                THEN "select" ELSE "blocked"
  /\ UNCHANGED <<training, candidates, final_model, holdout>>

\* The candidates are taken in the order of the grid.
StartCandidate ==
  /\ fixture = "select" /\ training = NoTraining
  /\ LET left == {key \in CandidateKeys : \A c \in candidates : c.key # key}
     IN left # {} /\ training' = Untrained(Min(left))
  /\ UNCHANGED <<fixture, data, family, horizon, candidates, final_model, holdout>>

\* One epoch on the training segment, judged on the validation segment.
TrainEpoch ==
  /\ fixture = "select" /\ training # NoTraining
  /\ \E outcome \in Outcomes :
       LET after == Epoch(training, outcome)
       IN IF Stops(after)
            THEN training' = NoTraining /\ candidates' = candidates \cup {after}
            ELSE training' = after /\ UNCHANGED candidates
  /\ UNCHANGED <<fixture, data, family, horizon, final_model, holdout>>

\* The selected candidate is fitted anew; Platt's fit needs both classes.
FitSelected ==
  /\ fixture = "select" /\ training = NoTraining
  /\ Cardinality(candidates) = Cardinality(CandidateKeys)
  /\ IF family # "base_rate" /\ Classes(Segment("calibration"), horizon) # BOOLEAN
       THEN fixture' = "failed" /\ UNCHANGED final_model
       ELSE fixture' = "evaluate" /\ final_model' = FittedModel(SelectedOf(candidates))
  /\ UNCHANGED <<data, family, horizon, training, candidates, holdout>>

\* The holdout is forecast and the artifacts are written; the base rate knows
\* one probability only.
Evaluate ==
  /\ fixture = "evaluate"
  /\ holdout' \in [Segment("engineering_holdout") -> Forecasts]
  /\ family = "base_rate" => \A a, b \in DOMAIN holdout' : holdout'[a] = holdout'[b]
  /\ fixture' = "written" /\ candidates' = {}
  /\ UNCHANGED <<data, family, horizon, training, final_model>>

ForecastNext == Generate \/ StartCandidate \/ TrainEpoch \/ FitSelected \/ Evaluate
ForecastSpec == ForecastInit /\ [][ForecastNext]_forecastVars

-----------------------------------------------------------------------------
(* Properties.                                                             *)

Learned(model) == model.prevalence \cup model.scaler \cup model.weights

\* Nothing that a model has learned, from its scaler to its calibrator, comes
\* from a day that is not past when the next thing is learned or judged: the
\* scaler sees no day after the training segment, the calibrator follows the
\* days of the weights, and the holdout follows them all.
NoLeakage ==
  final_model # NoModel =>
    /\ \A r \in final_model.scaler \cup final_model.prevalence, v \in RowsIn(Segment("validation")) :
         r.day < v.day
    /\ \A r \in Learned(final_model), c \in final_model.calibrator : r.day < c.day
    /\ \A r \in Learned(final_model) \cup final_model.calibrator,
          h \in RowsIn(Segment("engineering_holdout")) : r.day < h.day

Lexicographic(a, b) == a.loss < b.loss \/ (a.loss = b.loss /\ a.brier <= b.brier)

\* The model that is fitted is that of the best epoch of any candidate on the
\* validation segment, the first such epoch of its candidate, and it is never
\* a network without an epoch of training unless all of them diverged at once.
SelectedIsBest ==
  fixture = "evaluate" =>
    LET finite == {ce \in candidates \X (1 .. EpochLimit) :
                     ce[2] \in DOMAIN ce[1].history /\ ce[1].history[ce[2]] # Diverged}
        chosen == CHOOSE c \in candidates : c.key = final_model.key
    IN IF finite = {} THEN final_model.epochs = 0
       ELSE /\ final_model.epochs \in DOMAIN chosen.history
            /\ chosen.history[final_model.epochs] # Diverged
            /\ \A ce \in finite :
                 Lexicographic(chosen.history[final_model.epochs], ce[1].history[ce[2]])
            /\ \A e \in 1 .. final_model.epochs - 1 :
                 ~Lexicographic(chosen.history[e], chosen.history[final_model.epochs])

\* Data that is accepted can be calibrated: the fit never raises on a segment
\* with one class, after the hours of the selection.
CalibrationFits == fixture # "failed"

\* The report of a model adds up: every forecast of the holdout falls into one
\* bin, one half and one slice of every kind, and a higher threshold never
\* recalls more of the depletions.
ReportAddsUp ==
  fixture = "written" =>
    /\ \A item \in DOMAIN holdout :
         /\ Cardinality({index \in 0 .. EceBins - 1 : item \in Bin(index)}) = 1
         /\ item \in FirstHalf <=> item \notin SecondHalf
         /\ Cardinality({y \in Symbols : item \in OfSymbol(y)}) = 1
         /\ item \in OfSide("bid") <=> item \notin OfSide("ask")
    /\ \A t, u \in Thresholds :
         /\ t <= u => Counts(u).tp <= Counts(t).tp /\ Counts(u).fp <= Counts(t).fp
         /\ Counts(t).tp + Counts(t).fn = Counts(u).tp + Counts(u).fn

\* Acting on the forecast is never better than the oracle; and on the items of
\* a probability that is their frequency it is no worse than either constant.
ProxyDecidesWell ==
  fixture = "written" =>
    /\ \A item \in DOMAIN holdout : realized(item) >= oracle(item)
    /\ \A p \in Forecasts :
         LET items == {item \in DOMAIN holdout : holdout[item] = p}
             n == Cardinality(items)
             k == Cardinality(Positive(items))
         IN 100 * k = p * n =>
              /\ RealizedCost(items) <= n * AggressiveCost
              /\ RealizedCost(items) <= k * PassiveCost

\* The card of a model says which segments its weights, scaler and calibrator
\* were fitted to (the base rate's card names the final fit of the others).
CardIsTrue ==
  final_model # NoModel /\ family # "base_rate" =>
    LET Named(segments) == RowsIn(UNION {Segment(name) : name \in segments})
    IN /\ final_model.weights = Named(model_card.final_fit)
       /\ final_model.scaler = Named(model_card.scaler)
       /\ final_model.calibrator = Named(model_card.calibration)

\* A model is fitted to the past, and to the past that its card names.
FittedAsDeclared == NoLeakage /\ CardIsTrue

\* The selection ends with the best candidate, and with one that can be fitted.
SelectionSound == SelectedIsBest /\ CalibrationFits

\* The report counts every forecast once and judges it by what happened.
ReportSound == ReportAddsUp /\ ProxyDecidesWell
=============================================================================
