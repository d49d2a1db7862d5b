----------------------------- MODULE ImitationStudy -----------------------------
(***************************************************************************)
(* The imitation study (imitation/learning.py): a student is fitted to the *)
(* decisions of a teacher, a threshold below which it hands over to the    *)
(* teacher is chosen on validation rows, one round of correction follows   *)
(* if its rollouts drift, and the student is evaluated with and without    *)
(* the teacher's help.  What a classifier predicts is a choice; the        *)
(* teacher is a program outside the module.                                *)
(***************************************************************************)
EXTENDS Integers, Sequences, FiniteSets

CONSTANTS
  Total,             \* lots of an episode
  Decisions,         \* steps_per_episode
  Candidates,        \* confidence_candidates, in hundredths
  AcceptedFloor,     \* accepted_agreement_floor, in hundredths
  AgreementFloor,    \* validation_dagger_agreement_floor, in hundredths
  Grid,              \* hidden_units and alphas, by their order
  Scores,            \* validation agreements, in hundredths
  Losses,            \* validation log losses
  ValidationRows     \* number of validation rows

\* validate_config, with smaller numbers.  An agreement is a share of rows, and
\* a log loss is not negative.
ImitationConfig ==
  /\ Total \in Nat \ {0} /\ Decisions \in Nat \ {0} /\ ValidationRows \in Nat \ {0}
  /\ Candidates \subseteq Nat /\ Candidates # {} /\ IsFiniteSet(Candidates)
  /\ Grid \subseteq Nat \X Nat /\ Grid # {} /\ IsFiniteSet(Grid)
  /\ Scores \subseteq Nat /\ Losses \subseteq Nat
ASSUME ImitationAssumption == ImitationConfig

VARIABLES
  phase,       \* what the study is doing
  fitted,      \* the model: how often it was fitted, on which segments
  selection,   \* candidates of the grid with their scores, while they are compared
  chosen,      \* the selected candidate
  rows,        \* predictions for the validation rows, while the threshold is chosen
  threshold,   \* the confidence threshold, and the fit that it was chosen for
  rollout,     \* the student's episode
  evaluated,   \* evaluations that are done
  summary      \* that of the last rollout
imitationVars == <<phase, fitted, selection, chosen, rows, threshold, rollout, evaluated, summary>>

NoRollout == [step |-> -1]
NoThreshold == [value |-> -1, fit |-> 0]

\* ACTION_FRACTIONS
Modes == {<<"passive", 25>>, <<"passive", 50>>, <<"passive", 100>>,
          <<"aggressive", 25>>, <<"aggressive", 50>>, <<"aggressive", 100>>, <<"none", 0>>}

\* _quantity: the fraction rounded down, all of it if that leaves nothing.
quantity(remaining, percent) ==
  IF percent <= 0 THEN 0
  ELSE LET q == (remaining * percent) \div 100
       IN IF q = 0 THEN remaining ELSE IF q < remaining THEN q ELSE remaining

-----------------------------------------------------------------------------
(* Selection.                                                              *)

\* The order of the candidates: agreement, then loss, then the smaller model.
Better(a, b) ==
  \/ a.agreement > b.agreement
  \/ a.agreement = b.agreement /\ a.loss < b.loss
  \/ a.agreement = b.agreement /\ a.loss = b.loss /\ a.units < b.units
  \/ a.agreement = b.agreement /\ a.loss = b.loss /\ a.units = b.units /\ a.alpha < b.alpha

\* _select_model
Selected(candidates) ==
  CHOOSE a \in candidates : \A b \in candidates \ {a} : Better(a, b)

\* The rows that a threshold accepts, and how many of them are right.
Accepted(predictions, t) ==
  {k \in DOMAIN predictions : predictions[k].confidence >= t /\ predictions[k].inside}
Agreeing(predictions, accepted) == {k \in accepted : predictions[k].right}

Largest(S) == CHOOSE x \in S : \A y \in S : y <= x
Smallest(S) == CHOOSE x \in S : \A y \in S : x <= y

\* Thresholds whose accepted rows agree with the teacher often enough.
Reliable(predictions) ==
  {t \in Candidates :
     LET accepted == Accepted(predictions, t) IN
     /\ accepted # {}
     /\ 100 * Cardinality(Agreeing(predictions, accepted)) >= AcceptedFloor * Cardinality(accepted)}

\* _choose_fallback_threshold: the first of those with the largest coverage,
\* the last candidate if there is none.
choose_fallback_threshold(predictions) ==
  LET reliable == Reliable(predictions)
      Coverage(t) == Cardinality(Accepted(predictions, t))
  IN IF reliable = {} THEN Largest(Candidates)
     ELSE Smallest({t \in reliable : \A u \in reliable : Coverage(u) <= Coverage(t)})

Predictions ==
  [1 .. ValidationRows ->
     [confidence : Candidates \cup {Largest(Candidates) + 1}, inside : BOOLEAN, right : BOOLEAN]]

-----------------------------------------------------------------------------
(* The study.                                                              *)

ImitationInit ==
  /\ phase = "teach" /\ fitted = [fit |-> 0, segments |-> {}]
  /\ selection = {} /\ chosen = << >> /\ rows = << >>
  /\ threshold = NoThreshold /\ rollout = NoRollout
  /\ evaluated = 0 /\ summary = NoRollout

\* A candidate of the grid is fitted to the training rows and scored.
FitCandidate ==
  /\ phase = "fit"
  /\ \E g \in Grid, agreement \in Scores, loss \in Losses :
       /\ \A c \in selection : <<c.units, c.alpha>> # g
       /\ selection' = selection \cup
            {[units |-> g[1], alpha |-> g[2], agreement |-> agreement, loss |-> loss]}
  /\ UNCHANGED <<phase, fitted, chosen, rows, threshold, rollout, evaluated, summary>>

SelectModel ==
  /\ phase = "fit" /\ Cardinality(selection) = Cardinality(Grid)
  /\ chosen' = Selected(selection)
  /\ fitted' = [fit |-> 1, segments |-> {"train"}]
  /\ phase' = "threshold"
  /\ UNCHANGED <<selection, rows, threshold, rollout, evaluated, summary>>

\* The threshold follows every fit.
ChooseThreshold ==
  /\ phase = "threshold"
  /\ rows' \in Predictions
  /\ threshold' = [value |-> choose_fallback_threshold(rows'), fit |-> fitted.fit]
  /\ phase' = IF fitted.fit = 1 THEN "validate" ELSE "evaluate"
  /\ selection' = {}
  /\ UNCHANGED <<fitted, chosen, rollout, evaluated, summary>>

\* The evaluations: the validation segment again, then each segment without
\* the teacher's help and with it.
Evaluations ==
  <<[segment |-> "validation", fallback |-> FALSE],
    [segment |-> "engineering_holdout", fallback |-> FALSE],
    [segment |-> "engineering_holdout", fallback |-> TRUE],
    [segment |-> "ood", fallback |-> FALSE], [segment |-> "ood", fallback |-> TRUE]>>

\* _teacher_rollout and _student_rollout, of one episode.
StartRollout(segment, fallback) ==
  /\ rollout = NoRollout
  /\ rollout' = [step |-> 0, filled |-> 0, segment |-> segment, fallback |-> fallback,
                 decisions |-> 0, raw |-> 0, final |-> 0, handed |-> 0]
  /\ rows' = << >>
  /\ UNCHANGED <<phase, fitted, selection, chosen, threshold, evaluated, summary>>

Begin ==
  \/ phase = "teach"    /\ StartRollout("teacher", FALSE)
  \/ phase = "validate" /\ StartRollout("validation", FALSE)
  \/ phase = "correct"  /\ StartRollout("correction", FALSE)
  \/ /\ phase = "evaluate" /\ evaluated < Len(Evaluations)
     /\ StartRollout(Evaluations[evaluated + 1].segment, Evaluations[evaluated + 1].fallback)

\* Whether a rollout has a decision left.
Deciding == rollout # NoRollout /\ rollout.step < Decisions /\ rollout.filled < Total

\* What the student's side of a decision does to its counters.
Decided(r, teacher, student, uncertain) ==
  LET final == IF r.fallback /\ uncertain THEN teacher ELSE student
  IN [r EXCEPT !.step = @ + 1, !.decisions = @ + 1,
               !.raw = @ + IF student = teacher THEN 1 ELSE 0,
               !.final = @ + IF final = teacher THEN 1 ELSE 0,
               !.handed = @ + IF r.fallback /\ uncertain THEN 1 ELSE 0,
               !.filled = @ + quantity(Total - @, final[2])]

Decide ==
  /\ Deciding
  /\ \E teacher, student \in Modes, uncertain \in BOOLEAN :
       /\ rollout.segment = "teacher" => student = teacher
       /\ rollout' = Decided(rollout, teacher, student, uncertain)
  /\ UNCHANGED <<phase, fitted, selection, chosen, rows, threshold, evaluated, summary>>

\* The rest of the parent is bought at the end of the path.
Summary ==
  [segment |-> rollout.segment, fallback |-> rollout.fallback, decisions |-> rollout.decisions,
   raw |-> rollout.raw, final |-> rollout.final,
   bought |-> rollout.filled + (IF rollout.filled < Total THEN Total - rollout.filled ELSE 0)]

\* The first rollout decides on the correction; shift is that of the states.
EndRollout ==
  /\ rollout # NoRollout /\ ~Deciding
  /\ rollout' = NoRollout
  /\ \E shifted \in BOOLEAN :
       LET trigger == 100 * rollout.raw < AgreementFloor * rollout.decisions \/ shifted
       IN phase' = CASE phase = "teach"                 -> "fit"
                     [] phase = "validate" /\ trigger  -> "correct"
                     [] phase = "validate" /\ ~trigger -> "evaluate"
                     [] phase = "correct"              -> "refit"
                     [] OTHER                          -> "evaluate"
  /\ evaluated' = IF phase = "evaluate" THEN evaluated + 1 ELSE evaluated
  /\ summary' = Summary
  /\ UNCHANGED <<fitted, selection, chosen, rows, threshold>>

\* The selected candidate is fitted again, with the correction rows.
Refit_bug ==
  /\ phase = "refit"
  /\ fitted' = [fit |-> 2, segments |-> fitted.segments \cup {"correction"}]
  /\ phase' = "evaluate"
  /\ UNCHANGED <<selection, chosen, rows, threshold, rollout, evaluated, summary>>

Refit ==
  /\ phase = "refit"
  /\ fitted' = [fit |-> 2, segments |-> fitted.segments \cup {"correction"}]
  /\ phase' = "threshold"
  /\ UNCHANGED <<selection, chosen, rows, threshold, rollout, evaluated, summary>>

\* The report is written and validated.
Report ==
  /\ phase = "evaluate" /\ rollout = NoRollout /\ evaluated = Len(Evaluations)
  /\ phase' = "reported"
  /\ UNCHANGED <<fitted, selection, chosen, rows, threshold, rollout, evaluated, summary>>

ImitationNext ==
  FitCandidate \/ SelectModel \/ ChooseThreshold \/ Begin \/ Decide \/ EndRollout \/ Refit \/ Report

ImitationSpec == ImitationInit /\ [][ImitationNext]_imitationVars

-----------------------------------------------------------------------------
(* Properties.                                                             *)

\* Handing over to the teacher never lowers the agreement with the teacher,
\* and an episode buys its parent exactly.
HandoverHelps ==
  /\ rollout # NoRollout => rollout.filled <= Total
  /\ summary # NoRollout =>
       /\ summary.bought = Total /\ summary.final >= summary.raw
       /\ ~summary.fallback => summary.final = summary.raw

\* The threshold in force keeps the agreement of accepted validation rows
\* above its floor unless no candidate does, and no other such candidate
\* accepts more rows.
ThresholdReliable ==
  rows # << >> =>
    /\ Reliable(rows) # {} => threshold.value \in Reliable(rows)
    /\ \A t \in Reliable(rows) :
         Cardinality(Accepted(rows, t)) <= Cardinality(Accepted(rows, threshold.value))

\* The evaluated model and its threshold belong together: a correction that
\* changes the model is followed by a new choice of the threshold.
ThresholdFresh ==
  phase \in {"evaluate", "reported"} =>
    /\ threshold.fit = fitted.fit
    /\ fitted.segments \subseteq {"train", "correction"}

\* No candidate of the grid agrees with the teacher more often on validation
\* rows than the selected one, which the correction keeps.
SelectionBest ==
  chosen # << >> => \A c \in selection : c.agreement <= chosen.agreement

\* The imitated policy hands over to its teacher by a threshold that is of the
\* model that acts, kept its promise on validation rows, and never lowers the
\* agreement with it.
FallbackSound == HandoverHelps /\ ThresholdReliable /\ ThresholdFresh /\ SelectionBest
=============================================================================
