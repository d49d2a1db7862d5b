---------------------------- MODULE ResearchStudies ----------------------------
(***************************************************************************)
(* The studies of the research pipeline side by side, and the metrics of   *)
(* episodes.  Each is a command of its own that is run on artifacts on     *)
(* disk; nothing of one changes while another runs, so that an execution   *)
(* is one study from its start.                                            *)
(***************************************************************************)
EXTENDS PredictionData, ForecastTraining, PolicyTraining, ImitationStudy, StressStudy,
        ExecutionMetrics

VARIABLE study   \* the command that runs

vars == <<study, predictionVars, forecastVars, trainingVars, imitationVars, stressVars, metricsVars>>

Init ==
  /\ study \in {"prediction", "forecasting", "reinforcement", "imitation", "robustness",
              "metrics"}
  /\ PredictionInit /\ ForecastInit /\ TrainingInit /\ ImitationInit /\ StressInit
  /\ MetricsInit
  /\ study # "reinforcement" => stage = "rollout"

Predict ==
  /\ study = "prediction" /\ PredictionNext
  /\ UNCHANGED <<study, forecastVars, trainingVars, imitationVars, stressVars, metricsVars>>

Forecast ==
  /\ study = "forecasting" /\ ForecastNext
  /\ UNCHANGED <<study, predictionVars, trainingVars, imitationVars, stressVars, metricsVars>>

Reinforce ==
  /\ study = "reinforcement" /\ TrainingNext
  /\ UNCHANGED <<study, predictionVars, forecastVars, imitationVars, stressVars, metricsVars>>

Imitate ==
  /\ study = "imitation" /\ ImitationNext
  /\ UNCHANGED <<study, predictionVars, forecastVars, trainingVars, stressVars, metricsVars>>

Stress ==
  /\ study = "robustness" /\ StressNext
  /\ UNCHANGED <<study, predictionVars, forecastVars, trainingVars, imitationVars, metricsVars>>

Measure ==
  /\ study = "metrics" /\ MetricsNext
  /\ UNCHANGED <<study, predictionVars, forecastVars, trainingVars, imitationVars, stressVars>>

Next == Predict \/ Forecast \/ Reinforce \/ Imitate \/ Stress \/ Measure

Spec == Init /\ [][Next]_vars
=============================================================================
