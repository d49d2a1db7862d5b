----------------------------- MODULE PolicyTraining -----------------------------
(***************************************************************************)
(* The study of generate_step27_artifacts (rl/ppo.py): every seed trains a *)
(* model on rollouts of the training regimes, stores it, and the restored  *)
(* model and the baselines are evaluated on the same episodes.  Weights    *)
(* are abstract: a model is the set of regimes and rollouts it has seen.   *)
(***************************************************************************)
EXTENDS ExecutionEnv

CONSTANTS
  Seeds,            \* training_seeds
  Updates,          \* updates
  RolloutEpisodes,  \* train_episodes_per_update
  TrainRegimes, OodRegimes

\* validate_config: the training budget, with smaller numbers.
TrainingBudget ==
  /\ Seeds \in Nat \ {0} /\ Updates \in Nat \ {0} /\ RolloutEpisodes \in Nat \ {0}
  /\ TrainRegimes \cap OodRegimes = {}
ASSUME TrainingAssumption == TrainingBudget

VARIABLES
  stage,     \* what the study is doing
  seed,      \* training_seeds before this one are done
  update,    \* updates of the seed so far
  episode,   \* episodes of the stage so far
  regime,
  env,
  batch,     \* the rollout: reward, value and done of every step
  model,     \* regimes that the seed's model has been trained on
  results    \* evaluated policies
trainingVars == <<stage, seed, update, episode, regime, env, batch, model, results>>

Baselines == <<"immediate", "twap", "liquidity", "random", "wait">>
NoRegime == "none"

\* The policy that acts in a stage.
Actor ==
  CASE stage = "rollout"  -> "trained"
    [] stage = "baseline" -> Baselines[(episode \div 2) + 1]
    [] stage = "caller"   -> "unmasked"
    [] OTHER              -> "trained"

\* _sample_regime in training; _episode_specs in evaluation.
RegimesOf(split) == IF split = "ood" THEN OodRegimes ELSE TrainRegimes

SplitOf ==
  CASE stage \in {"id", "ood"} -> stage
    [] stage = "baseline"      -> IF episode % 2 = 0 THEN "id" ELSE "ood"
    [] OTHER                   -> "train"

\* Either the study, or a caller of step that does not look at the mask.
TrainingInit ==
  /\ stage \in {"rollout", "caller"}
  /\ seed = 0 /\ update = 0 /\ episode = 0 /\ regime = NoRegime
  /\ env = NoEnv /\ batch = << >> /\ model = {} /\ results = {}

Running == regime # NoRegime

\* reset of the environment for the next episode of the stage.
BeginEpisode ==
  /\ stage \in {"rollout", "id", "ood", "baseline", "caller"} /\ ~Running
  /\ \E r \in RegimesOf(SplitOf), m \in Markets : regime' = r /\ env' = NewEnv(m)
  /\ UNCHANGED <<stage, seed, update, episode, batch, model, results>>

\* A number that stands for the reward, and the critic's value of the state.
RewardOf(row) == -row.before
ValueOf(e) == e.step % 2

Act ==
  /\ Running /\ ~env.done
  /\ \E a \in ActionsOf(Actor, env, Mask(env)) : env' \in step(env, a)
  /\ batch' = IF stage # "rollout" THEN batch
              ELSE Append(batch, [reward |-> RewardOf(env'.row), value |-> ValueOf(env),
                                  done |-> env'.done])
  /\ UNCHANGED <<stage, seed, update, episode, regime, model, results>>

\* What the report says of the episodes of a policy.
Result == [policy |-> Actor, seed |-> IF stage = "baseline" THEN 0 ELSE seed + 1,
           split |-> SplitOf, completed |-> env.remaining = 0, invalid |-> env.invalid]

EpisodesOf ==
  CASE stage = "rollout"  -> RolloutEpisodes
    [] stage = "baseline" -> 2 * Len(Baselines)
    [] OTHER              -> 1

StageAfter ==
  CASE stage = "rollout"                      -> "update"
    [] stage = "id"                           -> "ood"
    [] stage = "ood" /\ seed + 1 < Seeds      -> "rollout"
    [] stage = "ood" /\ seed + 1 = Seeds      -> "baseline"
    [] stage = "baseline"                     -> "reported"
    [] OTHER                                  -> "stopped"

EndEpisode ==
  LET last == episode + 1 = EpisodesOf IN
  /\ Running /\ env.done
  /\ regime' = NoRegime /\ env' = NoEnv
  /\ episode' = IF last THEN 0 ELSE episode + 1
  /\ stage' = IF last THEN StageAfter ELSE stage
  /\ model' = CASE stage = "rollout"       -> model \cup {regime}
                [] last /\ stage = "ood"    -> {}
                [] OTHER                    -> model
  /\ results' = IF stage \in {"rollout", "caller"} THEN results ELSE results \cup {Result}
  /\ seed' = IF last /\ stage = "ood" THEN seed + 1 ELSE seed
  /\ UNCHANGED <<update, batch>>

\* The backward pass of _collect_rollout, without discount: a step's return,
\* and the same advantage recursion that carries it.
Returns_bug(steps) ==
  LET n == Len(steps)
      gae[k \in 1 .. n] ==
        LET next == IF k = n THEN 0 ELSE steps[k + 1].value
        IN steps[k].reward + next - steps[k].value + IF k = n THEN 0 ELSE gae[k + 1]
  IN [k \in 1 .. n |-> gae[k] + steps[k].value]

Returns(steps) ==
  LET n == Len(steps)
      gae[k \in 1 .. n] ==
        LET next == IF k = n \/ steps[k].done THEN 0 ELSE steps[k + 1].value
        IN steps[k].reward + next - steps[k].value
             + IF k = n \/ steps[k].done THEN 0 ELSE gae[k + 1]
  IN [k \in 1 .. n |-> gae[k] + steps[k].value]

\* _ppo_update consumes the rollout; after the last one the model is stored
\* and restored, and it is the restored model that is evaluated.
Update ==
  /\ stage = "update"
  /\ batch' = << >>
  /\ IF update + 1 < Updates
       THEN stage' = "rollout" /\ update' = update + 1
       ELSE stage' = "id" /\ update' = 0
  /\ UNCHANGED <<seed, episode, regime, env, model, results>>

TrainingNext == BeginEpisode \/ Act \/ EndEpisode \/ Update

TrainingSpec == TrainingInit /\ [][TrainingNext]_trainingVars

-----------------------------------------------------------------------------
(* Properties.                                                             *)

\* No lot of a parent order is lost or bought twice in an episode, and an
\* episode that is over has bought them all, whatever the policy does.
LotsConserved ==
  Running =>
    /\ env.remaining \in 0 .. ParentLots
    /\ env.executed + env.remaining = ParentLots
    /\ env.done => env.remaining = 0

\* The reward of a step is the one that its log row yields on its own.
RewardReconstructs == Running /\ env.step > 0 => reconstruct_reward(env.row) = env.row.reward

\* No policy of the study, trained or baseline, ever takes a masked action:
\* the reported rate of invalid actions is zero and completion is one.
StudyActionsValid ==
  \A r \in results : r.completed /\ r.invalid = 0

\* The return of a step is the sum of the rewards to the end of its own
\* episode: nothing of the next episode of the rollout reaches it.
ReturnsOwnEpisode ==
  stage = "update" =>
    \A k \in DOMAIN batch :
      LET end == CHOOSE j \in k .. Len(batch) : batch[j].done /\ \A i \in k .. (j - 1) : ~batch[i].done
          sum[i \in k .. end] == batch[i].reward + IF i = end THEN 0 ELSE sum[i + 1]
      IN Returns(batch)[k] = sum[k]

\* Every seed of the study is reported, on both splits, and no model has been
\* trained on a regime that it is judged out of distribution on.
EverySeedReported ==
  /\ model \cap OodRegimes = {}
  /\ stage = "reported" =>
       \A k \in 1 .. Seeds, split \in {"id", "ood"} :
         \E r \in results : r.policy = "trained" /\ r.seed = k /\ r.split = split

\* An episode is exact: lots, rewards and actions are those of its log.
EpisodesExact == LotsConserved /\ RewardReconstructs /\ StudyActionsValid

\* A seed learns from its own episodes, and all of them are reported.
TrainingSound == ReturnsOwnEpisode /\ EverySeedReported

=============================================================================
