------------------------------ MODULE StressStudy ------------------------------
(***************************************************************************)
(* The robustness matrix (robustness/matrix.py) and the inference on it    *)
(* (statistics/inference.py).  Every registered policy is run in every     *)
(* stress case on the same episode seeds, seeing observations that may be  *)
(* late or lost; policies are ranked by mean cost, and contrasts with the  *)
(* comparator are tested with a block bootstrap and Holm's adjustment.     *)
(*                                                                         *)
(* The cost of an episode and a p-value are choices: numbers from small    *)
(* sets.  The resamples of the bootstrap are those of its random starts.   *)
(***************************************************************************)
EXTENDS ExecutionEnv, FiniteSetsExt, SequencesExt

CONSTANTS
  Cases,            \* stress cases by name: dimension, delay, and whether
                    \* observations are dropped
  Trained,          \* names of the trained policies, one of each seed
  EpisodeSeeds,     \* paired seeds of a cell
  CostValues,       \* mean costs of a policy in a case
  PValues, Alpha,   \* p-values and the level, in thousandths
  MinBlock, MaxBlock,
  EpisodeCount      \* ordered episodes of a resample

Central == "central_reference"
Fixed == {"immediate", "twap", "liquidity"}
Ranked == Fixed \cup {"ppo_aggregate"}
Comparator == "liquidity"
Challengers == Ranked \ {Comparator}

\* validate_config of the matrix and of the inference, where they bind.
validate_config ==
  /\ IsFiniteSet(DOMAIN Cases) /\ Central \in DOMAIN Cases
  /\ \A case \in DOMAIN Cases : Cases[case].delay \in Nat
  /\ IsFiniteSet(Trained) /\ Trained # {} /\ Trained \cap Ranked = {} /\ EpisodeSeeds # {}
  /\ EpisodeCount \in Nat /\ EpisodeCount >= MaxBlock + 2

\* Likewise for the statistics; Alpha is in thousandths.
validate_statistics_config ==
  /\ MaxBlock \in 2 .. 7 /\ MinBlock \in 2 .. MaxBlock
  /\ Alpha \in 1 .. 499

\* Costs are amounts, and p-values are shares of the resamples.
StressNumbers == CostValues \subseteq Int /\ PValues \subseteq 0 .. 1000

ASSUME StressAssumption == validate_config /\ validate_statistics_config /\ StressNumbers

VARIABLES
  step28,      \* what the study is doing
  cell,        \* the case and the policy that run, and their episode's seed
  stress,      \* the environment of the episode
  history,     \* the observations that it has made
  lost,        \* which of the decisions lost their observation
  delivered,   \* what the policy was last given: the step it is from
  paths,       \* places of the random stream that an episode's market came from
  means,       \* mean costs of the cells
  contrasts,   \* raw p-values of the cells
  block,       \* the selected block length
  resample     \* episode costs of two policies, and the starts of the blocks
stressVars == <<step28, cell, stress, history, lost, delivered, paths, means, contrasts, block, resample>>

NoCell == [case |-> "none"]
NoResample == [starts |-> << >>]
NoBlock == 0

-----------------------------------------------------------------------------
(* Episodes.                                                               *)

\* The rule of greedy_policy, and the baselines of PolicyTraining.
PolicyOf(policy) == IF policy \in Trained THEN "trained" ELSE policy

\* The observation that a delay leaves: of that many decisions before.
Source(delay) == GreaterOf(0, Len(history) - 1 - delay) + 1

\* run_stress_episode: what is delivered in a decision.
Delivered_bug(drop, delay) == IF drop THEN Len(history) ELSE Source(delay)

Delivered(drop, delay) == IF drop THEN delivered ELSE Source(delay)

\* The valid actions are those of the environment, not of what was delivered.
MaskSeen(seen) == Mask(stress)

StressInit ==
  /\ step28 = "episodes" /\ cell = NoCell /\ stress = NoEnv /\ history = << >> /\ lost = << >>
  /\ delivered = 1 /\ paths = << >> /\ means = << >> /\ contrasts = << >>
  /\ block = NoBlock /\ resample = NoResample

\* An episode of two policies on one seed; the first one's path is kept.
BeginStress ==
  /\ step28 = "episodes" /\ cell = NoCell /\ Len(paths) < 2
  /\ \E case \in DOMAIN Cases, policy \in Fixed \cup Trained, seed \in EpisodeSeeds, m \in Markets :
       /\ paths # << >> => case = paths[1].case /\ seed = paths[1].seed
       /\ cell' = [case |-> case, policy |-> policy, seed |-> seed]
       /\ stress' = NewEnv(m) /\ history' = <<NewEnv(m)>>
  /\ lost' = << >> /\ delivered' = 1
  /\ UNCHANGED <<step28, paths, means, contrasts, block, resample>>

\* One decision: the observation is delivered, dropped or late, the policy
\* acts on it, and the environment steps.
DecideStressed ==
  /\ cell # NoCell /\ ~stress.done
  /\ \E drop \in (IF Cases[cell.case].drops THEN BOOLEAN ELSE {FALSE}) :
       LET k == Delivered(drop, Cases[cell.case].delay)
           seen == history[k]
       IN /\ delivered' = k /\ lost' = Append(lost, drop)
          /\ \E a \in ActionsOf(PolicyOf(cell.policy), seen, MaskSeen(seen)) :
               \E after \in step(stress, a) :
                 stress' = after /\ history' = Append(history, after)
  /\ UNCHANGED <<step28, cell, paths, means, contrasts, block, resample>>

\* The places of the random stream at which the steps of an episode began to
\* draw the market that follows.
Places == [k \in 1 .. Len(history) - 1 |-> history[k + 1].draws - 5]

EndStressed ==
  /\ cell # NoCell /\ stress.done
  /\ paths' = Append(paths, [case |-> cell.case, seed |-> cell.seed, places |-> Places])
  /\ cell' = NoCell /\ stress' = NoEnv /\ history' = << >> /\ lost' = << >> /\ delivered' = 1
  /\ UNCHANGED <<step28, means, contrasts, block, resample>>

-----------------------------------------------------------------------------
(* Ranking.                                                                *)

\* _ppo_family: the mean of the seeds, times their number so that all costs
\* stay whole.
Seeds28 == Cardinality(Trained)
FamilyCost(case, policy) ==
  IF policy = "ppo_aggregate" THEN SumFunctionOnSet(means[case], Trained)
  ELSE Seeds28 * means[case][policy]

PolicyOrder == <<"immediate", "liquidity", "ppo_aggregate", "twap">>
PlaceOf(policy) == CHOOSE k \in DOMAIN PolicyOrder : PolicyOrder[k] = policy

\* The order of _ranking_summary: cost, then name.
Ahead(case, p, q) ==
  \/ FamilyCost(case, p) < FamilyCost(case, q)
  \/ FamilyCost(case, p) = FamilyCost(case, q) /\ PlaceOf(p) < PlaceOf(q)
Ranking(case) ==
  [k \in 1 .. Cardinality(Ranked) |->
     CHOOSE p \in Ranked : Cardinality({q \in Ranked : Ahead(case, q, p)}) = k - 1]
WinCount(policy) == Cardinality({case \in DOMAIN Cases : Ranking(case)[1] = policy})
Switches == {case \in DOMAIN Cases : Ranking(case) # Ranking(Central)}

WorstDelta(policy) ==
  Max({FamilyCost(case, policy) - FamilyCost(Central, policy) : case \in DOMAIN Cases})

\* All cells are done: their metrics are there and the policies are ranked.
RankPolicies ==
  /\ step28 = "episodes" /\ cell = NoCell /\ Len(paths) = 2
  /\ means' \in [DOMAIN Cases -> [Fixed \cup Trained -> CostValues]]
  /\ step28' = "ranked" /\ paths' = << >>
  /\ UNCHANGED <<cell, stress, history, lost, delivered, contrasts, block, resample>>

-----------------------------------------------------------------------------
(* Inference on the costs of the cells.                                    *)

Episodes == 0 .. EpisodeCount - 1
CaseOrder == SetToSeq(DOMAIN Cases)
ChallengerOrder == <<"ppo_aggregate", "twap", "immediate">>
ContrastOrder ==
  [k \in 1 .. Len(CaseOrder) * Len(ChallengerOrder) |->
     <<CaseOrder[((k - 1) \div Len(ChallengerOrder)) + 1],
       ChallengerOrder[((k - 1) % Len(ChallengerOrder)) + 1]>>]

\* select_block_length: quiet are the lags without autocorrelation.
select_block_length(quiet) ==
  LET calm == {lag \in 1 .. MaxBlock : lag \in quiet /\ lag + 1 \in quiet}
      selected == IF calm = {} THEN MaxBlock ELSE Min(calm)
  IN Max({MinBlock, selected})

SelectBlock ==
  /\ step28 = "ranked" /\ step28' = "contrasts"
  /\ \E quiet \in SUBSET (1 .. MaxBlock + 1) : block' = select_block_length(quiet)
  /\ means' = << >>
  /\ UNCHANGED <<cell, stress, history, lost, delivered, paths, contrasts, resample>>

\* paired_block_inference of the next case and challenger.
Contrast ==
  /\ step28 = "contrasts" /\ Len(contrasts) < Len(ContrastOrder)
  /\ \E p \in PValues : contrasts' = Append(contrasts, p)
  /\ UNCHANGED <<step28, cell, stress, history, lost, delivered, paths, means, block, resample>>

\* Raw p-values by family: one challenger in the cases of one dimension.
HolmFamilies == {<<Cases[case].dimension, p>> : case \in DOMAIN Cases, p \in Challengers}
Family(f) ==
  {k \in DOMAIN ContrastOrder :
     Cases[ContrastOrder[k][1]].dimension = f[1] /\ ContrastOrder[k][2] = f[2]}

\* holm_adjust: the members of a family by p-value, then by name.
Rank(raw, k) ==
  Cardinality({j \in DOMAIN raw : raw[j] < raw[k] \/ (raw[j] = raw[k] /\ j < k)})
holm_adjust_bug(raw) ==
  [k \in DOMAIN raw |-> Min({1000, (Cardinality(DOMAIN raw) - Rank(raw, k)) * raw[k]})]

holm_adjust(raw) ==
  LET candidate(k) == Min({1000, (Cardinality(DOMAIN raw) - Rank(raw, k)) * raw[k]})
  IN [k \in DOMAIN raw |-> Max({candidate(j) : j \in {i \in DOMAIN raw : Rank(raw, i) <= Rank(raw, k)}})]

RawOf(f) == [k \in Family(f) |-> contrasts[k]]

\* The adjusted values are written; the rankings are resampled next.
AdjustFamilies ==
  /\ step28 = "contrasts" /\ Len(contrasts) = Len(ContrastOrder)
  /\ step28' = "rankings" /\ contrasts' = << >>
  /\ UNCHANGED <<cell, stress, history, lost, delivered, paths, means, block, resample>>

\* moving_block_indices: a block starts anywhere and wraps around.
Blocks(length) == (EpisodeCount + length - 1) \div length
StartsOf(length) == [1 .. Blocks(length) -> Episodes]

moving_block_indices(starts, length) ==
  [k \in 1 .. EpisodeCount |->
     (starts[((k - 1) \div length) + 1] + ((k - 1) % length)) % EpisodeCount]

\* _ranking_stability: one resample of a case, of the comparator, which comes
\* first, and a challenger.
Resample ==
  /\ step28 = "rankings" /\ resample = NoResample
  /\ \E comparator \in [Episodes -> CostValues], challenger \in [Episodes -> CostValues],
        starts \in StartsOf(block) :
       resample' = [comparator |-> comparator, challenger |-> challenger, starts |-> starts]
  /\ UNCHANGED <<step28, cell, stress, history, lost, delivered, paths, means, contrasts, block>>

\* The total cost of a policy in a resample.
BootCost(policy) ==
  LET indices == moving_block_indices(resample.starts, block)
  IN SumFunctionOnSet([k \in 1 .. EpisodeCount |-> resample[policy][indices[k]]], 1 .. EpisodeCount)

\* The first of the least.
Winner == IF BootCost("comparator") <= BootCost("challenger") THEN "comparator" ELSE "challenger"

StressNext ==
  \/ BeginStress \/ DecideStressed \/ EndStressed \/ RankPolicies
  \/ SelectBlock \/ Contrast \/ AdjustFamilies \/ Resample

StressSpec == StressInit /\ [][StressNext]_stressVars

-----------------------------------------------------------------------------
(* Properties.                                                             *)

\* Late and lost observations degrade what a policy knows, never what it may
\* do: no policy takes a masked action in any stress case, every episode
\* buys the whole parent order, and the logged rewards can be reconstructed.
DegradedPoliciesValid ==
  cell # NoCell =>
    /\ stress.invalid = 0
    /\ stress.done => stress.remaining = 0
    /\ stress.step > 0 => reconstruct_reward(stress.row) = stress.row.reward

\* What a policy is given is never from the future, never older than the
\* case's delay and its run of losses explain, and never goes back: a lost
\* observation is not delivered later.
DeliveredIsPast ==
  cell # NoCell /\ Len(lost) > 0 =>
    LET now == Len(lost)
        delay == Cases[cell.case].delay
        heard == {k \in 1 .. now : ~lost[k]}
    IN /\ delivered \in 1 .. now
       /\ delivered = IF heard = {} THEN 1 ELSE GreaterOf(1, Max(heard) - delay)

\* Under stress a policy knows less, and still executes as it should.
StressedSound == DegradedPoliciesValid /\ DeliveredIsPast

\* The summary of the rankings adds up: every case is won once, a ranking
\* lists every policy with costs that never fall, and the worst change against
\* the central case is no improvement for any policy.
RankingsAddUp ==
  step28 = "ranked" =>
    /\ SumFunctionOnSet([p \in Ranked |-> WinCount(p)], Ranked) = Cardinality(DOMAIN Cases)
    /\ Switches \subseteq DOMAIN Cases \ {Central}
    /\ \A p \in Ranked : WorstDelta(p) >= 0
    /\ \A case \in DOMAIN Cases, k \in 2 .. Cardinality(Ranked) :
         FamilyCost(case, Ranking(case)[k - 1]) <= FamilyCost(case, Ranking(case)[k])

\* An adjusted p-value is below the level exactly when Holm's step-down test
\* of the family rejects: every hypothesis with a p-value no larger is below
\* its own share of the level.
HolmStepDown ==
  step28 = "contrasts" /\ Len(contrasts) = Len(ContrastOrder) =>
    \A f \in HolmFamilies :
      LET raw == RawOf(f)
          m == Cardinality(DOMAIN raw)
      IN \A k \in DOMAIN raw :
           holm_adjust(raw)[k] < Alpha
             <=> \A j \in DOMAIN raw :
                   Rank(raw, j) <= Rank(raw, k) => (m - Rank(raw, j)) * raw[j] < Alpha

\* Every episode is equally likely in every place of a resample, those at the
\* ends of the order too.
UniformBlocks(length) ==
  \A k \in 1 .. EpisodeCount, i, j \in Episodes :
    Cardinality({s \in StartsOf(length) : moving_block_indices(s, length)[k] = i})
      = Cardinality({s \in StartsOf(length) : moving_block_indices(s, length)[k] = j})
BootstrapUniform == step28 = "contrasts" /\ contrasts = << >> => UniformBlocks(block)

\* Policies are resampled together: a challenger that is nowhere cheaper wins
\* no resample.
DominatedNeverWins ==
  resample # NoResample /\ (\A e \in Episodes : resample.challenger[e] >= resample.comparator[e])
    => Winner = "comparator"

\* What the study concludes: rankings, tests and resamples are consistent.
InferenceSound == RankingsAddUp /\ HolmStepDown /\ BootstrapUniform /\ DominatedNeverWins

\* Two episodes of one case on one seed read the market of a step from the
\* same place of the random stream, whatever the policies do: the paths that
\* the statistics pair are the paths of one market.
PairedMarketPath ==
  \A e, f \in DOMAIN paths :
    \A k \in DOMAIN paths[e].places \cap DOMAIN paths[f].places :
      paths[e].places[k] = paths[f].places[k]
=============================================================================
