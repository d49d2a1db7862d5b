------------------------ MODULE ResearchStudies_proofs ------------------------
(***************************************************************************)
(* Theorems about the studies of the research pipeline, for every number   *)
(* of lots, decisions, seeds and updates, for every set of markets,        *)
(* regimes, stress cases, forecasts and splits, for every stream of events *)
(* that the features and labels are built from, and for every tail of      *)
(* losses.                                                                 *)
(***************************************************************************)
EXTENDS ResearchStudies, SumTheorems, SequenceTheorems

-----------------------------------------------------------------------------
(***************************************************************************)
(* One step of the execution environment.                                  *)
(***************************************************************************)

\* The labels by their places.
LEMMA LabelFacts ==
  /\ Actions = 1..6
  /\ Labels[1] = "wait" /\ Labels[2] = "passive_25" /\ Labels[3] = "passive_50"
  /\ Labels[4] = "aggressive_25" /\ Labels[5] = "aggressive_50" /\ Labels[6] = "aggressive_100"
BY DEF Actions, Labels

LEMMA IndexFacts == Index("wait") = 1 /\ Index("aggressive_100") = 6
<1>1. \A a \in Actions : Labels[a] = "wait" <=> a = 1
  BY LabelFacts
<1>2. \A a \in Actions : Labels[a] = "aggressive_100" <=> a = 6
  BY LabelFacts
<1>3. 1 \in Actions /\ 6 \in Actions
  BY LabelFacts
<1> QED BY <1>1, <1>2, <1>3 DEF Index

\* An environment whose episode can go on, with its books in order.
Open(e) ==
  /\ e.step \in 0 .. Steps - 1 /\ e.remaining \in 1 .. ParentLots
  /\ e.executed = ParentLots - e.remaining
  /\ e.invalid \in Nat /\ e.market \in Markets /\ e.done = FALSE

\* An environment whose episode is over: everything has been bought.
Closed(e) ==
  /\ e.step \in 1 .. Steps /\ e.remaining = 0 /\ e.executed = ParentLots
  /\ e.invalid \in Nat /\ e.market \in Markets /\ e.done = TRUE

\* The environment of an episode, and what its log says of its last step.
EnvSound(e) ==
  /\ Open(e) \/ Closed(e)
  /\ e.step > 0 => reconstruct_reward(e.row) = e.row.reward

\* In an open episode the mask is never empty and always has the order for
\* the whole remainder.
LEMMA MaskOpen ==
  ASSUME NEW e, Open(e)
  PROVE  Mask(e) \subseteq Actions /\ Index("aggressive_100") \in Mask(e)
<1>1. ~ (e.remaining <= 0)
  BY EnvAssumption DEF Open, EpisodeContract
<1>2. \/ Mask(e) = {a \in Actions : Aggressive(Labels[a])}
      \/ Mask(e) = Actions
  BY <1>1 DEF Mask
<1>3. Index("aggressive_100") = 6 /\ 6 \in Actions /\ Aggressive(Labels[6])
  BY IndexFacts, LabelFacts DEF Aggressive
<1> QED BY <1>2, <1>3

\* A policy that looks at the mask of an open episode obeys it, whatever the
\* observation is that it acts on.
LEMMA PolicyObeys ==
  ASSUME NEW e, Open(e), NEW seen, NEW policy, policy # "unmasked",
         NEW a \in ActionsOf(policy, seen, Mask(e))
  PROVE  a \in Mask(e)
<1> DEFINE mask == Mask(e)
<1>1. Index("aggressive_100") \in mask
  BY MaskOpen
<1> HIDE DEF mask
<1>2. immediate_policy(mask) \in mask
  BY <1>1 DEF immediate_policy
<1>3. \A label : OrImmediate(mask, label) \in mask
  BY <1>2 DEF OrImmediate
<1>4. twap_policy(seen, mask) \in mask /\ liquidity_aware_policy(seen, mask) \in mask
      /\ wait_policy(mask) \in mask
  BY <1>3 DEF twap_policy, liquidity_aware_policy, wait_policy
<1>5. a \in ActionsOf(policy, seen, mask)
  BY DEF mask
<1>6. a \in mask
  BY <1>2, <1>4, <1>5 DEF ActionsOf
<1> QED BY <1>6 DEF mask
-----------------------------------------------------------------------------
\* The quantity that is asked for is never more than what is left.
LEMMA QuantityBounded ==
  ASSUME NEW e, e.remaining \in Nat, NEW label,
         label \in {"wait", "passive_25", "passive_50", "aggressive_25", "aggressive_50",
                   "aggressive_100"}
  PROVE  quantity_for_action(e, label) \in 0 .. e.remaining
<1>1. CASE label = "wait"
  BY <1>1 DEF quantity_for_action
<1>2. CASE label # "wait"
  <2>1. PICK x \in Int : x = (e.remaining * Percent(label) + 99) \div 100
    BY <1>2 DEF Percent
  <2>2. quantity_for_action(e, label) = SmallerOf(e.remaining, GreaterOf(1, x))
    BY <1>2, <2>1 DEF quantity_for_action
  <2> QED BY <2>2 DEF SmallerOf, GreaterOf
<1> QED BY <1>1, <1>2

\* A passive order fills at most what it asked for.
LEMMA PassiveBounded ==
  ASSUME NEW e, e.market \in Markets, NEW requested \in Nat,
         NEW fill \in passive_fills(e, requested)
  PROVE  fill \in 0 .. requested
<1>1. PICK x \in Int : x = GreaterOf(1, (e.market.bidDepth * 65) \div 100)
  BY EnvAssumption DEF EpisodeContract, GreaterOf
<1>2. fill \in 0 .. SmallerOf(requested, x)
  BY <1>1 DEF passive_fills
<1> QED BY <1>2 DEF SmallerOf

\* What is not filled costs nothing.
LEMMA NoFillNoCost ==
  ASSUME NEW price, NEW depth, NEW momentum, NEW aggressive
  PROVE  cost_for_fill(0, price, depth, momentum, aggressive) = NoCost
BY DEF cost_for_fill

\* A log row yields its own reward again.
LEMMA RowReconstructs ==
  ASSUME NEW e, NEW a, NEW label, NEW aggressive \in Nat, NEW passive \in Nat, NEW market,
         label \in {"wait", "passive_25", "passive_50", "aggressive_25", "aggressive_50",
                   "aggressive_100"},
         ~ Aggressive(label) => aggressive = 0, ~ Passive(label) => passive = 0,
         e.remaining - aggressive - passive \in Nat
  PROVE  reconstruct_reward(Row(e, a, label, aggressive, passive, market))
           = Row(e, a, label, aggressive, passive, market).reward
<1> DEFINE row == Row(e, a, label, aggressive, passive, market)
           bought == PressedAsk(aggressive, e.market)
           rest == IF e.step + 1 >= Steps /\ e.remaining - aggressive - passive > 0
                   THEN e.remaining - aggressive - passive ELSE 0
<1>1. /\ row.aggressive = aggressive /\ row.passive = passive /\ row.before = e.remaining
      /\ row.invalid = (a \notin Mask(e)) /\ row.momentum = e.market.momentum
      /\ row.terminal = rest
      /\ row.price = CASE Aggressive(label) -> bought
                       [] Passive(label)    -> <<e.market.bid>>
                       [] OTHER             -> << >>
      /\ row.depth = CASE Aggressive(label) -> e.market.askDepth
                       [] Passive(label)    -> e.market.bidDepth
                       [] OTHER             -> 1
      /\ row.terminalPrice = IF rest > 0 THEN PressedAsk(rest, market) ELSE << >>
      /\ row.terminalDepth = IF rest > 0 THEN market.askDepth ELSE 1
      /\ row.terminalMomentum = IF rest > 0 THEN market.momentum ELSE 0
  BY DEF Row
<1>2. row.reward =
        <<IF Passive(label)
            THEN cost_for_fill(passive, <<e.market.bid>>, e.market.bidDepth,
                               e.market.momentum, FALSE)
            ELSE cost_for_fill(aggressive, bought, e.market.askDepth, e.market.momentum, TRUE),
          e.remaining, a \notin Mask(e),
          cost_for_fill(rest, PressedAsk(rest, market), market.askDepth, market.momentum, TRUE)>>
  BY DEF Row
<1>3. Aggressive(label) => ~ Passive(label)
  BY DEF Aggressive, Passive
<1>4. ~ Aggressive(label) /\ ~ Passive(label) => label = "wait"
  BY DEF Aggressive, Passive
<1>5. rest \in Nat
  OBVIOUS
<1> HIDE DEF rest, bought, row
<1>6. cost_for_fill(row.terminal, row.terminalPrice, row.terminalDepth, row.terminalMomentum, TRUE)
        = cost_for_fill(rest, PressedAsk(rest, market), market.askDepth, market.momentum, TRUE)
  <2>1. CASE rest > 0
    BY <1>1, <2>1
  <2>2. CASE ~ (rest > 0)
    <3>1. row.terminal = 0 /\ rest = 0
      BY <1>1, <1>5, <2>2
    <3> QED BY <3>1, NoFillNoCost
  <2> QED BY <2>1, <2>2
<1>7. cost_for_fill(row.aggressive + row.passive, row.price, row.depth, row.momentum,
                    row.aggressive > 0)
        = IF Passive(label)
            THEN cost_for_fill(passive, <<e.market.bid>>, e.market.bidDepth,
                               e.market.momentum, FALSE)
            ELSE cost_for_fill(aggressive, bought, e.market.askDepth, e.market.momentum, TRUE)
  <2>1. CASE Aggressive(label)
    <3>1. /\ row.price = bought /\ row.depth = e.market.askDepth
          /\ row.momentum = e.market.momentum
          /\ row.aggressive = aggressive /\ row.aggressive + row.passive = aggressive
      BY <1>1, <1>3, <2>1
    <3>2. CASE aggressive = 0
      BY <1>3, <2>1, <3>1, <3>2, NoFillNoCost
    <3>3. CASE aggressive # 0
      <4>1. (row.aggressive > 0) = TRUE
        BY <3>1, <3>3
      <4> QED BY <1>3, <2>1, <3>1, <4>1
    <3> QED BY <3>2, <3>3
  <2>2. CASE Passive(label)
    <3>1. ~ Aggressive(label)
      BY <1>3, <2>2
    <3>2. /\ row.price = <<e.market.bid>> /\ row.depth = e.market.bidDepth
          /\ row.momentum = e.market.momentum
          /\ row.aggressive = 0 /\ row.aggressive + row.passive = passive
      BY <1>1, <2>2, <3>1
    <3>3. (row.aggressive > 0) = FALSE
      BY <3>2
    <3> QED BY <2>2, <3>2, <3>3
  <2>3. CASE ~ Aggressive(label) /\ ~ Passive(label)
    <3>1. row.aggressive + row.passive = 0 /\ aggressive = 0
      BY <1>1, <2>3
    <3> QED BY <2>3, <3>1, NoFillNoCost
  <2> QED BY <2>1, <2>2, <2>3
<1>8. reconstruct_reward(row) = row.reward
  BY <1>1, <1>2, <1>6, <1>7 DEF reconstruct_reward
<1> QED BY <1>8 DEF row
\* The environment after fills and a new market.
Stepped(e, a, label, aggressive, passive, market) ==
  LET row == Row(e, a, label, aggressive, passive, market)
  IN [step |-> e.step + 1, remaining |-> row.after,
      executed |-> e.executed + aggressive + passive + row.terminal,
      draws |-> e.draws + (IF Passive(label) THEN 2 ELSE 0) + 5,
      market |-> market, row |-> row,
      done |-> row.after = 0 \/ e.step + 1 >= Steps,
      invalid |-> e.invalid + IF row.invalid THEN 1 ELSE 0]

\* A step of an open episode keeps the books in order, and what it logs yields
\* the reward again; an episode whose time is up has bought what was left.
LEMMA StepSound ==
  ASSUME NEW e, Open(e), NEW a \in Actions, NEW f \in step(e, a)
  PROVE  /\ EnvSound(f) /\ f.step = e.step + 1 /\ f.row.before = e.remaining
         /\ a \in Mask(e) => f.invalid = e.invalid
<1> DEFINE label == IF a \in Mask(e) THEN Labels[a] ELSE "wait"
           requested == quantity_for_action(e, label)
           aggressive == IF Aggressive(label) THEN requested ELSE 0
<1>0. /\ ParentLots \in Nat \ {0} /\ Steps \in Nat /\ Steps >= 2
      /\ e.step \in Nat /\ e.step + 1 <= Steps /\ e.remaining \in Nat /\ e.invalid \in Nat
  BY EnvAssumption DEF EpisodeContract, Open
<1>1. label \in {"wait", "passive_25", "passive_50", "aggressive_25", "aggressive_50",
                 "aggressive_100"}
  BY LabelFacts
<1>2. requested \in 0 .. e.remaining
  BY <1>0, <1>1, QuantityBounded
<1>3. PICK passive \in (IF Passive(label) THEN passive_fills(e, requested) ELSE {0}),
           market \in Markets : f = Stepped(e, a, label, aggressive, passive, market)
  BY DEF step, Stepped
<1>4. Aggressive(label) => ~ Passive(label)
  BY DEF Aggressive, Passive
<1> HIDE DEF label, requested
<1>5. /\ aggressive \in 0 .. e.remaining /\ passive \in 0 .. e.remaining
      /\ ~ Aggressive(label) => aggressive = 0
      /\ ~ Passive(label) => passive = 0
  <2>1. CASE Passive(label)
    <3>1. passive \in passive_fills(e, requested) /\ e.market \in Markets /\ requested \in Nat
      BY <1>2, <1>3, <2>1 DEF Open
    <3>2. passive \in 0 .. requested
      BY <3>1, PassiveBounded
    <3> QED BY <1>0, <1>2, <1>4, <2>1, <3>2
  <2>2. CASE ~ Passive(label)
    BY <1>0, <1>2, <1>3, <2>2
  <2> QED BY <2>1, <2>2
<1>6. e.remaining - aggressive - passive \in Nat
  BY <1>0, <1>4, <1>5
<1> HIDE DEF aggressive
<1> DEFINE rest == IF e.step + 1 >= Steps /\ e.remaining - aggressive - passive > 0
                   THEN e.remaining - aggressive - passive ELSE 0
           row == Row(e, a, label, aggressive, passive, market)
<1>7. /\ row.before = e.remaining /\ row.terminal = rest
      /\ row.after = e.remaining - aggressive - passive - rest
      /\ row.invalid = (a \notin Mask(e))
  BY DEF Row
<1>8. reconstruct_reward(row) = row.reward
  BY <1>1, <1>5, <1>6, RowReconstructs
<1> HIDE DEF row
<1>9. /\ f.step = e.step + 1 /\ f.remaining = row.after /\ f.row = row /\ f.market = market
      /\ f.executed = e.executed + aggressive + passive + rest
      /\ f.done = (row.after = 0 \/ e.step + 1 >= Steps)
      /\ f.invalid = e.invalid + IF row.invalid THEN 1 ELSE 0
  BY <1>3, <1>7 DEF Stepped, row
<1>10. f.invalid \in Nat /\ (a \in Mask(e) => f.invalid = e.invalid)
  <2>1. CASE a \in Mask(e)
    <3>1. (a \notin Mask(e)) = FALSE
      BY <2>1
    <3>2. row.invalid = FALSE
      BY <1>7, <3>1, Zenon
    <3> QED BY <1>0, <1>9, <3>2
  <2>2. CASE a \notin Mask(e)
    <3>1. (a \notin Mask(e)) = TRUE
      BY <2>2
    <3>2. row.invalid = TRUE
      BY <1>7, <3>1, Zenon
    <3> QED BY <1>0, <1>9, <2>2, <3>2
  <2> QED BY <2>1, <2>2
<1>11. f.remaining \in 0 .. ParentLots /\ f.executed = ParentLots - f.remaining
  BY <1>0, <1>5, <1>6, <1>7, <1>9 DEF Open
<1>12. CASE f.remaining # 0 /\ e.step + 1 < Steps
  <2>1. f.done = FALSE
    <3>1. ~ (row.after = 0 \/ e.step + 1 >= Steps)
      BY <1>0, <1>9, <1>12
    <3>2. (row.after = 0 \/ e.step + 1 >= Steps) = FALSE
      BY <3>1
    <3> QED BY <1>9, <3>2, Zenon
  <2>2. Open(f)
    BY <1>0, <1>9, <1>10, <1>11, <1>12, <2>1 DEF Open
  <2> QED BY <1>7, <1>8, <1>9, <1>10, <2>2 DEF EnvSound
<1>13. CASE f.remaining = 0 \/ e.step + 1 >= Steps
  <2>1. f.done = TRUE
    BY <1>0, <1>9, <1>13
  <2>2. f.remaining = 0
    BY <1>0, <1>6, <1>7, <1>9, <1>13
  <2>3. Closed(f)
    BY <1>0, <1>9, <1>10, <1>11, <2>1, <2>2 DEF Closed
  <2> QED BY <1>7, <1>8, <1>9, <1>10, <2>3 DEF EnvSound
<1> QED BY <1>0, <1>12, <1>13

LEMMA ResetSound ==
  ASSUME NEW m \in Markets
  PROVE  Open(NewEnv(m)) /\ EnvSound(NewEnv(m)) /\ NewEnv(m).invalid = 0
<1>1. ParentLots \in Nat \ {0} /\ Steps \in Nat /\ Steps >= 2
  BY EnvAssumption DEF EpisodeContract
<1> QED BY <1>1 DEF Open, EnvSound, NewEnv
-----------------------------------------------------------------------------
(***************************************************************************)
(* The reinforcement learning study.                                       *)
(***************************************************************************)

\* The episode that runs is in order, and only a caller outside the study has
\* tried a masked action in it.
EpisodeSound ==
  /\ Running => EnvSound(env) /\ (stage # "caller" => env.invalid = 0)
  /\ episode \in 0 .. EpisodesOf - 1
  /\ stage \in {"update", "reported", "stopped"} => ~ Running

\* Whether results have a seed on a split.
Reported(done, k, split) == \E r \in done : r.policy = "trained" /\ r.seed = k /\ r.split = split

\* Seeds are done one after the other, first in and then out of distribution.
SeedsInTurn ==
  /\ stage \in {"rollout", "update", "id", "ood"} => seed \in 0 .. Seeds - 1
  /\ stage \in {"baseline", "reported"} => seed = Seeds
  /\ stage \in {"rollout", "update", "id", "ood", "baseline", "reported", "caller", "stopped"}
  /\ stage \in {"caller", "stopped"} => seed = 0
  /\ \A k \in 1 .. seed, split \in {"id", "ood"} : Reported(results, k, split)
  /\ stage = "ood" => Reported(results, seed + 1, "id")
  /\ model \subseteq TrainRegimes
  /\ stage = "rollout" /\ Running => regime \in TrainRegimes

\* What a rollout holds: whole episodes, but for the one that runs.
StepRecords == [reward : Int, value : Int, done : BOOLEAN]
RolloutWhole ==
  /\ batch \in Seq(StepRecords)
  /\ stage \notin {"rollout", "update"} => batch = << >>
  /\ (stage \in {"rollout", "update"} /\ (Running => env.done) /\ batch # << >>)
       => batch[Len(batch)].done

TrainingInv == EpisodeSound /\ StudyActionsValid /\ SeedsInTurn /\ RolloutWhole
LEMMA TrainingStart ==
  ASSUME TrainingInit
  PROVE  TrainingInv
<1>1. Seeds \in Nat \ {0} /\ RolloutEpisodes \in Nat \ {0}
  BY TrainingAssumption DEF TrainingBudget
<1>2. 0 \in 0 .. EpisodesOf - 1
  BY <1>1 DEF TrainingInit, EpisodesOf
<1>3. EpisodeSound /\ StudyActionsValid
  BY <1>2 DEF TrainingInit, EpisodeSound, StudyActionsValid, Running, NoRegime
<1>4. SeedsInTurn
  BY <1>1 DEF TrainingInit, SeedsInTurn, Running, NoRegime
<1>5. RolloutWhole
  BY DEF TrainingInit, RolloutWhole
<1> QED BY <1>3, <1>4, <1>5 DEF TrainingInv

LEMMA BeginEpisodeKeeps ==
  ASSUME TrainingInv, BeginEpisode
  PROVE  TrainingInv'
<1>1. PICK m \in Markets : env' = NewEnv(m)
  BY DEF BeginEpisode
<1>2. Open(env') /\ EnvSound(env') /\ env'.invalid = 0 /\ env'.done = FALSE
  BY <1>1, ResetSound DEF Open
<1>3. stage = "rollout" => regime' \in TrainRegimes
  BY DEF BeginEpisode, RegimesOf, SplitOf
<1>4. EpisodeSound'
  BY <1>2 DEF TrainingInv, BeginEpisode, EpisodeSound, EpisodesOf, Running
<1>5. StudyActionsValid'
  BY DEF TrainingInv, BeginEpisode, StudyActionsValid
<1>6. SeedsInTurn'
  BY <1>3 DEF TrainingInv, BeginEpisode, SeedsInTurn, Reported, Running
<1>7. RolloutWhole'
  BY <1>2 DEF TrainingInv, BeginEpisode, RolloutWhole, Running
<1> QED BY <1>4, <1>5, <1>6, <1>7 DEF TrainingInv

\* Only the caller outside the study chooses without the mask.
LEMMA StudyObeys ==
  ASSUME EpisodeSound, stage # "caller"
  PROVE  Actor # "unmasked"
<1>1. CASE stage = "baseline"
  <2>1. episode \in 0 .. 9
    BY <1>1 DEF EpisodeSound, EpisodesOf, Baselines
  <2>2. (episode \div 2) + 1 \in 1 .. 5
    BY <2>1
  <2>3. \A i \in 1 .. 5 : Baselines[i] # "unmasked"
    BY DEF Baselines
  <2> QED BY <1>1, <2>2, <2>3 DEF Actor
<1>2. CASE stage # "baseline"
  BY <1>2 DEF Actor
<1> QED BY <1>1, <1>2

LEMMA ActKeeps ==
  ASSUME TrainingInv, Act
  PROVE  TrainingInv'
<1>1. PICK a \in ActionsOf(Actor, env, Mask(env)) : env' \in step(env, a)
  BY DEF Act
<1>2. Open(env)
  BY DEF TrainingInv, EpisodeSound, EnvSound, Act, Closed
<1>3. Mask(env) \subseteq Actions
  BY <1>2, MaskOpen
<1>4. stage # "caller" => a \in Mask(env)
  <2> SUFFICES ASSUME stage # "caller" PROVE a \in Mask(env)
    OBVIOUS
  <2>1. Actor # "unmasked"
    BY StudyObeys DEF TrainingInv
  <2> QED BY <1>1, <1>2, <2>1, PolicyObeys
<1>5. a \in Actions
  <2>1. CASE stage = "caller"
    BY <1>1, <2>1 DEF Actor, ActionsOf
  <2> QED BY <1>3, <1>4, <2>1
<1>6. /\ EnvSound(env') /\ env'.row.before = env.remaining
      /\ a \in Mask(env) => env'.invalid = env.invalid
  BY <1>1, <1>2, <1>5, StepSound
<1>7. UNCHANGED <<stage, seed, update, episode, regime, model, results>> /\ Running
  BY DEF Act
<1>8. EpisodeSound'
  BY <1>4, <1>6, <1>7 DEF TrainingInv, EpisodeSound, EpisodesOf, Running
<1>9. StudyActionsValid' /\ SeedsInTurn'
  BY <1>7 DEF TrainingInv, StudyActionsValid, SeedsInTurn, Reported, Running
<1>10. RolloutWhole'
  <2>1. CASE stage # "rollout"
    <3>1. stage # "update" /\ batch' = batch
      BY <1>7, <2>1 DEF TrainingInv, EpisodeSound, Act
    <3> QED BY <1>7, <2>1, <3>1 DEF TrainingInv, RolloutWhole
  <2>2. CASE stage = "rollout"
    <3>1. PICK record : /\ record = [reward |-> RewardOf(env'.row), value |-> ValueOf(env),
                                     done |-> env'.done]
                        /\ batch' = Append(batch, record)
      BY <2>2 DEF Act
    <3>2. env'.done \in BOOLEAN
      BY <1>6 DEF EnvSound, Open, Closed
    <3>3. ValueOf(env) \in Int /\ RewardOf(env'.row) \in Int
      BY <1>2, <1>6, EnvAssumption DEF Open, EpisodeContract, ValueOf, RewardOf
    <3>4. record \in StepRecords /\ record.done = env'.done
      BY <3>1, <3>2, <3>3 DEF StepRecords
    <3>5. PICK S : S = StepRecords
      OBVIOUS
    <3>6. batch \in Seq(S) /\ record \in S
      BY <3>4, <3>5 DEF TrainingInv, RolloutWhole
    <3>7. batch' \in Seq(S) /\ batch'[Len(batch')] = record
      BY <3>1, <3>6
    <3> QED BY <1>7, <2>2, <3>4, <3>5, <3>7 DEF RolloutWhole, Running
  <2> QED BY <2>1, <2>2
<1> QED BY <1>8, <1>9, <1>10 DEF TrainingInv
LEMMA EndEpisodeKeeps ==
  ASSUME TrainingInv, EndEpisode
  PROVE  TrainingInv'
<1> DEFINE last == episode + 1 = EpisodesOf
<1>1. /\ Running /\ env.done /\ regime' = NoRegime
      /\ episode' = IF last THEN 0 ELSE episode + 1
      /\ stage' = IF last THEN StageAfter ELSE stage
      /\ model' = CASE stage = "rollout"       -> model \cup {regime}
                    [] last /\ stage = "ood"    -> {}
                    [] OTHER                    -> model
      /\ results' = IF stage \in {"rollout", "caller"} THEN results ELSE results \cup {Result}
      /\ seed' = IF last /\ stage = "ood" THEN seed + 1 ELSE seed
      /\ batch' = batch
  BY DEF EndEpisode
<1>2. ~ Running'
  BY <1>1 DEF Running
<1>3. Closed(env) /\ (stage # "caller" => env.invalid = 0)
  BY <1>1 DEF TrainingInv, EpisodeSound, EnvSound, Open
<1>4. Seeds \in Nat \ {0} /\ RolloutEpisodes \in Nat \ {0}
  BY TrainingAssumption DEF TrainingBudget
<1>5. stage \in {"rollout", "id", "ood", "baseline", "caller"} /\ EpisodesOf \in Nat \ {0}
      /\ episode \in 0 .. EpisodesOf - 1
  <2>1. stage \in {"rollout", "id", "ood", "baseline", "caller"}
    BY <1>1 DEF TrainingInv, SeedsInTurn, EpisodeSound
  <2>2. EpisodesOf \in Nat \ {0}
    BY <1>4, <2>1 DEF EpisodesOf, Baselines
  <2> QED BY <2>1, <2>2 DEF TrainingInv, EpisodeSound
<1>6. EpisodeSound'
  <2>1. CASE last
    <3>1. episode' = 0
      BY <1>1, <2>1
    <3>2. PICK n \in Nat \ {0} : EpisodesOf' = n
      BY <1>4 DEF EpisodesOf, Baselines
    <3>3. episode' \in 0 .. EpisodesOf' - 1
      BY <3>1, <3>2
    <3> QED BY <1>2, <3>3 DEF EpisodeSound
  <2>2. CASE ~ last
    <3>1. stage' = stage /\ episode' = episode + 1 /\ EpisodesOf' = EpisodesOf
      BY <1>1, <2>2 DEF EpisodesOf
    <3>2. episode' \in 0 .. EpisodesOf' - 1
      BY <1>5, <2>2, <3>1
    <3> QED BY <1>2, <3>2 DEF EpisodeSound
  <2> QED BY <2>1, <2>2
<1>7. StudyActionsValid'
  <2> SUFFICES ASSUME NEW r \in results' PROVE r.completed /\ r.invalid = 0
    BY DEF StudyActionsValid
  <2>1. CASE r \in results
    BY <2>1 DEF TrainingInv, StudyActionsValid
  <2>2. CASE r \notin results
    <3>1. r = Result /\ stage # "caller"
      BY <1>1, <2>2
    <3>2. r.completed = (env.remaining = 0) /\ r.invalid = env.invalid
      BY <3>1 DEF Result
    <3> QED BY <1>3, <3>1, <3>2 DEF Closed
  <2> QED BY <2>1, <2>2
<1>8. SeedsInTurn'
  <2>1. stage' \in {"rollout", "update", "id", "ood", "baseline", "reported", "caller", "stopped"}
    BY <1>1, <1>5 DEF StageAfter
  <2>2. model' \subseteq TrainRegimes
    BY <1>1 DEF TrainingInv, SeedsInTurn
  <2>3. \A k, split : Reported(results, k, split) => Reported(results', k, split)
    BY <1>1 DEF Reported
  <2>4. stage \in {"id", "ood"} => Result \in results' /\ last
    BY <1>1, <1>5 DEF EpisodesOf
  <2>5. stage \in {"id", "ood"} => Reported(results', seed + 1, stage)
    <3>1. SUFFICES ASSUME stage \in {"id", "ood"} PROVE Reported(results', seed + 1, stage)
      OBVIOUS
    <3>2. Result.policy = "trained" /\ Result.seed = seed + 1 /\ Result.split = stage
      BY <3>1 DEF Result, Actor, SplitOf
    <3>3. \E r \in results' : r.policy = "trained" /\ r.seed = seed + 1 /\ r.split = stage
      BY <2>4, <3>1, <3>2
    <3> QED BY <3>3 DEF Reported
  <2>6. CASE stage = "ood"
    <3>1. seed \in 0 .. Seeds - 1 /\ seed' = seed + 1
      BY <1>1, <2>4, <2>6 DEF TrainingInv, SeedsInTurn
    <3>2. stage' = IF seed + 1 < Seeds THEN "rollout" ELSE "baseline"
      BY <1>1, <1>4, <2>4, <2>6, <3>1 DEF StageAfter
    <3>3. \A k \in 1 .. seed', split \in {"id", "ood"} : Reported(results', k, split)
      <4> SUFFICES ASSUME NEW k \in 1 .. seed', NEW split \in {"id", "ood"}
                   PROVE  Reported(results', k, split)
        OBVIOUS
      <4>1. CASE k \in 1 .. seed
        BY <2>3, <4>1 DEF TrainingInv, SeedsInTurn
      <4>2. CASE k = seed + 1
        <5>1. Reported(results', seed + 1, split)
          BY <2>3, <2>5, <2>6 DEF TrainingInv, SeedsInTurn
        <5> QED BY <4>2, <5>1
      <4> QED BY <3>1, <4>1, <4>2
    <3> QED BY <1>2, <1>4, <2>1, <2>2, <3>1, <3>2, <3>3 DEF SeedsInTurn
  <2>7. CASE stage # "ood"
    <3>1. seed' = seed
      BY <1>1, <2>7
    <3>2. /\ stage' = "ood" => stage = "id"
          /\ stage' = "rollout" => stage = "rollout"
          /\ stage' = "update" => stage = "rollout"
          /\ stage' = "id" => stage = "id"
          /\ stage' \in {"baseline", "reported"} => stage = "baseline"
          /\ stage' \in {"caller", "stopped"} => stage = "caller"
      BY <1>1, <1>5, <2>4, <2>7 DEF StageAfter
    <3>3. stage' = "ood" => Reported(results', seed + 1, "id")
      BY <2>5, <3>2
    <3> QED BY <1>2, <2>1, <2>2, <2>3, <3>1, <3>2, <3>3 DEF TrainingInv, SeedsInTurn
  <2> QED BY <2>6, <2>7
<1>9. RolloutWhole'
  <2>1. stage' \in {"rollout", "update"} => stage = "rollout" \/ stage = "ood"
    BY <1>1, <1>5 DEF StageAfter
  <2>2. stage = "rollout" => stage' \in {"rollout", "update"}
    BY <1>1 DEF StageAfter
  <2> QED BY <1>1, <1>5, <2>1, <2>2 DEF TrainingInv, RolloutWhole
<1> QED BY <1>6, <1>7, <1>8, <1>9 DEF TrainingInv

LEMMA UpdateKeeps ==
  ASSUME TrainingInv, Update
  PROVE  TrainingInv'
<1>1. /\ stage = "update" /\ stage' \in {"rollout", "id"} /\ batch' = << >>
      /\ UNCHANGED <<seed, episode, regime, env, model, results>>
  BY DEF Update
<1>2. RolloutEpisodes \in Nat \ {0}
  BY TrainingAssumption DEF TrainingBudget
<1>3. ~ Running /\ episode = 0
  BY <1>1 DEF TrainingInv, EpisodeSound, EpisodesOf
<1>4. EpisodeSound'
  BY <1>1, <1>2, <1>3 DEF EpisodeSound, EpisodesOf, Running
<1>5. StudyActionsValid' /\ SeedsInTurn'
  BY <1>1, <1>3 DEF TrainingInv, StudyActionsValid, SeedsInTurn, Reported, Running
<1>6. RolloutWhole'
  BY <1>1 DEF RolloutWhole
<1> QED BY <1>4, <1>5, <1>6 DEF TrainingInv

LEMMA TrainingKeeps ==
  ASSUME TrainingInv, [TrainingNext]_trainingVars
  PROVE  TrainingInv'
<1>1. CASE UNCHANGED trainingVars
  BY <1>1 DEF trainingVars, TrainingInv, EpisodeSound, StudyActionsValid, SeedsInTurn,
              RolloutWhole, Running, EpisodesOf, Reported
<1> QED BY <1>1, BeginEpisodeKeeps, ActKeeps, EndEpisodeKeeps, UpdateKeeps DEF TrainingNext

LEMMA TrainingAlways == Spec => []TrainingInv
<1>1. Init => TrainingInv
  BY TrainingStart DEF Init
<1>2. TrainingInv /\ [Next]_vars => TrainingInv'
  BY TrainingKeeps DEF Next, vars, Predict, Forecast, Reinforce, Imitate, Stress, Measure
<1> QED BY <1>1, <1>2, PTL DEF Spec

\* No lot is lost or bought twice in an episode, a step's reward is the one that
\* its log row yields, and no policy of the study takes a masked action: the
\* trained one and the baselines all complete, with a rate of invalid actions
\* of zero, whatever the numbers of lots, decisions, seeds and updates are.
THEOREM EpisodesAlwaysExact == Spec => []EpisodesExact
<1>1. TrainingInv => EpisodesExact
  <2>1. EnvAssumption /\ ParentLots \in Nat
    BY EnvAssumption DEF EpisodeContract
  <2> SUFFICES ASSUME TrainingInv PROVE EpisodesExact
    OBVIOUS
  <2>2. LotsConserved
    BY <2>1 DEF TrainingInv, EpisodeSound, EnvSound, Open, Closed, LotsConserved
  <2>3. RewardReconstructs
    BY DEF TrainingInv, EpisodeSound, EnvSound, RewardReconstructs
  <2> QED BY <2>2, <2>3 DEF TrainingInv, EpisodesExact
<1> QED BY <1>1, TrainingAlways, PTL
-----------------------------------------------------------------------------
(***************************************************************************)
(* Returns: sums from a place to the end of its episode.                   *)
(***************************************************************************)

\* The equation of a sum that runs backwards from last to first and starts
\* anew wherever ends holds.
TailSum(f, first, last, base, ends) ==
  f = [i \in first .. last |-> base[i] + IF i = last \/ ends[i] THEN 0 ELSE f[i + 1]]

\* Induction from the last place of an interval to its first.
LEMMA BackwardInduction ==
  ASSUME NEW last \in Nat, NEW first \in Nat, NEW Good,
         \A i \in first .. last : (i < last => i + 1 \in Good) => i \in Good
  PROVE  first .. last \subseteq Good
<1> DEFINE done == {n \in Nat : \A i \in first .. last : last - i <= n => i \in Good}
<1>1. 0 \in done
  BY DEF done
<1>2. \A n \in Nat : n \in done => n + 1 \in done
  <2> SUFFICES ASSUME NEW n \in Nat, n \in done, NEW i \in first .. last, last - i <= n + 1
               PROVE  i \in Good
    BY DEF done
  <2>1. CASE i < last
    <3>1. i + 1 \in first .. last /\ last - (i + 1) <= n
      BY <2>1
    <3> QED BY <3>1
  <2> QED BY <2>1
<1> HIDE DEF done
<1>3. Nat \subseteq done
  BY <1>1, <1>2, NaturalInduction
<1>4. \A i \in first .. last : last - i \in Nat
  OBVIOUS
<1> QED BY <1>3, <1>4 DEF done

\* Sums of integers are integers.
LEMMA TailSumType ==
  ASSUME NEW last \in Nat, NEW first \in Nat, NEW base, NEW ends, NEW f,
         \A i \in first .. last : base[i] \in Int,
         TailSum(f, first, last, base, ends)
  PROVE  \A i \in first .. last : f[i] \in Int
<1> DEFINE Good == {i \in first .. last : f[i] \in Int}
<1>1. \A i \in first .. last : f[i] = base[i] + IF i = last \/ ends[i] THEN 0 ELSE f[i + 1]
  BY Zenon DEF TailSum
<1>2. \A i \in first .. last : (i < last => i + 1 \in Good) => i \in Good
  BY <1>1
<1> HIDE DEF Good
<1>3. first .. last \subseteq Good
  BY <1>2, BackwardInduction
<1> QED BY <1>3 DEF Good

\* There is such a sum.
LEMMA TailSumExists ==
  ASSUME NEW last \in Nat, NEW first \in Nat, NEW base, NEW ends
  PROVE  \E f : TailSum(f, first, last, base, ends)
<1> DEFINE Good == {n \in Nat : \E f : TailSum(f, last + 1 - n, last, base, ends)}
<1>1. 0 \in Good
  <2>1. TailSum([i \in last + 1 .. last |-> 0], last + 1, last, base, ends)
    BY DEF TailSum
  <2> QED BY <2>1
<1>2. \A n \in Nat : n \in Good => n + 1 \in Good
  <2> SUFFICES ASSUME NEW n \in Nat, n \in Good PROVE n + 1 \in Good
    OBVIOUS
  <2>1. PICK f : TailSum(f, last + 1 - n, last, base, ends)
    OBVIOUS
  <2> DEFINE k == last - n
  <2>2. k \in Int /\ k + 1 = last + 1 - n /\ last + 1 - (n + 1) = k /\ k <= last
    OBVIOUS
  <2>3. \A i \in k + 1 .. last : f[i] = base[i] + IF i = last \/ ends[i] THEN 0 ELSE f[i + 1]
    BY <2>1, <2>2, Zenon DEF TailSum
  <2>4. PICK g : g = [i \in k .. last |->
                        IF i = k THEN base[i] + IF i = last \/ ends[i] THEN 0 ELSE f[i + 1]
                        ELSE f[i]]
    OBVIOUS
  <2> HIDE DEF k
  <2>5. \A i \in k + 1 .. last : g[i] = f[i]
    BY <2>2, <2>4
  <2>6. \A i \in k .. last : g[i] = base[i] + IF i = last \/ ends[i] THEN 0 ELSE g[i + 1]
    <3> SUFFICES ASSUME NEW i \in k .. last
                 PROVE  g[i] = base[i] + IF i = last \/ ends[i] THEN 0 ELSE g[i + 1]
      OBVIOUS
    <3>1. i # last => g[i + 1] = f[i + 1]
      BY <2>2, <2>5
    <3>2. g[i] = base[i] + IF i = last \/ ends[i] THEN 0 ELSE f[i + 1]
      BY <2>2, <2>3, <2>4
    <3> QED BY <3>1, <3>2
  <2>7. g = [i \in k .. last |-> g[i]]
    BY <2>4
  <2>8. g = [i \in k .. last |-> base[i] + IF i = last \/ ends[i] THEN 0 ELSE g[i + 1]]
    BY <2>6, <2>7
  <2>9. TailSum(g, k, last, base, ends)
    BY <2>8 DEF TailSum
  <2> QED BY <2>2, <2>9
<1> HIDE DEF Good
<1>3. Nat \subseteq Good
  BY <1>1, <1>2, NaturalInduction
<1>4. CASE first <= last
  <2>1. last + 1 - first \in Nat /\ last + 1 - (last + 1 - first) = first
    BY <1>4
  <2> QED BY <1>3, <2>1 DEF Good
<1>5. CASE ~ (first <= last)
  <2>1. TailSum([i \in first .. last |-> 0], first, last, base, ends)
    BY <1>5 DEF TailSum
  <2> QED BY <2>1
<1> QED BY <1>4, <1>5
\* The advantage recursion of _collect_rollout, as an equation.
Gae(g, steps) ==
  LET n == Len(steps)
  IN g = [k \in 1 .. n |->
            LET next == IF k = n \/ steps[k].done THEN 0 ELSE steps[k + 1].value
            IN steps[k].reward + next - steps[k].value
                 + IF k = n \/ steps[k].done THEN 0 ELSE g[k + 1]]

\* Likewise the sum of the rewards from k to the end of an episode.
Rewards(s, steps, k, end) ==
  s = [i \in k .. end |-> steps[i].reward + IF i = end THEN 0 ELSE s[i + 1]]

RewardSum(steps, k, end) == CHOOSE s : Rewards(s, steps, k, end)

LEMMA GaeFacts ==
  ASSUME NEW steps \in Seq(StepRecords)
  PROVE  \E g : /\ \A k \in 1 .. Len(steps) :
                     /\ g[k] \in Int
                     /\ g[k] = steps[k].reward
                          + (IF k = Len(steps) \/ steps[k].done THEN 0 ELSE steps[k + 1].value)
                          - steps[k].value
                          + IF k = Len(steps) \/ steps[k].done THEN 0 ELSE g[k + 1]
                /\ Returns(steps) = [k \in 1 .. Len(steps) |-> g[k] + steps[k].value]
<1> DEFINE n == Len(steps)
           g == CHOOSE h : Gae(h, steps)
<1>1. n \in Nat /\ \A k \in 1 .. n : steps[k] \in StepRecords
  <2>1. PICK S : S = StepRecords
    OBVIOUS
  <2>2. steps \in Seq(S)
    BY <2>1
  <2> QED BY <2>1, <2>2
<1>2. PICK base : base = [k \in 1 .. n |->
             steps[k].reward + (IF k = n \/ steps[k].done THEN 0 ELSE steps[k + 1].value)
               - steps[k].value]
  OBVIOUS
<1>3. PICK ends : ends = [k \in 1 .. n |-> steps[k].done]
  OBVIOUS
<1>4. PICK f : TailSum(f, 1, n, base, ends)
  BY <1>1, TailSumExists
<1>5. \A h : TailSum(h, 1, n, base, ends) <=> Gae(h, steps)
  <2> TAKE h
  <2>1. \A k \in 1 .. n :
          base[k] + (IF k = n \/ ends[k] THEN 0 ELSE h[k + 1])
            = steps[k].reward + (IF k = n \/ steps[k].done THEN 0 ELSE steps[k + 1].value)
                - steps[k].value + IF k = n \/ steps[k].done THEN 0 ELSE h[k + 1]
    BY <1>2, <1>3
  <2>2. [k \in 1 .. n |-> base[k] + (IF k = n \/ ends[k] THEN 0 ELSE h[k + 1])]
          = [k \in 1 .. n |->
               steps[k].reward + (IF k = n \/ steps[k].done THEN 0 ELSE steps[k + 1].value)
                - steps[k].value + IF k = n \/ steps[k].done THEN 0 ELSE h[k + 1]]
    BY <2>1
  <2> QED BY <2>2 DEF TailSum, Gae
<1>6. Gae(g, steps)
  <2>1. \E h : Gae(h, steps)
    BY <1>4, <1>5
  <2> QED BY <2>1
<1>7. Returns(steps) = [k \in 1 .. n |-> g[k] + steps[k].value]
  BY DEF Returns, Gae
<1> HIDE DEF g, n
<1>8. \A k \in 1 .. n : g[k] = steps[k].reward
             + (IF k = n \/ steps[k].done THEN 0 ELSE steps[k + 1].value) - steps[k].value
             + IF k = n \/ steps[k].done THEN 0 ELSE g[k + 1]
  BY <1>6, Zenon DEF Gae, n
<1>9. \A k \in 1 .. n : base[k] \in Int
  <2>1. \A k \in 1 .. n : steps[k].reward \in Int /\ steps[k].value \in Int
    BY <1>1 DEF StepRecords
  <2> SUFFICES ASSUME NEW k \in 1 .. n
               PROVE  base[k] \in Int
    OBVIOUS
  <2>2. base[k] = steps[k].reward
                    + (IF k = n \/ steps[k].done THEN 0 ELSE steps[k + 1].value) - steps[k].value
    BY <1>2
  <2>3. CASE k = n \/ steps[k].done
    <3>1. base[k] = steps[k].reward + 0 - steps[k].value
      BY <2>2, <2>3, Zenon
    <3> QED BY <2>1, <3>1
  <2>4. CASE ~ (k = n \/ steps[k].done)
    <3>1. k + 1 \in 1 .. n
      BY <1>1, <2>4
    <3>2. base[k] = steps[k].reward + steps[k + 1].value - steps[k].value
      BY <2>2, <2>4, Zenon
    <3> QED BY <2>1, <3>1, <3>2
  <2> QED BY <2>3, <2>4
<1>10. \A k \in 1 .. n : g[k] \in Int
  <2>1. TailSum(g, 1, n, base, ends)
    BY <1>5, <1>6
  <2> QED BY <1>1, <1>9, <2>1, TailSumType
<1> QED BY <1>7, <1>8, <1>10 DEF n

\* What a function must satisfy to be that sum.
Sums(s, steps, k, end) ==
  \A i \in k .. end : s[i] \in Int /\ s[i] = steps[i].reward + IF i = end THEN 0 ELSE s[i + 1]

IntegerRewards(steps, k, end) == \A i \in k .. end : steps[i].reward \in Int

LEMMA RewardsFacts ==
  ASSUME NEW steps, NEW k \in Nat, NEW end \in Nat, IntegerRewards(steps, k, end)
  PROVE  Sums(RewardSum(steps, k, end), steps, k, end)
<1>0. PICK s : s = RewardSum(steps, k, end)
  OBVIOUS
<1>1. PICK base : base = [i \in k .. end |-> steps[i].reward]
  OBVIOUS
<1>2. PICK ends : ends = [i \in k .. end |-> FALSE]
  OBVIOUS
<1>3. \A h : TailSum(h, k, end, base, ends) <=> Rewards(h, steps, k, end)
  <2> TAKE h
  <2>1. \A i \in k .. end : base[i] + (IF i = end \/ ends[i] THEN 0 ELSE h[i + 1])
                              = steps[i].reward + IF i = end THEN 0 ELSE h[i + 1]
    BY <1>1, <1>2
  <2>2. [i \in k .. end |-> base[i] + (IF i = end \/ ends[i] THEN 0 ELSE h[i + 1])]
          = [i \in k .. end |-> steps[i].reward + IF i = end THEN 0 ELSE h[i + 1]]
    BY <2>1
  <2> QED BY <2>2 DEF TailSum, Rewards
<1>4. \E h : Rewards(h, steps, k, end)
  BY <1>3, TailSumExists
<1>5. Rewards(s, steps, k, end) /\ TailSum(s, k, end, base, ends)
  BY <1>0, <1>3, <1>4 DEF RewardSum
<1>6. \A i \in k .. end : s[i] \in Int
  BY <1>1, <1>5, TailSumType DEF IntegerRewards
<1>7. \A i \in k .. end : s[i] = steps[i].reward + IF i = end THEN 0 ELSE s[i + 1]
  BY <1>5, Zenon DEF Rewards
<1> QED BY <1>0, <1>6, <1>7 DEF Sums
\* The end of the episode that a step belongs to.
EndOf(steps, k) ==
  CHOOSE j \in k .. Len(steps) : steps[j].done /\ \A i \in k .. (j - 1) : ~steps[i].done

LEMMA EndExists ==
  ASSUME NEW steps \in Seq(StepRecords), steps[Len(steps)].done, NEW k \in 1 .. Len(steps)
  PROVE  /\ EndOf(steps, k) \in k .. Len(steps) /\ steps[EndOf(steps, k)].done
         /\ \A i \in k .. (EndOf(steps, k) - 1) : ~steps[i].done
<1>1. Len(steps) \in Nat
  OBVIOUS
<1> DEFINE T == {j \in k .. Len(steps) : steps[j].done}
<1>2. Len(steps) \in T /\ T \in SUBSET Nat
  BY <1>1
<1> HIDE DEF T
<1>3. PICK j \in T : \A i \in T : j <= i
  BY <1>2, LeastNatural
<1>4. j \in k .. Len(steps) /\ steps[j].done /\ \A i \in k .. (j - 1) : ~steps[i].done
  <2>1. j \in k .. Len(steps) /\ steps[j].done
    BY DEF T
  <2>2. ASSUME NEW i \in k .. (j - 1), steps[i].done PROVE FALSE
    <3>1. i \in k .. Len(steps) /\ ~ (j <= i)
      BY <1>1, <2>1
    <3> QED BY <1>3, <2>2, <3>1 DEF T
  <2> QED BY <2>1, <2>2
<1> QED BY <1>4 DEF EndOf

\* The return of a step is the sum of the rewards of its own episode.
LEMMA ReturnIsSum ==
  ASSUME NEW steps \in Seq(StepRecords), steps[Len(steps)].done, NEW k \in 1 .. Len(steps),
         NEW s, s = RewardSum(steps, k, EndOf(steps, k))
  PROVE  Returns(steps)[k] = s[k]
<1> DEFINE n == Len(steps)
           end == EndOf(steps, k)
<1>1. n \in Nat /\ \A i \in 1 .. n : steps[i] \in StepRecords
  <2>1. PICK S : S = StepRecords
    OBVIOUS
  <2>2. steps \in Seq(S)
    BY <2>1
  <2> QED BY <2>1, <2>2
<1>2. end \in k .. n /\ steps[end].done /\ \A i \in k .. (end - 1) : ~steps[i].done
  BY EndExists
<1>3. PICK g : /\ \A i \in 1 .. n :
                    /\ g[i] \in Int
                    /\ g[i] = steps[i].reward
                         + (IF i = n \/ steps[i].done THEN 0 ELSE steps[i + 1].value)
                         - steps[i].value
                         + IF i = n \/ steps[i].done THEN 0 ELSE g[i + 1]
               /\ Returns(steps) = [i \in 1 .. n |-> g[i] + steps[i].value]
  BY GaeFacts
<1>0. k \in 1 .. n
  OBVIOUS
<1> HIDE DEF n, end
<1>4. \A i \in k .. end : i \in 1 .. n /\ steps[i].reward \in Int /\ steps[i].value \in Int
  <2>1. \A i \in k .. end : i \in 1 .. n
    BY <1>0, <1>1, <1>2
  <2> QED BY <1>1, <2>1 DEF StepRecords
<1>5. \A i \in k .. end : s[i] \in Int /\ s[i] = steps[i].reward + IF i = end THEN 0 ELSE s[i + 1]
  <2>1. k \in Nat /\ end \in Nat
    BY <1>0, <1>1, <1>2
  <2>2. s = RewardSum(steps, k, end)
    BY DEF end
  <2>3. IntegerRewards(steps, k, end)
    BY <1>4 DEF IntegerRewards
  <2>4. Sums(s, steps, k, end)
    BY <2>1, <2>2, <2>3, RewardsFacts
  <2> QED BY <2>4 DEF Sums
<1> DEFINE Good == {i \in k .. end : g[i] + steps[i].value = s[i]}
<1>6. \A i \in k .. end : (i < end => i + 1 \in Good) => i \in Good
  <2> SUFFICES ASSUME NEW i \in k .. end, i < end => i + 1 \in Good
               PROVE  g[i] + steps[i].value = s[i]
    OBVIOUS
  <2>1. i \in 1 .. n /\ steps[i].reward \in Int /\ steps[i].value \in Int
    BY <1>4
  <2>2. CASE i = end
    <3>1. g[i] = steps[i].reward + 0 - steps[i].value + 0
      BY <1>2, <1>3, <2>1, <2>2
    <3>2. s[i] = steps[i].reward + 0
      BY <1>5, <2>2
    <3> QED BY <2>1, <3>1, <3>2
  <2>3. CASE i # end
    <3>1. i + 1 \in k .. end /\ i + 1 \in 1 .. n /\ i # n /\ ~ steps[i].done
      BY <1>1, <1>2, <2>3
    <3>2. g[i + 1] + steps[i + 1].value = s[i + 1] /\ s[i + 1] \in Int
      BY <1>2, <1>5, <2>3, <3>1
    <3>3. g[i] = steps[i].reward + steps[i + 1].value - steps[i].value + g[i + 1]
      BY <1>3, <2>1, <3>1
    <3>4. s[i] = steps[i].reward + s[i + 1]
      BY <1>5, <2>3
    <3>5. steps[i + 1].value \in Int /\ g[i + 1] \in Int
      BY <1>1, <1>3, <3>1 DEF StepRecords
    <3> QED BY <2>1, <3>2, <3>3, <3>4, <3>5
  <2> QED BY <2>2, <2>3
<1> HIDE DEF Good
<1>7. k .. end \subseteq Good
  <2>1. k \in Nat /\ end \in Nat
    BY <1>1, <1>2
  <2> QED BY <1>6, <2>1, BackwardInduction
<1>8. k \in k .. end /\ k \in 1 .. n
  BY <1>0, <1>1, <1>2
<1> QED BY <1>3, <1>7, <1>8 DEF Good

\* A seed learns from its own episodes: no return of a rollout reaches into the
\* next episode, no model has seen a regime that it is judged out of distribution
\* on, and the report has every seed on both splits.
THEOREM TrainingAlwaysSound == Spec => []TrainingSound
<1>1. ASSUME TrainingInv PROVE ReturnsOwnEpisode
  <2> SUFFICES ASSUME stage = "update", NEW k \in DOMAIN batch
               PROVE  LET end == EndOf(batch, k)
                          sum[i \in k .. end] == batch[i].reward + IF i = end THEN 0 ELSE sum[i + 1]
                      IN  Returns(batch)[k] = sum[k]
    BY DEF ReturnsOwnEpisode, EndOf
  <2>1. /\ batch \in Seq(StepRecords)
        /\ ~ Running /\ (batch # << >> => batch[Len(batch)].done)
    BY <1>1 DEF TrainingInv, RolloutWhole, EpisodeSound
  <2>2. DOMAIN batch = 1 .. Len(batch) /\ batch # << >>
    BY <2>1
  <2>3. PICK s : s = RewardSum(batch, k, EndOf(batch, k))
    OBVIOUS
  <2>4. Returns(batch)[k] = s[k]
    BY <2>1, <2>2, <2>3, ReturnIsSum
  <2> QED BY <2>3, <2>4 DEF Rewards, RewardSum
<1>2. ASSUME TrainingInv PROVE EverySeedReported
  <2>1. model \cap OodRegimes = {}
    BY <1>2, TrainingAssumption DEF TrainingBudget, TrainingInv, SeedsInTurn
  <2>2. stage = "reported" => \A k \in 1 .. Seeds, split \in {"id", "ood"} :
                                Reported(results, k, split)
    BY <1>2 DEF TrainingInv, SeedsInTurn
  <2> QED BY <2>1, <2>2 DEF EverySeedReported, Reported
<1>3. TrainingInv => TrainingSound
  BY <1>1, <1>2 DEF TrainingSound
<1> QED BY <1>3, TrainingAlways, PTL
-----------------------------------------------------------------------------
(***************************************************************************)
(* The stress cases.                                                       *)
(***************************************************************************)

Heard == {k \in 1 .. Len(lost) : ~lost[k]}
DelayOf == Cases[cell.case].delay

\* What is delivered is the observation of the last decision that heard one,
\* less the delay.
StressInv ==
  cell # NoCell =>
    /\ EnvSound(stress) /\ stress.invalid = 0
    /\ cell.case \in DOMAIN Cases /\ cell.policy \in Fixed \cup Trained
    /\ lost \in Seq(BOOLEAN) /\ Len(history) = Len(lost) + 1 /\ \E S : history \in Seq(S)
    /\ delivered = IF Heard = {} THEN 1 ELSE GreaterOf(1, Max(Heard) - DelayOf)

LEMMA BeginStressKeeps ==
  ASSUME BeginStress
  PROVE  StressInv'
<1>1. PICK case \in DOMAIN Cases, policy \in Fixed \cup Trained, seed1 \in EpisodeSeeds,
           m \in Markets :
        /\ cell' = [case |-> case, policy |-> policy, seed |-> seed1]
        /\ stress' = NewEnv(m) /\ history' = <<NewEnv(m)>>
  BY DEF BeginStress
<1>2. EnvSound(stress') /\ stress'.invalid = 0
  BY <1>1, ResetSound
<1>3. lost' = << >> /\ delivered' = 1
  BY DEF BeginStress
<1>4. Heard' = {}
  BY <1>3 DEF Heard
<1>5. Len(history') = 1 /\ history' \in Seq({NewEnv(m)})
  BY <1>1
<1>6. lost' \in Seq(BOOLEAN) /\ Len(lost') = 0
  BY <1>3
<1>7. cell'.case \in DOMAIN Cases /\ cell'.policy \in Fixed \cup Trained
  BY <1>1
<1>8. Len(history') = Len(lost') + 1 /\ \E S : history' \in Seq(S)
  BY <1>5, <1>6
<1>9. delivered' = IF Heard' = {} THEN 1 ELSE GreaterOf(1, Max(Heard') - DelayOf')
  BY <1>3, <1>4
<1> QED BY <1>2, <1>6, <1>7, <1>8, <1>9 DEF StressInv

\* The greatest of a set of integers.
LEMMA MaxOf ==
  ASSUME NEW S \in SUBSET Int, NEW x \in S, \A y \in S : x >= y
  PROVE  Max(S) = x
<1>1. Max(S) \in S /\ \A y \in S : Max(S) >= y
  <2>1. \E z \in S : \A y \in S : z >= y
    OBVIOUS
  <2> QED BY <2>1, Zenon DEF Max
<1>2. Max(S) >= x /\ x >= Max(S) /\ x \in Int /\ Max(S) \in Int
  BY <1>1
<1> QED BY <1>2

LEMMA MaxOfHeard ==
  ASSUME lost \in Seq(BOOLEAN), Heard # {}
  PROVE  Max(Heard) \in 1 .. Len(lost)
<1> DEFINE T == {Len(lost) - k : k \in Heard}
<1>1. Len(lost) \in Nat /\ Heard \subseteq 1 .. Len(lost)
  BY DEF Heard
<1>2. T \in SUBSET Nat /\ T # {}
  <2>1. \A k \in Heard : Len(lost) - k \in Nat
    BY <1>1
  <2>2. PICK k : k \in Heard
    OBVIOUS
  <2>3. Len(lost) - k \in T
    BY <2>2
  <2> QED BY <2>1, <2>3
<1> HIDE DEF T
<1>3. PICK n \in T : \A m \in T : n <= m
  BY <1>2, LeastNatural
<1>4. PICK k \in Heard : n = Len(lost) - k
  BY DEF T
<1>5. \A j \in Heard : k >= j
  <2> TAKE j \in Heard
  <2>1. Len(lost) - j \in T
    BY DEF T
  <2> QED BY <1>1, <1>3, <1>4, <2>1
<1>6. Max(Heard) = k
  <2>1. Heard \in SUBSET Int
    BY <1>1
  <2> QED BY <1>5, <2>1, MaxOf
<1> QED BY <1>1, <1>6

LEMMA DecideStressedKeeps ==
  ASSUME StressInv, DecideStressed
  PROVE  StressInv'
<1>1. PICK drop \in BOOLEAN :
        LET k == Delivered(drop, Cases[cell.case].delay)
            seen == history[k]
        IN /\ delivered' = k /\ lost' = Append(lost, drop)
           /\ \E a \in ActionsOf(PolicyOf(cell.policy), seen, MaskSeen(seen)) :
                \E after \in step(stress, a) :
                  stress' = after /\ history' = Append(history, after)
  BY DEF DecideStressed
<1>2. /\ delivered' = Delivered(drop, DelayOf) /\ lost' = Append(lost, drop)
      /\ cell # NoCell /\ cell' = cell /\ ~ stress.done
  BY <1>1 DEF DecideStressed, DelayOf
<1>3. PICK seen :
        \E a \in ActionsOf(PolicyOf(cell.policy), seen, Mask(stress)) :
          stress' \in step(stress, a) /\ history' = Append(history, stress')
  BY <1>1 DEF MaskSeen
<1>31. PICK a \in ActionsOf(PolicyOf(cell.policy), seen, Mask(stress)) :
        stress' \in step(stress, a) /\ history' = Append(history, stress')
  BY <1>3
<1>4. /\ EnvSound(stress) /\ stress.invalid = 0
      /\ cell.case \in DOMAIN Cases /\ cell.policy \in Fixed \cup Trained
      /\ lost \in Seq(BOOLEAN) /\ Len(history) = Len(lost) + 1 /\ \E S : history \in Seq(S)
      /\ delivered = IF Heard = {} THEN 1 ELSE GreaterOf(1, Max(Heard) - DelayOf)
  BY <1>2 DEF StressInv
<1>5. Open(stress)
  BY <1>2, <1>4 DEF EnvSound, Closed
<1>6. PolicyOf(cell.policy) # "unmasked"
  BY <1>4 DEF PolicyOf, Fixed
<1>7. a \in Mask(stress) /\ a \in Actions
  BY <1>31, <1>5, <1>6, MaskOpen, PolicyObeys
<1>8. EnvSound(stress') /\ stress'.invalid = 0
  BY <1>31, <1>4, <1>5, <1>7, StepSound
<1>9. lost' \in Seq(BOOLEAN) /\ Len(lost') = Len(lost) + 1 /\ Len(lost) \in Nat
  BY <1>2, <1>4
<1>10. Len(history') = Len(lost') + 1 /\ \E S : history' \in Seq(S)
  <2>1. PICK S : history \in Seq(S)
    BY <1>4
  <2>2. history \in Seq(S \cup {stress'})
    BY <2>1
  <2>3. history' \in Seq(S \cup {stress'}) /\ Len(history') = Len(history) + 1
    BY <1>31, <2>2
  <2> QED BY <1>4, <1>9, <2>3
<1>11. delivered' = IF Heard' = {} THEN 1 ELSE GreaterOf(1, Max(Heard') - DelayOf)
  <2>0. DelayOf \in Nat
    BY <1>4, StressAssumption DEF validate_config, DelayOf
  <2>1. CASE drop
    <3>1. delivered' = delivered
      BY <1>2, <2>1 DEF Delivered
    <3>2. Heard' = Heard
      BY <1>2, <1>4, <1>9, <2>1 DEF Heard
    <3> QED BY <1>4, <3>1, <3>2
  <2>2. CASE ~ drop
    <3>1. delivered' = GreaterOf(0, Len(lost) - DelayOf) + 1
      BY <1>2, <1>4, <1>9, <2>0, <2>2 DEF Delivered, Source
    <3>2. Len(lost') \in Heard' /\ Heard' \subseteq 1 .. Len(lost')
      BY <1>2, <1>4, <1>9, <2>2 DEF Heard
    <3>3. Max(Heard') = Len(lost')
      <4>1. PICK S : S = Heard'
        OBVIOUS
      <4>2. S \in SUBSET Int /\ Len(lost') \in S /\ \A y \in S : Len(lost') >= y
        BY <1>9, <3>2, <4>1
      <4>3. Max(S) = Len(lost')
        BY <4>2, MaxOf
      <4> QED BY <4>1, <4>3
    <3>4. Heard' # {}
      BY <3>2
    <3> QED BY <1>9, <2>0, <3>1, <3>3, <3>4 DEF GreaterOf
  <2> QED BY <2>1, <2>2
<1>12. DelayOf' = DelayOf
  BY <1>2 DEF DelayOf
<1> QED BY <1>2, <1>4, <1>8, <1>9, <1>10, <1>11, <1>12 DEF StressInv

LEMMA StressKeeps ==
  ASSUME StressInv, [StressNext]_stressVars
  PROVE  StressInv'
<1>1. ASSUME UNCHANGED <<cell, stress, history, lost, delivered>> PROVE StressInv'
  BY <1>1 DEF StressInv, Heard, DelayOf
<1>2. CASE EndStressed
  BY <1>2 DEF EndStressed, StressInv
<1>3. CASE RankPolicies \/ SelectBlock \/ Contrast \/ AdjustFamilies \/ Resample
  BY <1>1, <1>3 DEF RankPolicies, SelectBlock, Contrast, AdjustFamilies, Resample
<1>4. CASE UNCHANGED stressVars
  BY <1>1, <1>4 DEF stressVars
<1> QED BY <1>2, <1>3, <1>4, BeginStressKeeps, DecideStressedKeeps DEF StressNext

\* In every stress case no policy takes a masked action, however late or lost
\* its observations are, every episode buys the whole parent, and what a policy
\* is given is never from the future, never older than the delay and the run of
\* losses explain, and never goes back.
THEOREM StressAlwaysSound == Spec => []StressedSound
<1>1. Init => StressInv
  BY DEF Init, StressInit, StressInv
<1>2. StressInv /\ [Next]_vars => StressInv'
  BY StressKeeps DEF Next, vars, Predict, Forecast, Reinforce, Imitate, Stress, Measure
<1>3. ASSUME StressInv PROVE DegradedPoliciesValid
  <2>1. ASSUME cell # NoCell PROVE stress.done => stress.remaining = 0
    BY <1>3, <2>1 DEF StressInv, EnvSound, Open, Closed
  <2> QED BY <1>3, <2>1 DEF StressInv, EnvSound, DegradedPoliciesValid
<1>4. ASSUME StressInv PROVE DeliveredIsPast
  <2> SUFFICES ASSUME cell # NoCell, Len(lost) > 0
               PROVE  /\ delivered \in 1 .. Len(lost)
                      /\ delivered = IF Heard = {} THEN 1 ELSE GreaterOf(1, Max(Heard) - DelayOf)
    BY DEF DeliveredIsPast, Heard, DelayOf
  <2>1. /\ lost \in Seq(BOOLEAN) /\ cell.case \in DOMAIN Cases
        /\ delivered = IF Heard = {} THEN 1 ELSE GreaterOf(1, Max(Heard) - DelayOf)
    BY <1>4 DEF StressInv
  <2>2. Len(lost) \in Nat /\ DelayOf \in Nat
    BY <2>1, StressAssumption DEF validate_config, DelayOf
  <2>3. Heard # {} => Max(Heard) \in 1 .. Len(lost)
    BY <2>1, MaxOfHeard
  <2> QED BY <2>1, <2>2, <2>3 DEF GreaterOf
<1>5. StressInv => StressedSound
  BY <1>3, <1>4 DEF StressedSound
<1> QED BY <1>1, <1>2, <1>5, PTL DEF Spec
-----------------------------------------------------------------------------
(***************************************************************************)
(* The imitation study.                                                    *)
(***************************************************************************)

IsRollout(r) ==
  /\ r = [step |-> r.step, filled |-> r.filled, segment |-> r.segment, fallback |-> r.fallback,
          decisions |-> r.decisions, raw |-> r.raw, final |-> r.final, handed |-> r.handed]
  /\ r.step \in Nat /\ r.filled \in 0 .. Total
  /\ r.decisions \in Nat /\ r.raw \in Nat /\ r.final \in Nat /\ r.handed \in Nat

\* An episode agrees with the teacher at least as often after the handover as
\* before it, and exactly as often without one.
RolloutSound ==
  /\ rollout # NoRollout =>
       /\ IsRollout(rollout) /\ rollout.final >= rollout.raw
       /\ ~rollout.fallback => rollout.final = rollout.raw
       /\ phase \in {"teach", "validate", "correct", "evaluate"}
  /\ summary # NoRollout =>
       /\ summary.bought = Total /\ summary.final >= summary.raw
       /\ ~summary.fallback => summary.final = summary.raw

\* The threshold is that of the rows which are still there, and of the fit.
ThresholdSound ==
  /\ rows # << >> => rows \in Predictions /\ threshold.value = choose_fallback_threshold(rows)
  /\ phase \in {"validate", "correct", "evaluate", "reported"} => threshold.fit = fitted.fit
  /\ fitted.segments \subseteq {"train", "correction"}

ScoredCandidates == [units : Nat, alpha : Nat, agreement : Nat, loss : Nat]

\* No candidate is fitted twice, so that the order of the candidates is total.
SelectionSoundInv ==
  /\ selection \subseteq ScoredCandidates /\ IsFiniteSet(selection)
  /\ \A a, b \in selection : a.units = b.units /\ a.alpha = b.alpha => a = b
  /\ phase \in {"teach", "fit"} => chosen = << >>
  /\ SelectionBest

ImitationInv == RolloutSound /\ ThresholdSound /\ SelectionSoundInv
LEMMA QuantityFits ==
  ASSUME NEW remaining \in Nat \ {0}, NEW percent \in {0, 25, 50, 100}
  PROVE  quantity(remaining, percent) \in 0 .. remaining
<1>1. PICK q \in Nat : q = (remaining * percent) \div 100
  OBVIOUS
<1> QED BY <1>1 DEF quantity

LEMMA DecidedSound ==
  ASSUME NEW r, IsRollout(r), r.filled < Total, r.final >= r.raw,
         ~r.fallback => r.final = r.raw,
         NEW teacher \in Modes, NEW student \in Modes, NEW uncertain \in BOOLEAN,
         NEW q, q = Decided(r, teacher, student, uncertain)
  PROVE  /\ IsRollout(q) /\ q.final >= q.raw
         /\ ~q.fallback => q.final = q.raw
<1>1. PICK final : final = IF r.fallback /\ uncertain THEN teacher ELSE student
  OBVIOUS
<1>2. PICK amount : amount = quantity(Total - r.filled, final[2])
  OBVIOUS
<1>3. /\ Total \in Nat /\ r.step \in Nat /\ r.filled \in 0 .. Total 
      /\ r.decisions \in Nat /\ r.raw \in Nat /\ r.final \in Nat
      /\ r.handed \in Nat
  BY ImitationAssumption DEF ImitationConfig, IsRollout
<1>4. q = [step |-> r.step + 1, filled |-> r.filled + amount, segment |-> r.segment,
           fallback |-> r.fallback, decisions |-> r.decisions + 1,
           raw |-> r.raw + (IF student = teacher THEN 1 ELSE 0),
           final |-> r.final + (IF final = teacher THEN 1 ELSE 0),
           handed |-> r.handed + (IF r.fallback /\ uncertain THEN 1 ELSE 0)]
  BY <1>1, <1>2 DEF Decided, IsRollout
<1>5. final \in Modes
  BY <1>1
<1>6. final[2] \in {0, 25, 50, 100}
  BY <1>5 DEF Modes
<1>7. amount \in 0 .. Total - r.filled
  <2>1. Total - r.filled \in Nat \ {0}
    BY <1>3
  <2> QED BY <1>2, <1>6, <2>1, QuantityFits
<1>8. IsRollout(q)
  BY <1>3, <1>4, <1>7 DEF IsRollout
<1>9. student = teacher => final = teacher
  BY <1>1
<1>10. ~ r.fallback => final = student
  BY <1>1
<1>11. q.final = r.final + (IF final = teacher THEN 1 ELSE 0)
       /\ q.raw = r.raw + (IF student = teacher THEN 1 ELSE 0) /\ q.fallback = r.fallback
  BY <1>4
<1> QED BY <1>3, <1>8, <1>9, <1>10, <1>11

LEMMA BeginKeeps ==
  ASSUME ImitationInv, Begin
  PROVE  ImitationInv'
<1>1. /\ rollout = NoRollout /\ rows' = << >>
      /\ UNCHANGED <<phase, fitted, selection, chosen, threshold, evaluated, summary>>
      /\ phase \in {"teach", "validate", "correct", "evaluate"}
  BY DEF Begin, StartRollout
<1>2. ASSUME NEW segment, NEW fallback, StartRollout(segment, fallback)
      PROVE  IsRollout(rollout') /\ rollout'.final = 0 /\ rollout'.raw = 0
  <2>1. rollout' = [step |-> 0, filled |-> 0, segment |-> segment, fallback |-> fallback,
                    decisions |-> 0, raw |-> 0, final |-> 0, handed |-> 0]
    BY <1>2 DEF StartRollout
  <2>2. 0 \in 0 .. Total
    BY ImitationAssumption DEF ImitationConfig
  <2> QED BY <1>2, <2>1, <2>2 DEF IsRollout
<1>3. IsRollout(rollout') /\ rollout'.final = 0 /\ rollout'.raw = 0
  <2>1. CASE StartRollout("teacher", FALSE) \/ StartRollout("validation", FALSE)
             \/ StartRollout("correction", FALSE)
    BY <1>2, <2>1, Zenon
  <2>2. CASE /\ phase = "evaluate" /\ evaluated < Len(Evaluations)
             /\ StartRollout(Evaluations[evaluated + 1].segment,
                             Evaluations[evaluated + 1].fallback)
    BY <1>2, <2>2
  <2> QED BY <2>1, <2>2 DEF Begin
<1>4. RolloutSound'
  BY <1>1, <1>3 DEF ImitationInv, RolloutSound
<1>5. ThresholdSound' /\ SelectionSoundInv'
  BY <1>1 DEF ImitationInv, ThresholdSound, SelectionSoundInv, SelectionBest
<1> QED BY <1>4, <1>5 DEF ImitationInv

LEMMA DecideKeeps ==
  ASSUME ImitationInv, Decide
  PROVE  ImitationInv'
<1>1. /\ rollout # NoRollout /\ rollout.filled < Total
      /\ UNCHANGED <<phase, fitted, selection, chosen, rows, threshold, evaluated, summary>>
  BY DEF Decide, Deciding
<1>2. PICK teacher \in Modes, student \in Modes, uncertain \in BOOLEAN :
        rollout' = Decided(rollout, teacher, student, uncertain)
  BY DEF Decide
<1>3. /\ IsRollout(rollout) /\ rollout.final >= rollout.raw
      /\ ~rollout.fallback => rollout.final = rollout.raw
      /\ phase \in {"teach", "validate", "correct", "evaluate"}
  BY <1>1 DEF ImitationInv, RolloutSound
<1>4. /\ IsRollout(rollout') /\ rollout'.final >= rollout'.raw
      /\ ~rollout'.fallback => rollout'.final = rollout'.raw
  BY <1>1, <1>2, <1>3, DecidedSound
<1>5. RolloutSound'
  BY <1>1, <1>3, <1>4 DEF ImitationInv, RolloutSound
<1>6. ThresholdSound' /\ SelectionSoundInv'
  BY <1>1 DEF ImitationInv, ThresholdSound, SelectionSoundInv, SelectionBest
<1> QED BY <1>5, <1>6 DEF ImitationInv

LEMMA EndRolloutKeeps ==
  ASSUME ImitationInv, EndRollout
  PROVE  ImitationInv'
<1>1. /\ rollout # NoRollout /\ rollout' = NoRollout /\ summary' = Summary
      /\ UNCHANGED <<fitted, selection, chosen, rows, threshold>>
  BY DEF EndRollout
<1>2. /\ IsRollout(rollout) /\ rollout.final >= rollout.raw
      /\ ~rollout.fallback => rollout.final = rollout.raw
      /\ phase \in {"teach", "validate", "correct", "evaluate"}
  BY <1>1 DEF ImitationInv, RolloutSound
<1>3. /\ summary'.bought = rollout.filled
                            + (IF rollout.filled < Total THEN Total - rollout.filled ELSE 0)
      /\ summary'.final = rollout.final /\ summary'.raw = rollout.raw
      /\ summary'.fallback = rollout.fallback
  BY <1>1 DEF Summary
<1>4. Total \in Nat /\ rollout.filled \in 0 .. Total
  BY <1>2, ImitationAssumption DEF ImitationConfig, IsRollout
<1>5. summary'.bought = Total
  BY <1>3, <1>4
<1>6. RolloutSound'
  BY <1>1, <1>2, <1>3, <1>5 DEF RolloutSound
<1>7. /\ phase = "teach" => phase' = "fit"
      /\ phase = "validate" => phase' \in {"correct", "evaluate"}
      /\ phase = "correct" => phase' = "refit"
      /\ phase = "evaluate" => phase' = "evaluate"
  BY DEF EndRollout
<1>8. ThresholdSound'
  BY <1>1, <1>2, <1>7 DEF ImitationInv, ThresholdSound
<1>9. SelectionSoundInv'
  BY <1>1, <1>2, <1>7 DEF ImitationInv, SelectionSoundInv, SelectionBest
<1> QED BY <1>6, <1>8, <1>9 DEF ImitationInv
LEMMA SmallestOf ==
  ASSUME NEW S \in SUBSET Nat, S # {}
  PROVE  Smallest(S) \in S
<1>1. \E x \in S : \A y \in S : x <= y
  BY LeastNatural
<1> QED BY <1>1, Zenon DEF Smallest

\* Of a finite set with a measure in the naturals, some member has the most.
LEMMA MostOf ==
  ASSUME NEW S, S # {}, NEW f, NEW bound \in Nat, \A x \in S : f[x] \in 0 .. bound
  PROVE  \E x \in S : \A y \in S : f[y] <= f[x]
<1> DEFINE T == {bound - f[x] : x \in S}
<1>1. T \in SUBSET Nat /\ T # {}
  <2>1. \A x \in S : bound - f[x] \in Nat
    OBVIOUS
  <2>2. PICK x : x \in S
    OBVIOUS
  <2>3. bound - f[x] \in T
    BY <2>2
  <2> QED BY <2>1, <2>3
<1> HIDE DEF T
<1>2. PICK n \in T : \A m \in T : n <= m
  BY <1>1, LeastNatural
<1>3. PICK x \in S : n = bound - f[x]
  BY DEF T
<1>4. \A y \in S : f[y] <= f[x]
  <2> TAKE y \in S
  <2>1. bound - f[y] \in T
    BY DEF T
  <2>2. bound - f[x] <= bound - f[y]
    BY <1>2, <1>3, <2>1
  <2> QED BY <2>2
<1> QED BY <1>4

\* The threshold that is chosen is reliable if there is one that is, and no
\* reliable one accepts more rows.
LEMMA ThresholdChosen ==
  ASSUME NEW p \in Predictions, NEW t, t = choose_fallback_threshold(p), Reliable(p) # {}
  PROVE  /\ t \in Reliable(p)
         /\ \A u \in Reliable(p) : Cardinality(Accepted(p, u)) <= Cardinality(Accepted(p, t))
<1> DEFINE reliable == Reliable(p)
           best == {u \in reliable : \A v \in reliable :
                      Cardinality(Accepted(p, v)) <= Cardinality(Accepted(p, u))}
<1>0. ValidationRows \in Nat /\ Candidates \subseteq Nat
  BY ImitationAssumption DEF ImitationConfig
<1>1. DOMAIN p = 1 .. ValidationRows
  BY DEF Predictions
<1>2. \A u : Cardinality(Accepted(p, u)) \in 0 .. ValidationRows
  <2> TAKE u
  <2>1. IsFiniteSet(1 .. ValidationRows) /\ Cardinality(1 .. ValidationRows) = ValidationRows
    BY <1>0, FS_Interval
  <2>2. Accepted(p, u) \subseteq 1 .. ValidationRows
    BY <1>1 DEF Accepted
  <2>3. /\ IsFiniteSet(Accepted(p, u))
        /\ Cardinality(Accepted(p, u)) <= Cardinality(1 .. ValidationRows)
    BY <2>1, <2>2, FS_Subset
  <2>4. Cardinality(Accepted(p, u)) \in Nat
    BY <2>3, FS_CardinalityType
  <2> QED BY <1>0, <2>1, <2>3, <2>4
<1>3. reliable \in SUBSET Nat
  BY <1>0 DEF Reliable
<1>4. best # {}
  <2>1. PICK f : f = [u \in reliable |-> Cardinality(Accepted(p, u))]
    OBVIOUS
  <2>2. \A u \in reliable : f[u] \in 0 .. ValidationRows /\ f[u] = Cardinality(Accepted(p, u))
    BY <1>2, <2>1
  <2>3. PICK u \in reliable : \A v \in reliable : f[v] <= f[u]
    <3> HIDE DEF reliable
    <3>1. reliable # {}
      BY DEF reliable
    <3>2. \A v \in reliable : f[v] \in 0 .. ValidationRows
      BY <2>2
    <3> QED BY <1>0, <3>1, <3>2, MostOf
  <2>4. u \in best
    BY <2>2, <2>3
  <2> QED BY <2>4
<1>5. t = Smallest(best)
  BY DEF choose_fallback_threshold
<1>6. best \in SUBSET Nat
  BY <1>3
<1>7. t \in best
  <2> HIDE DEF best
  <2> QED BY <1>4, <1>5, <1>6, SmallestOf
<1> QED BY <1>7

LEMMA ChooseThresholdKeeps ==
  ASSUME ImitationInv, ChooseThreshold
  PROVE  ImitationInv'
<1>1. /\ phase = "threshold" /\ rows' \in Predictions
      /\ threshold' = [value |-> choose_fallback_threshold(rows'), fit |-> fitted.fit]
      /\ phase' \in {"validate", "evaluate"} /\ selection' = {}
      /\ UNCHANGED <<fitted, chosen, rollout, evaluated, summary>>
  BY DEF ChooseThreshold
<1>2. RolloutSound'
  BY <1>1 DEF ImitationInv, RolloutSound
<1>3. ThresholdSound'
  BY <1>1 DEF ImitationInv, ThresholdSound
<1>4. IsFiniteSet(selection')
  BY <1>1, FS_EmptySet
<1>5. SelectionSoundInv'
  BY <1>1, <1>4 DEF ImitationInv, SelectionSoundInv, SelectionBest
<1> QED BY <1>2, <1>3, <1>5 DEF ImitationInv

LEMMA FitCandidateKeeps ==
  ASSUME ImitationInv, FitCandidate
  PROVE  ImitationInv'
<1>1. PICK g \in Grid, agreement \in Scores, loss \in Losses :
        /\ \A c \in selection : <<c.units, c.alpha>> # g
        /\ selection' = selection \cup
             {[units |-> g[1], alpha |-> g[2], agreement |-> agreement, loss |-> loss]}
  BY DEF FitCandidate
<1>2. PICK new : new = [units |-> g[1], alpha |-> g[2], agreement |-> agreement, loss |-> loss]
  OBVIOUS
<1>3. g \in Nat \X Nat /\ agreement \in Nat /\ loss \in Nat
  BY ImitationAssumption DEF ImitationConfig
<1>4. new \in ScoredCandidates /\ <<new.units, new.alpha>> = g
  BY <1>2, <1>3 DEF ScoredCandidates
<1>5. phase = "fit" /\ UNCHANGED <<phase, fitted, chosen, rows, threshold, rollout, evaluated, summary>>
  BY DEF FitCandidate
<1>6. /\ selection \subseteq ScoredCandidates /\ IsFiniteSet(selection) /\ chosen = << >>
      /\ \A a, b \in selection : a.units = b.units /\ a.alpha = b.alpha => a = b
  BY <1>5 DEF ImitationInv, SelectionSoundInv
<1>7. selection' = selection \cup {new}
  BY <1>1, <1>2
<1>8. IsFiniteSet(selection')
  BY <1>6, <1>7, FS_AddElement
<1>9. \A c \in selection : ~ (c.units = new.units /\ c.alpha = new.alpha)
  BY <1>1, <1>4
<1>10. \A a, b \in selection' : a.units = b.units /\ a.alpha = b.alpha => a = b
  BY <1>6, <1>7, <1>9
<1>11. SelectionSoundInv'
  BY <1>4, <1>5, <1>6, <1>7, <1>8, <1>10 DEF SelectionSoundInv, SelectionBest
<1>12. RolloutSound' /\ ThresholdSound'
  BY <1>5 DEF ImitationInv, RolloutSound, ThresholdSound
<1> QED BY <1>11, <1>12 DEF ImitationInv
\* The order of scored candidates is total and transitive.
LEMMA BetterTotal ==
  ASSUME NEW a \in ScoredCandidates, NEW b \in ScoredCandidates,
         a.units # b.units \/ a.alpha # b.alpha
  PROVE  Better(a, b) \/ Better(b, a)
<1>1. /\ {a.units, a.alpha, a.agreement, a.loss} \subseteq Int
      /\ {b.units, b.alpha, b.agreement, b.loss} \subseteq Int
  BY DEF ScoredCandidates
<1> QED BY <1>1 DEF Better

LEMMA BetterTransitive ==
  ASSUME NEW a \in ScoredCandidates, NEW b \in ScoredCandidates, NEW c \in ScoredCandidates,
         Better(a, b), Better(b, c)
  PROVE  Better(a, c)
<1>1. /\ {a.units, a.alpha, a.agreement, a.loss} \subseteq Int
      /\ {b.units, b.alpha, b.agreement, b.loss} \subseteq Int
      /\ {c.units, c.alpha, c.agreement, c.loss} \subseteq Int
  BY DEF ScoredCandidates
<1> QED BY <1>1 DEF Better

\* So some candidate is better than every other one.
LEMMA BestExists ==
  ASSUME NEW S \in SUBSET ScoredCandidates, IsFiniteSet(S), S # {},
         \A a, b \in S : a.units = b.units /\ a.alpha = b.alpha => a = b
  PROVE  \E a \in S : \A b \in S \ {a} : Better(a, b)
<1> DEFINE Bad == {T \in SUBSET S : T # {} /\ ~ \E a \in T : \A b \in T \ {a} : Better(a, b)}
<1> SUFFICES ASSUME Bad # {} PROVE FALSE
  OBVIOUS
<1>1. \A T \in Bad : IsFiniteSet(T)
  BY FS_Subset
<1> HIDE DEF Bad
<1>2. PICK T \in Bad : \A x \in T : T \ {x} \notin Bad
  BY <1>1, MinimalSet
<1>3. T \in SUBSET S /\ T # {} /\ ~ \E a \in T : \A b \in T \ {a} : Better(a, b)
  BY <1>2 DEF Bad
<1>4. PICK x : x \in T
  BY <1>3
<1>5. T \ {x} # {}
  BY <1>3, <1>4
<1>6. PICK a \in T \ {x} : \A b \in (T \ {x}) \ {a} : Better(a, b)
  BY <1>2, <1>3, <1>4, <1>5 DEF Bad
<1>7. a \in ScoredCandidates /\ x \in ScoredCandidates /\ (a.units # x.units \/ a.alpha # x.alpha)
  BY <1>3, <1>4
<1>8. CASE Better(a, x)
  <2>1. \A b \in T \ {a} : Better(a, b)
    BY <1>6, <1>8
  <2> QED BY <1>3, <1>6, <2>1
<1>9. CASE Better(x, a)
  <2>1. \A b \in T \ {x} : Better(x, b)
    <3> TAKE b \in T \ {x}
    <3>1. CASE b = a
      BY <1>9, <3>1
    <3>2. CASE b # a
      <4>1. Better(a, b) /\ b \in ScoredCandidates
        BY <1>3, <1>6, <3>2
      <4> QED BY <1>7, <1>9, <4>1, BetterTransitive
    <3> QED BY <3>1, <3>2
  <2> QED BY <1>3, <1>4, <2>1
<1> QED BY <1>7, <1>8, <1>9, BetterTotal

LEMMA SelectModelKeeps ==
  ASSUME ImitationInv, SelectModel
  PROVE  ImitationInv'
<1>1. /\ phase = "fit" /\ phase' = "threshold" /\ chosen' = Selected(selection)
      /\ fitted' = [fit |-> 1, segments |-> {"train"}]
      /\ UNCHANGED <<selection, rows, threshold, rollout, evaluated, summary>>
      /\ Cardinality(selection) = Cardinality(Grid)
  BY DEF SelectModel
<1>2. /\ selection \subseteq ScoredCandidates /\ IsFiniteSet(selection)
      /\ \A a, b \in selection : a.units = b.units /\ a.alpha = b.alpha => a = b
  BY DEF ImitationInv, SelectionSoundInv
<1>3. selection # {}
  BY <1>1, FS_EmptySet, ImitationAssumption DEF ImitationConfig
<1>4. \E a \in selection : \A b \in selection \ {a} : Better(a, b)
  BY <1>2, <1>3, BestExists
<1>5. chosen' \in selection /\ \A b \in selection \ {chosen'} : Better(chosen', b)
  BY <1>1, <1>4, Zenon DEF Selected
<1>6. \A c \in selection : c.agreement <= chosen'.agreement
  <2> TAKE c \in selection
  <2>1. c.agreement \in Int /\ chosen'.agreement \in Int
    BY <1>2, <1>5 DEF ScoredCandidates
  <2> QED BY <1>5, <2>1 DEF Better
<1>7. SelectionSoundInv'
  BY <1>1, <1>2, <1>6 DEF SelectionSoundInv, SelectionBest
<1>8. RolloutSound' /\ ThresholdSound'
  BY <1>1 DEF ImitationInv, RolloutSound, ThresholdSound
<1> QED BY <1>7, <1>8 DEF ImitationInv

LEMMA RefitKeeps ==
  ASSUME ImitationInv, Refit
  PROVE  ImitationInv'
<1>1. /\ phase = "refit" /\ phase' = "threshold"
      /\ fitted' = [fit |-> 2, segments |-> fitted.segments \cup {"correction"}]
      /\ UNCHANGED <<selection, chosen, rows, threshold, rollout, evaluated, summary>>
  BY DEF Refit
<1>2. RolloutSound' /\ SelectionSoundInv'
  BY <1>1 DEF ImitationInv, RolloutSound, SelectionSoundInv, SelectionBest
<1>3. ThresholdSound'
  BY <1>1 DEF ImitationInv, ThresholdSound
<1> QED BY <1>2, <1>3 DEF ImitationInv

LEMMA ImitationKeeps ==
  ASSUME ImitationInv, [ImitationNext]_imitationVars
  PROVE  ImitationInv'
<1>1. CASE Report
  BY <1>1 DEF Report, ImitationInv, RolloutSound, ThresholdSound, SelectionSoundInv, SelectionBest
<1>2. CASE UNCHANGED imitationVars
  BY <1>2 DEF imitationVars, ImitationInv, RolloutSound, ThresholdSound, SelectionSoundInv,
              SelectionBest
<1> QED BY <1>1, <1>2, FitCandidateKeeps, SelectModelKeeps, ChooseThresholdKeeps, BeginKeeps,
           DecideKeeps, EndRolloutKeeps, RefitKeeps DEF ImitationNext

\* The student hands over to its teacher by a threshold that was chosen for the
\* model that acts, that keeps its floor on the validation rows if any threshold
\* does, and that covers the most; the handover never lowers the agreement with
\* the teacher, an episode buys its parent exactly, and no other candidate of the
\* grid agrees more often.
THEOREM FallbackAlwaysSound == Spec => []FallbackSound
<1>1. Init => ImitationInv
  <2> SUFFICES ASSUME Init PROVE ImitationInv
    OBVIOUS
  <2>1. ImitationInit
    BY DEF Init
  <2>2. IsFiniteSet(selection)
    BY <2>1, FS_EmptySet DEF ImitationInit
  <2> QED BY <2>1, <2>2 DEF ImitationInit, ImitationInv, RolloutSound, ThresholdSound,
                            SelectionSoundInv, SelectionBest
<1>2. ImitationInv /\ [Next]_vars => ImitationInv'
  BY ImitationKeeps DEF Next, vars, Predict, Forecast, Reinforce, Imitate, Stress, Measure
<1>3. ASSUME ImitationInv PROVE HandoverHelps
  BY <1>3, ImitationAssumption DEF ImitationConfig, ImitationInv, RolloutSound, IsRollout,
                                   HandoverHelps
<1>4. ASSUME ImitationInv PROVE ThresholdReliable
  <2> SUFFICES ASSUME rows # << >>, Reliable(rows) # {}
               PROVE  /\ threshold.value \in Reliable(rows)
                      /\ \A t \in Reliable(rows) :
                           Cardinality(Accepted(rows, t))
                             <= Cardinality(Accepted(rows, threshold.value))
    BY DEF ThresholdReliable
  <2>1. rows \in Predictions /\ threshold.value = choose_fallback_threshold(rows)
    BY <1>4 DEF ImitationInv, ThresholdSound
  <2> QED BY <2>1, ThresholdChosen
<1>5. ImitationInv => ThresholdFresh /\ SelectionBest
  BY DEF ImitationInv, ThresholdSound, SelectionSoundInv, ThresholdFresh
<1>6. ImitationInv => FallbackSound
  BY <1>3, <1>4, <1>5 DEF FallbackSound
<1> QED BY <1>1, <1>2, <1>6, PTL DEF Spec

-----------------------------------------------------------------------------
(***************************************************************************)
(* Forecasts: rows, segments and what is fitted to them.                   *)
(***************************************************************************)

Segments == {"train", "validation", "calibration", "engineering_holdout"}

LEMMA DaysAddUp ==
  /\ Train \in Nat \ {0} /\ UpToValidation \in Nat /\ UpToCalibration \in Nat /\ TotalDays \in Nat
  /\ Train < UpToValidation /\ UpToValidation < UpToCalibration /\ UpToCalibration < TotalDays
<1>1. /\ SplitDays["train"] \in Nat \ {0} /\ SplitDays["validation"] \in Nat \ {0}
      /\ SplitDays["calibration"] \in Nat \ {0} /\ SplitDays["engineering_holdout"] \in Nat \ {0}
  BY ForecastAssumption DEF load_temporal_model_config
<1> QED BY <1>1 DEF Train, UpToValidation, UpToCalibration, TotalDays

\* The rows of an item are of one day, symbol and side, and it has one at least.
LEMMA ItemOfDay ==
  ASSUME NEW item \in Items
  PROVE  /\ item \in Seq(Rows) /\ Len(item) \in Nat \ {0} /\ Endpoint(item) \in Rows
         /\ \A k \in DOMAIN item : item[k].day = Endpoint(item).day
<1>1. CASE Temporal
  <2>1. PICK d \in 0 .. TotalDays - 1, y \in Symbols, s \in {"bid", "ask"} :
               item \in SequencesOf(Group(d, y, s))
    BY <1>1 DEF Items, build_sequences
  <2> DEFINE g == Group(d, y, s)
  <2>2. /\ RowsPer \in Nat \ {0} /\ SequenceLength \in 2 .. RowsPer
        /\ SequenceStride \in Nat \ {0}
    BY ForecastAssumption DEF load_temporal_model_config
  <2>3. g \in Seq(Rows) /\ Len(g) = RowsPer /\ \A k \in 1 .. RowsPer : g[k].day = d
    <3>1. \A k \in 1 .. RowsPer : RowId(d, y, s, k - 1) \in Rows /\ RowId(d, y, s, k - 1).day = d
      BY <2>2 DEF Rows, RowId
    <3> QED BY <2>2, <3>1 DEF Group
  <2>4. PICK start \in 0 .. RowsPer - SequenceLength :
               item = SubSeq(g, start + 1, start + SequenceLength)
    BY <2>1, <2>3 DEF SequencesOf
  <2> HIDE DEF g
  <2>5. /\ item \in Seq(Rows) /\ Len(item) = SequenceLength
        /\ \A k \in 1 .. SequenceLength : item[k] = g[start + k] /\ start + k \in 1 .. RowsPer
    <3> DEFINE m == start + 1
               n == start + SequenceLength
    <3>1. m \in 1 .. RowsPer + 1 /\ n \in 0 .. RowsPer /\ n - m + 1 = SequenceLength /\ m <= n
      BY <2>2
    <3>2. item = SubSeq(g, m, n)
      BY <2>4
    <3> HIDE DEF m, n
    <3>3. /\ item \in Seq(Rows) /\ Len(item) = SequenceLength
          /\ \A k \in 1 .. SequenceLength : item[k] = g[m + k - 1]
      <4>1. m \in Int /\ n \in Int /\ \A i \in m .. n : g[i] \in Rows
        BY <2>3, <3>1
      <4> QED BY <3>1, <3>2, <4>1, SubSeqProperties
    <3>4. \A k \in 1 .. SequenceLength : m + k - 1 = start + k /\ start + k \in 1 .. RowsPer
      BY <2>2 DEF m
    <3> QED BY <3>3, <3>4
  <2>6. \A k \in 1 .. SequenceLength : item[k].day = d /\ item[k] \in Rows
    BY <2>2, <2>3, <2>5
  <2>7. SequenceLength \in 1 .. SequenceLength /\ DOMAIN item = 1 .. SequenceLength
    BY <2>2, <2>5
  <2> QED BY <2>2, <2>5, <2>6, <2>7 DEF Endpoint
<1>2. CASE ~Temporal
  <2>1. PICK row \in Rows : item = <<row>>
    BY <1>2 DEF Items
  <2> QED BY <2>1 DEF Endpoint
<1> QED BY <1>1, <1>2

\* The rows of a segment are of its days.
LEMMA SegmentDays ==
  ASSUME NEW name \in Segments, NEW r \in RowsIn(Segment(name))
  PROVE  r.day \in Nat /\ split_for_day(r.day) = name
<1>1. PICK item \in Segment(name) : \E k \in DOMAIN item : r = item[k]
  BY DEF RowsIn
<1>2. item \in Items /\ split_for_day(Endpoint(item).day) = name
  BY <1>1 DEF Segment
<1>3. r.day = Endpoint(item).day /\ Endpoint(item) \in Rows
  BY <1>1, <1>2, ItemOfDay
<1>4. Endpoint(item).day \in Nat
  BY <1>3, DaysAddUp DEF Rows, RowId
<1> QED BY <1>2, <1>3, <1>4

\* Segments follow each other.
LEMMA SegmentsInOrder ==
  ASSUME NEW d \in Nat, NEW e \in Nat
  PROVE  /\ split_for_day(d) = "train" /\ split_for_day(e) # "train" => d < e
         /\ split_for_day(d) \in {"train", "validation"}
              /\ split_for_day(e) \in {"calibration", "engineering_holdout"} => d < e
         /\ split_for_day(d) # "engineering_holdout"
              /\ split_for_day(e) = "engineering_holdout" => d < e
BY DaysAddUp DEF split_for_day

-----------------------------------------------------------------------------
(***************************************************************************)
(* The candidates of a selection.                                          *)
(***************************************************************************)

Finite == [loss : LossValues, brier : BrierValues]

\* What the epochs of a candidate have shown: a network that has diverged stays
\* so, and its best epoch is the first of the best that has not.
BestSoFar(t) ==
  IF t.best = Infinite
    THEN t.best_epoch = 0 /\ \A e \in DOMAIN t.history : t.history[e] = Diverged
    ELSE /\ t.best_epoch \in DOMAIN t.history /\ t.best = t.history[t.best_epoch]
         /\ t.best \in Finite
         /\ \A e \in DOMAIN t.history :
              t.history[e] # Diverged =>
                /\ Lexicographic(t.best, t.history[e])
                /\ e < t.best_epoch => ~Lexicographic(t.history[e], t.best)
         /\ \A e \in 1 .. t.best_epoch : t.history[e] # Diverged

TrainedSoFar(t) ==
  /\ t \in [key : CandidateKeys, epoch : Nat, best : Finite \cup {Infinite}, best_epoch : Nat,
            stale : Nat, history : Seq(Finite \cup {Diverged})]
  /\ t.epoch = Len(t.history) /\ t.epoch <= EpochLimit
  /\ \A d, e \in DOMAIN t.history : d <= e /\ t.history[d] = Diverged => t.history[e] = Diverged
  /\ BestSoFar(t)

LEMMA FiniteLosses ==
  /\ Finite \subseteq [loss : Nat, brier : Nat]
  /\ Infinite \notin Finite /\ Diverged \notin Finite /\ Infinite # Diverged
<1>1. Finite \subseteq [loss : Nat, brier : Nat]
  BY ForecastAssumption DEF ForecastNumbers, Finite
<1>2. Infinite.loss = -1 /\ Diverged.loss = -2
  BY DEF Infinite, Diverged
<1> QED BY <1>1, <1>2

LEMMA KeysAreNumbers ==
  ASSUME family \in ModelFamilies
  PROVE  /\ CandidateKeys \subseteq Nat /\ CandidateKeys # {} /\ IsFiniteSet(CandidateKeys)
         /\ EpochLimit \in Nat \ {0}
<1>1. CandidateKeys \in {{0}, HyperKeys, GridKeys} /\ EpochLimit \in {1, MaxEpochs}
  BY DEF CandidateKeys, EpochLimit
<1>2. HyperKeys # {}
  <2>1. Cardinality(HyperKeys) # 0
    BY ForecastAssumption DEF load_temporal_model_config
  <2> QED BY <2>1, FS_EmptySet
<1>3. IsFiniteSet({0})
  BY FS_Singleton
<1> QED BY <1>1, <1>2, <1>3, ForecastAssumption
           DEF load_temporal_model_config, load_simple_model_config

LEMMA LexicographicOrder ==
  ASSUME NEW a \in [loss : Nat, brier : Nat], NEW b \in [loss : Nat, brier : Nat],
         NEW c \in [loss : Nat, brier : Nat], Lexicographic(b, c)
  PROVE  /\ Lexicographic(a, a)
         /\ Lexicographic(a, b) => Lexicographic(a, c)
         /\ a.loss < b.loss \/ (a.loss = b.loss /\ a.brier < b.brier)
              => Lexicographic(a, c) /\ ~Lexicographic(c, a)
         /\ ~ (a.loss < b.loss \/ (a.loss = b.loss /\ a.brier < b.brier)) => Lexicographic(b, a)
BY DEF Lexicographic

\* A candidate begins without an epoch.
LEMMA UntrainedSound ==
  ASSUME family \in ModelFamilies, NEW key \in CandidateKeys
  PROVE  TrainedSoFar(Untrained(key))
<1>1. DOMAIN << >> = {} /\ Len(<< >>) = 0 /\ << >> \in Seq(Finite \cup {Diverged})
  OBVIOUS
<1> QED BY <1>1, KeysAreNumbers DEF Untrained, TrainedSoFar, BestSoFar

LEMMA EpochRecord ==
  ASSUME NEW t, NEW outcome,
         t = [key |-> t.key, epoch |-> t.epoch, best |-> t.best, best_epoch |-> t.best_epoch,
              stale |-> t.stale, history |-> t.history]
  PROVE  Epoch(t, outcome) =
           [key |-> t.key, epoch |-> t.epoch + 1,
            best |-> IF Below(outcome, t.best) THEN outcome ELSE t.best,
            best_epoch |-> IF Below(outcome, t.best) THEN t.epoch + 1 ELSE t.best_epoch,
            stale |-> IF Below(outcome, t.best) THEN 0 ELSE t.stale + 1,
            history |-> Append(t.history, outcome)]
<1> DEFINE better == Below(outcome, t.best)
           g == Append(t.history, outcome)
<1>1. Epoch(t, outcome) =
        [t EXCEPT !.epoch = @ + 1, !.history = g, !.best = IF better THEN outcome ELSE @,
                  !.best_epoch = IF better THEN t.epoch + 1 ELSE @,
                  !.stale = IF better THEN 0 ELSE @ + 1]
  BY DEF Epoch
<1> HIDE DEF better, g
<1>2. Epoch(t, outcome) =
        [key |-> t.key, epoch |-> t.epoch + 1, best |-> IF better THEN outcome ELSE t.best,
         best_epoch |-> IF better THEN t.epoch + 1 ELSE t.best_epoch,
         stale |-> IF better THEN 0 ELSE t.stale + 1, history |-> g]
  BY <1>1
<1> QED BY <1>2 DEF better, g

\* One more epoch.
LEMMA EpochSound ==
  ASSUME family \in ModelFamilies, TrainedSoFar(training), ~Stops(training), NEW outcome \in Outcomes
  PROVE  LET after == Epoch(training, outcome)
         IN TrainedSoFar(after) /\ after.key = training.key
<1> DEFINE t == training
           h == t.history
           n == Len(h) + 1
           better == Below(outcome, t.best)
           g == Append(h, outcome)
           after == Epoch(training, outcome)
<1>1. /\ t \in [key : CandidateKeys, epoch : Nat, best : Finite \cup {Infinite}, best_epoch : Nat,
                stale : Nat, history : Seq(Finite \cup {Diverged})]
      /\ t.epoch = Len(h) /\ t.epoch <= EpochLimit
      /\ \A d, e \in DOMAIN h : d <= e /\ h[d] = Diverged => h[e] = Diverged
      /\ BestSoFar(t)
  BY DEF TrainedSoFar
<1>2. Len(h) < EpochLimit /\ Len(h) \in Nat /\ EpochLimit \in Nat
  BY <1>1, KeysAreNumbers DEF Stops
<1>3. outcome \in Finite \cup {Diverged} /\ (h # << >> /\ h[Len(h)] = Diverged => outcome = Diverged)
  <2>1. CASE Temporal
    BY <2>1 DEF Outcomes, Finite
  <2>2. CASE ~Temporal
    <3>1. Len(h) = 0
      BY <1>2, <2>2 DEF EpochLimit
    <3>2. h = << >>
      BY <1>1, <3>1
    <3> QED BY <2>2, <3>2 DEF Outcomes, Finite
  <2> QED BY <2>1, <2>2
<1>4. /\ g \in Seq(Finite \cup {Diverged}) /\ Len(g) = n /\ DOMAIN g = 1 .. n
      /\ g[n] = outcome /\ DOMAIN h = 1 .. Len(h)
      /\ \A e \in 1 .. Len(h) : g[e] = h[e] /\ h[e] \in Finite \cup {Diverged}
  BY <1>1, <1>3
<1>5. /\ after.key = t.key /\ after.epoch = t.epoch + 1 /\ after.history = g
      /\ after.best = (IF better THEN outcome ELSE t.best)
      /\ after.best_epoch = (IF better THEN n ELSE t.best_epoch)
      /\ after.stale = (IF better THEN 0 ELSE t.stale + 1)
      /\ after \in [key : CandidateKeys, epoch : Nat, best : Finite \cup {Infinite}, best_epoch : Nat,
                    stale : Nat, history : Seq(Finite \cup {Diverged})]
  <2>1. better => outcome \in Finite
    BY <1>3 DEF Below
  <2>2. after = [key |-> t.key, epoch |-> t.epoch + 1, best |-> IF better THEN outcome ELSE t.best,
                 best_epoch |-> IF better THEN t.epoch + 1 ELSE t.best_epoch,
                 stale |-> IF better THEN 0 ELSE t.stale + 1, history |-> g]
    <3>1. t = [key |-> t.key, epoch |-> t.epoch, best |-> t.best, best_epoch |-> t.best_epoch,
               stale |-> t.stale, history |-> t.history]
      BY <1>1
    <3> QED BY <3>1, EpochRecord
  <2>3. /\ t.key \in CandidateKeys /\ t.epoch + 1 \in Nat /\ t.epoch + 1 = n
        /\ (IF better THEN outcome ELSE t.best) \in Finite \cup {Infinite}
        /\ (IF better THEN t.epoch + 1 ELSE t.best_epoch) \in Nat
        /\ (IF better THEN 0 ELSE t.stale + 1) \in Nat
    BY <1>1, <2>1
  <2> HIDE DEF better, g, after
  <2> QED BY <1>4, <2>2, <2>3
<1> HIDE DEF g, after
<1>6. \A d, e \in DOMAIN g : d <= e /\ g[d] = Diverged => g[e] = Diverged
  <2> SUFFICES ASSUME NEW d \in 1 .. n, NEW e \in 1 .. n, d <= e, g[d] = Diverged
               PROVE  g[e] = Diverged
    BY <1>4
  <2>1. CASE e # n
    BY <1>1, <1>2, <1>4, <2>1
  <2>2. CASE e = n /\ d # n
    <3>0. d \in 1 .. Len(h) /\ Len(h) \in 1 .. Len(h) /\ d <= Len(h)
      BY <1>2, <2>2
    <3>1. Len(h) \in DOMAIN h /\ d \in DOMAIN h /\ h[d] = Diverged /\ h # << >>
      BY <1>4, <3>0
    <3>2. h[Len(h)] = Diverged
      BY <1>1, <3>0, <3>1
    <3> QED BY <1>3, <1>4, <2>2, <3>1, <3>2
  <2>3. CASE e = n /\ d = n
    BY <2>3
  <2> QED BY <2>1, <2>2, <2>3
<1>7. BestSoFar(after)
  <2>1. CASE better
    <3>1. outcome \in Finite /\ outcome # Infinite /\ outcome # Diverged
      BY <1>3, <2>1, FiniteLosses DEF Below
    <3>2. \A e \in 1 .. Len(h) : h[e] # Diverged
      <4> SUFFICES ASSUME NEW e \in 1 .. Len(h), h[e] = Diverged PROVE FALSE
        OBVIOUS
      <4>0. Len(h) \in 1 .. Len(h) /\ e <= Len(h) /\ h # << >>
        BY <1>2
      <4>1. h[Len(h)] = Diverged
        BY <1>1, <1>4, <4>0
      <4> QED BY <1>3, <3>1, <4>0, <4>1
    <3>3. \A e \in 1 .. Len(h) : Lexicographic(outcome, h[e]) /\ ~Lexicographic(h[e], outcome)
      <4> SUFFICES ASSUME NEW e \in 1 .. Len(h)
                   PROVE  Lexicographic(outcome, h[e]) /\ ~Lexicographic(h[e], outcome)
        OBVIOUS
      <4>1. t.best # Infinite /\ t.best \in Finite /\ Lexicographic(t.best, h[e])
        BY <1>1, <1>4, <3>2 DEF BestSoFar
      <4>2. h[e] \in Finite /\ (outcome.loss < t.best.loss
                \/ (outcome.loss = t.best.loss /\ outcome.brier < t.best.brier))
        BY <1>4, <2>1, <3>2, <4>1 DEF Below
      <4> QED BY <3>1, <4>1, <4>2, FiniteLosses, LexicographicOrder
    <3>4. Lexicographic(outcome, outcome)
      BY <3>1, FiniteLosses DEF Lexicographic
    <3> QED BY <1>2, <1>4, <1>5, <2>1, <3>1, <3>2, <3>3, <3>4 DEF BestSoFar
  <2>2. CASE ~better /\ t.best = Infinite
    <3>1. outcome = Diverged
      BY <1>3, <2>2, FiniteLosses DEF Below
    <3> QED BY <1>1, <1>2, <1>4, <1>5, <2>2, <3>1 DEF BestSoFar
  <2>3. CASE ~better /\ t.best # Infinite
    <3>1. /\ t.best_epoch \in 1 .. Len(h) /\ t.best = h[t.best_epoch] /\ t.best \in Finite
          /\ \A e \in 1 .. Len(h) :
               h[e] # Diverged =>
                 /\ Lexicographic(t.best, h[e])
                 /\ e < t.best_epoch => ~Lexicographic(h[e], t.best)
          /\ \A e \in 1 .. t.best_epoch : h[e] # Diverged
      BY <1>1, <1>4, <2>3 DEF BestSoFar
    <3>2. outcome # Diverged => Lexicographic(t.best, outcome)
      <4> SUFFICES ASSUME outcome # Diverged PROVE Lexicographic(t.best, outcome)
        OBVIOUS
      <4>1. outcome \in Finite /\ Lexicographic(t.best, t.best)
        BY <1>3, <3>1, FiniteLosses DEF Lexicographic
      <4>2. ~ (outcome.loss < t.best.loss
                 \/ (outcome.loss = t.best.loss /\ outcome.brier < t.best.brier))
        BY <2>3, <4>1, FiniteLosses DEF Below
      <4> QED BY <3>1, <4>1, <4>2, FiniteLosses, LexicographicOrder
    <3>3. t.best_epoch \in 1 .. n /\ t.best_epoch < n /\ t.best = g[t.best_epoch]
      BY <1>2, <1>4, <3>1
    <3>4. \A e \in 1 .. n :
             g[e] # Diverged =>
               /\ Lexicographic(t.best, g[e])
               /\ e < t.best_epoch => ~Lexicographic(g[e], t.best)
      BY <1>2, <1>4, <3>1, <3>2, <3>3
    <3>5. \A e \in 1 .. t.best_epoch : g[e] # Diverged
      BY <1>2, <1>4, <3>1, <3>3
    <3> QED BY <1>4, <1>5, <2>3, <3>1, <3>3, <3>4, <3>5 DEF BestSoFar
  <2> QED BY <2>1, <2>2, <2>3
<1> QED BY <1>1, <1>2, <1>4, <1>5, <1>6, <1>7 DEF TrainedSoFar, after

\* Of a finite set in a total order some member is the first.
LEMMA FirstOfOrder ==
  ASSUME NEW S, IsFiniteSet(S), S # {}, NEW R,
         \A a, b \in S : a # b => <<a, b>> \in R \/ <<b, a>> \in R,
         \A a, b, c \in S : <<a, b>> \in R /\ <<b, c>> \in R => <<a, c>> \in R
  PROVE  \E a \in S : \A b \in S \ {a} : <<a, b>> \in R
<1> DEFINE Bad == {T \in SUBSET S : T # {} /\ ~ \E a \in T : \A b \in T \ {a} : <<a, b>> \in R}
<1> SUFFICES ASSUME Bad # {} PROVE FALSE
  OBVIOUS
<1>1. \A T \in Bad : IsFiniteSet(T)
  BY FS_Subset
<1> HIDE DEF Bad
<1>2. PICK T \in Bad : \A x \in T : T \ {x} \notin Bad
  BY <1>1, MinimalSet
<1>3. T \in SUBSET S /\ T # {} /\ ~ \E a \in T : \A b \in T \ {a} : <<a, b>> \in R
  BY <1>2 DEF Bad
<1>4. PICK x : x \in T
  BY <1>3
<1>5. T \ {x} # {}
  BY <1>3, <1>4
<1>6. PICK a \in T \ {x} : \A b \in (T \ {x}) \ {a} : <<a, b>> \in R
  BY <1>2, <1>3, <1>4, <1>5 DEF Bad
<1>7. a \in S /\ x \in S /\ a # x
  BY <1>3, <1>4
<1>8. CASE <<a, x>> \in R
  <2>1. \A b \in T \ {a} : <<a, b>> \in R
    BY <1>6, <1>8
  <2> QED BY <1>3, <1>6, <2>1
<1>9. CASE <<x, a>> \in R
  <2>1. \A b \in T \ {x} : <<x, b>> \in R
    <3> TAKE b \in T \ {x}
    <3>1. CASE b = a
      BY <1>9, <3>1
    <3>2. CASE b # a
      <4>1. <<a, b>> \in R /\ b \in S
        BY <1>3, <1>6, <3>2
      <4> QED BY <1>7, <1>9, <4>1
    <3> QED BY <3>1, <3>2
  <2> QED BY <1>3, <1>4, <2>1
<1> QED BY <1>7, <1>8, <1>9

\* The candidate a is selected before b.
Beats(a, b) == Below(a.best, b.best) \/ (a.best = b.best /\ a.key < b.key)

CandidatesSound ==
  /\ IsFiniteSet(candidates) /\ \A c \in candidates : TrainedSoFar(c)
  /\ \A c, d \in candidates : c.key = d.key => c = d
  /\ training # NoTraining =>
       /\ TrainedSoFar(training) /\ ~Stops(training)
       /\ \A c \in candidates : c.key # training.key

\* So a selection has a winner.
LEMMA SelectionWins ==
  ASSUME family \in ModelFamilies, CandidatesSound, candidates # {}
  PROVE  /\ SelectedOf(candidates) \in candidates
         /\ \A b \in candidates \ {SelectedOf(candidates)} : Beats(SelectedOf(candidates), b)
<1> DEFINE R == {ab \in candidates \X candidates : Beats(ab[1], ab[2])}
<1>1. \A a \in candidates : a.key \in Nat /\ a.best \in Finite \cup {Infinite}
  BY KeysAreNumbers DEF CandidatesSound, TrainedSoFar
<1>2. ASSUME NEW a \in candidates, NEW b \in candidates, a # b
      PROVE  Beats(a, b) \/ Beats(b, a)
  <2>1. a.key # b.key /\ a.key \in Nat /\ b.key \in Nat
    BY <1>1, <1>2 DEF CandidatesSound
  <2>2. CASE a.best = Infinite /\ b.best = Infinite
    BY <2>1, <2>2 DEF Beats
  <2>3. CASE a.best = Infinite /\ b.best # Infinite
    BY <1>1, <2>3, FiniteLosses DEF Beats, Below
  <2>4. CASE a.best # Infinite /\ b.best = Infinite
    BY <1>1, <2>4, FiniteLosses DEF Beats, Below
  <2>5. CASE a.best # Infinite /\ b.best # Infinite
    <3>1. /\ a.best \in [loss : Nat, brier : Nat] /\ b.best \in [loss : Nat, brier : Nat]
          /\ a.best # Diverged /\ b.best # Diverged
      BY <1>1, <2>5, FiniteLosses
    <3>2. CASE a.best.loss = b.best.loss /\ a.best.brier = b.best.brier
      <4>1. a.best = b.best
        BY <3>1, <3>2
      <4> QED BY <2>1, <4>1 DEF Beats
    <3>3. CASE ~ (a.best.loss = b.best.loss /\ a.best.brier = b.best.brier)
      BY <2>5, <3>1, <3>3 DEF Beats, Below
    <3> QED BY <3>2, <3>3
  <2> QED BY <2>2, <2>3, <2>4, <2>5
<1>3. ASSUME NEW a \in candidates, NEW b \in candidates, NEW c \in candidates,
             Beats(a, b), Beats(b, c)
      PROVE  Beats(a, c)
  <2>0. a.key \in Nat /\ b.key \in Nat /\ c.key \in Nat
    BY <1>1
  <2>1. CASE c.best = Infinite
    BY <1>1, <1>3, <2>0, <2>1, FiniteLosses DEF Beats, Below
  <2>2. CASE c.best # Infinite
    <3>1. b.best # Infinite /\ a.best # Infinite
      BY <1>3, <2>2 DEF Beats, Below
    <3>2. /\ a.best \in [loss : Nat, brier : Nat] /\ b.best \in [loss : Nat, brier : Nat]
          /\ c.best \in [loss : Nat, brier : Nat]
          /\ a.best # Diverged /\ b.best # Diverged /\ c.best # Diverged
      BY <1>1, <2>2, <3>1, FiniteLosses
    <3> QED BY <1>3, <2>0, <2>2, <3>1, <3>2 DEF Beats, Below
  <2> QED BY <2>1, <2>2
<1>4. \E a \in candidates : \A b \in candidates \ {a} : <<a, b>> \in R
  <2>1. \A a, b \in candidates : a # b => <<a, b>> \in R \/ <<b, a>> \in R
    BY <1>2
  <2>2. \A a, b, c \in candidates : <<a, b>> \in R /\ <<b, c>> \in R => <<a, c>> \in R
    BY <1>3
  <2>3. IsFiniteSet(candidates)
    BY DEF CandidatesSound
  <2> HIDE DEF R
  <2> QED BY <2>1, <2>2, <2>3, FirstOfOrder
<1>5. \E a \in candidates : \A b \in candidates \ {a} : Beats(a, b)
  BY <1>4
<1> QED BY <1>5, Zenon DEF SelectedOf, Beats

-----------------------------------------------------------------------------
(***************************************************************************)
(* The run of a fixture.                                                   *)
(***************************************************************************)

Validated == validate_training_rows /\ (Temporal => validate_sequences)

ForecastInv ==
  /\ fixture \in {"generate", "blocked", "select", "evaluate", "written"}
  /\ fixture = "generate" => training = NoTraining /\ candidates = {}
  /\ fixture # "generate" => family \in ModelFamilies /\ horizon \in 1 .. HorizonCount
  /\ fixture \notin {"generate", "blocked"} => Validated
  /\ fixture \in {"generate", "blocked", "select"} => final_model = NoModel
  /\ fixture = "select" => CandidatesSound
  /\ fixture = "evaluate" =>
       /\ CandidatesSound /\ candidates # {}
       /\ final_model = FittedModel(SelectedOf(candidates))
  /\ fixture = "written" =>
       /\ \E selected : final_model = FittedModel(selected)
       /\ holdout \in [Segment("engineering_holdout") -> Forecasts]

\* While the rows and the target stay, so does what is made of them.
LEMMA SameFixture ==
  ASSUME UNCHANGED <<data, family, horizon>>
  PROVE  /\ Validated' = Validated
         /\ \A name : Segment(name)' = Segment(name)
         /\ \A selected : FittedModel(selected)' = FittedModel(selected)
         /\ \A t : /\ TrainedSoFar(t)' = TrainedSoFar(t)
                   /\ Stops(t)' = Stops(t)
         /\ CandidateKeys' = CandidateKeys
<1>1. Temporal' = Temporal /\ Items' = Items
  BY DEF Temporal, Items
<1>2. \A name : Segment(name)' = Segment(name)
  BY <1>1 DEF Segment
<1>3. \A row, h : Target(row, h)' = Target(row, h)
  BY DEF Target
<1>4. Validated' = Validated
  <2>1. validate_training_rows' = validate_training_rows
    BY <1>3 DEF validate_training_rows
  <2>2. validate_sequences' = validate_sequences
    BY <1>3 DEF validate_sequences
  <2> QED BY <1>1, <2>1, <2>2 DEF Validated
<1>5. \A selected : FittedModel(selected)' = FittedModel(selected)
  BY <1>2 DEF FittedModel
<1>6. CandidateKeys' = CandidateKeys /\ EpochLimit' = EpochLimit
  BY <1>1 DEF CandidateKeys, EpochLimit
<1>7. \A t : TrainedSoFar(t)' = TrainedSoFar(t)
  BY <1>6 DEF TrainedSoFar
<1>8. \A t : Stops(t)' = Stops(t)
  BY <1>6 DEF Stops
<1> QED BY <1>2, <1>4, <1>5, <1>6, <1>7, <1>8

LEMMA GenerateKeeps ==
  ASSUME ForecastInv, Generate
  PROVE  ForecastInv'
<1>1. /\ training' = NoTraining /\ candidates' = {} /\ final_model' = NoModel
      /\ family' \in ModelFamilies /\ horizon' \in 1 .. HorizonCount
      /\ fixture' = IF Validated' THEN "select" ELSE "blocked"
  BY DEF Generate, ForecastInv, Validated
<1>2. CandidatesSound'
  BY <1>1, FS_EmptySet DEF CandidatesSound
<1> QED BY <1>1, <1>2 DEF ForecastInv

LEMMA StartCandidateKeeps ==
  ASSUME ForecastInv, StartCandidate
  PROVE  ForecastInv'
<1> DEFINE left == {key \in CandidateKeys : \A c \in candidates : c.key # key}
<1>1. /\ fixture = "select" /\ fixture' = "select" /\ training = NoTraining /\ left # {}
      /\ training' = Untrained(Min(left)) /\ UNCHANGED <<data, family, horizon>>
      /\ candidates' = candidates /\ final_model' = final_model
      /\ family \in ModelFamilies /\ CandidatesSound
  BY DEF StartCandidate, ForecastInv
<1>2. Min(left) \in left
  <2>1. left \in SUBSET Nat
    BY <1>1, KeysAreNumbers
  <2>2. \E n \in left : \A m \in left : n <= m
    BY <1>1, <2>1, LeastNatural
  <2> HIDE DEF left
  <2>3. \E n \in left : \A m \in left : m >= n
    BY <2>1, <2>2
  <2> QED BY <2>3, Zenon DEF Min
<1>3. TrainedSoFar(training') /\ ~Stops(training') /\ training'.key = Min(left)
  <2>1. TrainedSoFar(training')
    BY <1>1, <1>2, UntrainedSound
  <2>2. EpochLimit \in Nat \ {0} /\ Patience \in Nat \ {0}
    BY <1>1, KeysAreNumbers, ForecastAssumption DEF load_temporal_model_config
  <2> QED BY <1>1, <2>1, <2>2 DEF Untrained, Stops
<1>4. CandidatesSound'
  <2>1. \A c \in candidates : c.key # training'.key
    BY <1>2, <1>3
  <2>2. PICK t : t = training'
    OBVIOUS
  <2>3. TrainedSoFar(t)' /\ ~Stops(t)'
    BY <1>1, <1>3, <2>2, SameFixture
  <2>4. \A c \in candidates : TrainedSoFar(c)'
    BY <1>1, SameFixture DEF CandidatesSound
  <2> QED BY <1>1, <2>1, <2>2, <2>3, <2>4 DEF CandidatesSound
<1> QED BY <1>1, <1>4, SameFixture DEF ForecastInv

LEMMA TrainEpochKeeps ==
  ASSUME ForecastInv, TrainEpoch
  PROVE  ForecastInv'
<1>1. /\ fixture = "select" /\ fixture' = "select" /\ training # NoTraining
      /\ UNCHANGED <<data, family, horizon>> /\ final_model' = final_model
      /\ family \in ModelFamilies /\ CandidatesSound
  BY DEF TrainEpoch, ForecastInv
<1>2. PICK outcome \in Outcomes :
             LET after == Epoch(training, outcome)
             IN IF Stops(after)
                  THEN training' = NoTraining /\ candidates' = candidates \cup {after}
                  ELSE training' = after /\ UNCHANGED candidates
  BY DEF TrainEpoch
<1>3. PICK after : after = Epoch(training, outcome)
  OBVIOUS
<1>4. TrainedSoFar(after) /\ after.key = training.key
  BY <1>1, <1>3, EpochSound DEF CandidatesSound
<1>5. /\ IsFiniteSet(candidates) /\ \A c \in candidates : TrainedSoFar(c)
      /\ \A c, d \in candidates : c.key = d.key => c = d
      /\ \A c \in candidates : c.key # after.key
  BY <1>1, <1>4 DEF CandidatesSound
<1>6. CandidatesSound'
  <2>1. CASE Stops(after)
    <3>1. training' = NoTraining /\ candidates' = candidates \cup {after}
      BY <1>2, <1>3, <2>1
    <3>2. IsFiniteSet(candidates')
      BY <1>5, <3>1, FS_AddElement
    <3>3. \A c \in candidates' : TrainedSoFar(c)
      BY <1>4, <1>5, <3>1
    <3>4. \A c \in candidates' : TrainedSoFar(c)'
      BY <1>1, <3>3, SameFixture
    <3>5. \A c, d \in candidates' : c.key = d.key => c = d
      BY <1>5, <3>1
    <3> QED BY <3>1, <3>2, <3>4, <3>5 DEF CandidatesSound
  <2>2. CASE ~Stops(after)
    <3>1. training' = after /\ candidates' = candidates
      BY <1>2, <1>3, <2>2
    <3>2. TrainedSoFar(after)' /\ ~Stops(after)' /\ \A c \in candidates : TrainedSoFar(c)'
      BY <1>1, <1>4, <1>5, <2>2, SameFixture
    <3> QED BY <1>5, <3>1, <3>2 DEF CandidatesSound
  <2> QED BY <2>1, <2>2
<1> QED BY <1>1, <1>6, SameFixture DEF ForecastInv

\* Validated rows can be calibrated: the fit never sees a segment of one class.
LEMMA CalibrationHasClasses ==
  ASSUME Validated, horizon \in 1 .. HorizonCount
  PROVE  Classes(Segment("calibration"), horizon) = BOOLEAN
<1>0. "calibration" \in DOMAIN SplitDays
  BY ForecastAssumption DEF load_temporal_model_config
<1>1. CASE Temporal
  <2>1. {Target(Endpoint(w), horizon) : w \in {v \in build_sequences :
                             split_for_day(Endpoint(v).day) = "calibration"}} = BOOLEAN
    BY <1>0, <1>1 DEF Validated, validate_sequences
  <2>2. Segment("calibration") =
          {v \in build_sequences : split_for_day(Endpoint(v).day) = "calibration"}
    BY <1>1 DEF Segment, Items
  <2> QED BY <2>1, <2>2 DEF Classes
<1>2. CASE ~Temporal
  <2>1. PICK z : z \in Symbols
    BY ForecastAssumption DEF load_simple_model_config
  <2> DEFINE Of(y) == {Target(row, horizon) : row \in {r \in Rows :
                              split_for_day(r.day) = "calibration" /\ r.symbol = y}}
  <2>2. \A y \in Symbols : Of(y) = BOOLEAN
    BY <1>0 DEF Validated, validate_training_rows
  <2>3. Segment("calibration") =
          {<<r>> : r \in {r \in Rows : split_for_day(r.day) = "calibration"}}
    <3>1. \A r : Endpoint(<<r>>) = r
      BY DEF Endpoint
    <3> QED BY <1>2, <3>1 DEF Segment, Items
  <2>4. Classes(Segment("calibration"), horizon) =
          {Target(r, horizon) : r \in {r \in Rows : split_for_day(r.day) = "calibration"}}
    <3>1. \A r : Endpoint(<<r>>) = r
      BY DEF Endpoint
    <3> QED BY <2>3, <3>1 DEF Classes
  <2>5. \A r \in Rows : r.symbol \in Symbols
    BY DEF Rows, RowId
  <2>6. ASSUME NEW r \in Rows, split_for_day(r.day) = "calibration"
        PROVE  Target(r, horizon) \in BOOLEAN
    <3>1. Target(r, horizon) \in Of(r.symbol)
      BY <2>6
    <3> HIDE DEF Of
    <3>2. Of(r.symbol) = BOOLEAN
      BY <2>2, <2>5
    <3> QED BY <3>1, <3>2
  <2>7. ASSUME NEW b \in BOOLEAN
        PROVE  \E r \in Rows : split_for_day(r.day) = "calibration" /\ Target(r, horizon) = b
    <3>1. \A c \in Of(z) :
            \E r \in Rows : split_for_day(r.day) = "calibration" /\ Target(r, horizon) = c
      OBVIOUS
    <3> HIDE DEF Of
    <3>2. Of(z) = BOOLEAN
      BY <2>1, <2>2
    <3> QED BY <3>1, <3>2
  <2> QED BY <2>4, <2>6, <2>7
<1> QED BY <1>1, <1>2

LEMMA FitSelectedKeeps ==
  ASSUME ForecastInv, FitSelected
  PROVE  ForecastInv'
<1>1. /\ fixture = "select" /\ training = NoTraining /\ training' = training
      /\ Cardinality(candidates) = Cardinality(CandidateKeys)
      /\ UNCHANGED <<data, family, horizon>> /\ candidates' = candidates
      /\ family \in ModelFamilies /\ horizon \in 1 .. HorizonCount /\ CandidatesSound /\ Validated
  BY DEF FitSelected, ForecastInv
<1>2. fixture' = "evaluate" /\ final_model' = FittedModel(SelectedOf(candidates))
  BY <1>1, CalibrationHasClasses DEF FitSelected
<1>3. candidates # {}
  <2>1. Cardinality(CandidateKeys) # 0
    BY <1>1, KeysAreNumbers, FS_EmptySet
  <2> QED BY <1>1, <2>1, FS_EmptySet
<1>4. CandidatesSound'
  BY <1>1, SameFixture DEF CandidatesSound
<1>5. PICK w : w = SelectedOf(candidates)
  OBVIOUS
<1>6. final_model' = FittedModel(w)' /\ w = SelectedOf(candidates')
  BY <1>1, <1>2, <1>5, SameFixture
<1>7. (final_model = FittedModel(SelectedOf(candidates)))'
  BY <1>1, <1>2, SameFixture
<1>8. Validated'
  BY <1>1, SameFixture
<1> QED BY <1>1, <1>2, <1>3, <1>4, <1>7, <1>8 DEF ForecastInv

LEMMA EvaluateKeeps ==
  ASSUME ForecastInv, Evaluate
  PROVE  ForecastInv'
<1>1. /\ fixture = "evaluate" /\ fixture' = "written" /\ UNCHANGED <<data, family, horizon>>
      /\ final_model' = final_model /\ holdout' \in [Segment("engineering_holdout") -> Forecasts]
      /\ family \in ModelFamilies /\ horizon \in 1 .. HorizonCount /\ Validated
      /\ final_model = FittedModel(SelectedOf(candidates))
  BY DEF Evaluate, ForecastInv
<1>2. PICK w : w = SelectedOf(candidates)
  OBVIOUS
<1>3. (\E selected : final_model = FittedModel(selected))'
  <2>1. final_model' = FittedModel(w)'
    BY <1>1, <1>2, SameFixture
  <2> QED BY <2>1
<1>4. Segment("engineering_holdout")' = Segment("engineering_holdout") /\ Validated'
  BY <1>1, SameFixture
<1> QED BY <1>1, <1>3, <1>4 DEF ForecastInv

LEMMA ForecastKeeps ==
  ASSUME ForecastInv, [ForecastNext]_forecastVars
  PROVE  ForecastInv'
<1>1. CASE UNCHANGED forecastVars
  <2>1. UNCHANGED <<fixture, data, family, horizon, training, candidates, final_model, holdout>>
    BY <1>1 DEF forecastVars
  <2>2. CandidatesSound' = CandidatesSound
    BY <2>1, SameFixture DEF CandidatesSound
  <2>3. PICK w : w = SelectedOf(candidates)
    OBVIOUS
  <2>4. (\E selected : final_model = FittedModel(selected))' <=>
          (\E selected : final_model = FittedModel(selected))
    BY <2>1, SameFixture
  <2>5. FittedModel(w)' = FittedModel(w) /\ SelectedOf(candidates)' = w
    BY <2>1, <2>3, SameFixture DEF SelectedOf
  <2>6. FittedModel(SelectedOf(candidates))' = FittedModel(SelectedOf(candidates))
    BY <2>1, <2>3, SameFixture DEF SelectedOf
  <2>7. Validated' = Validated /\ Segment("engineering_holdout")' = Segment("engineering_holdout")
    BY <2>1, SameFixture
  <2> QED BY <2>1, <2>2, <2>4, <2>6, <2>7 DEF ForecastInv
<1> QED BY <1>1, GenerateKeeps, StartCandidateKeeps, TrainEpochKeeps, FitSelectedKeeps, EvaluateKeeps
        DEF ForecastNext

LEMMA ForecastAlways == Spec => []ForecastInv
<1>1. Init => ForecastInv
  BY DEF Init, ForecastInit, ForecastInv
<1>2. ForecastInv /\ [Next]_vars => ForecastInv'
  BY ForecastKeeps DEF Next, vars, Predict, Forecast, Reinforce, Imitate, Stress, Measure
<1> QED BY <1>1, <1>2, PTL DEF Spec

\* What a model is fitted to is past, and what its card names.
LEMMA FitIsDeclared ==
  ASSUME ForecastInv, final_model # NoModel
  PROVE  FittedAsDeclared
<1>1. PICK selected : final_model = FittedModel(selected)
  BY DEF ForecastInv
<1> DEFINE train == RowsIn(Segment("train"))
           validation == RowsIn(Segment("validation"))
           calibration == RowsIn(Segment("calibration"))
<1>2. RowsIn(Segment("train") \cup Segment("validation")) = train \cup validation /\ RowsIn({}) = {}
  BY DEF RowsIn
<1>3. /\ final_model.prevalence = train
      /\ final_model.scaler = IF Scaled(family) THEN train ELSE {}
      /\ final_model.weights = IF family = "base_rate" THEN train ELSE train \cup validation
      /\ final_model.calibrator = IF family = "base_rate" THEN {} ELSE calibration
  BY <1>1, <1>2 DEF FittedModel
<1>4. /\ \A r \in train : r.day \in Nat /\ split_for_day(r.day) = "train"
      /\ \A r \in validation : r.day \in Nat /\ split_for_day(r.day) = "validation"
      /\ \A r \in calibration : r.day \in Nat /\ split_for_day(r.day) = "calibration"
      /\ \A r \in RowsIn(Segment("engineering_holdout")) :
           r.day \in Nat /\ split_for_day(r.day) = "engineering_holdout"
  BY SegmentDays DEF Segments
<1> HIDE DEF train, validation, calibration
<1>5. NoLeakage
  <2>1. \A r \in train, v \in validation : r.day < v.day
    BY <1>4, SegmentsInOrder
  <2>2. \A r \in train \cup validation, c \in calibration : r.day < c.day
    BY <1>4, SegmentsInOrder
  <2>3. \A r \in train \cup validation \cup calibration,
           h \in RowsIn(Segment("engineering_holdout")) : r.day < h.day
    BY <1>4, SegmentsInOrder
  <2> QED BY <1>3, <2>1, <2>2, <2>3 DEF NoLeakage, Learned, validation
<1>6. CardIsTrue
  <2>1. /\ UNION {Segment(name) : name \in {"train", "validation"}} =
             Segment("train") \cup Segment("validation")
        /\ UNION {Segment(name) : name \in {"train"}} = Segment("train")
        /\ UNION {Segment(name) : name \in {"calibration"}} = Segment("calibration")
        /\ UNION {Segment(name) : name \in {}} = {}
    OBVIOUS
  <2> QED BY <1>2, <1>3, <2>1 DEF CardIsTrue, model_card, train, validation, calibration
<1> QED BY <1>5, <1>6 DEF FittedAsDeclared

\* A model is fitted to the past only, whatever its family and the length of the
\* segments: the scaler to days before the validation, the weights to days before
\* the calibration, the calibrator to days before the holdout; and these are the
\* segments that its card names (prediction/simple_models.py, temporal_models.py).
THEOREM FittedAlwaysAsDeclared == Spec => []FittedAsDeclared
<1>1. final_model = NoModel => FittedAsDeclared
  BY DEF FittedAsDeclared, NoLeakage, CardIsTrue
<1>2. ForecastInv => FittedAsDeclared
  BY <1>1, FitIsDeclared
<1> QED BY <1>2, ForecastAlways, PTL

\* The winner of a selection is the best epoch of any candidate.
LEMMA WinnerIsBest ==
  ASSUME ForecastInv
  PROVE  SelectedIsBest
<1> SUFFICES ASSUME fixture = "evaluate" PROVE SelectedIsBest
  BY DEF SelectedIsBest
<1> DEFINE w == SelectedOf(candidates)
           finite == {ce \in candidates \X (1 .. EpochLimit) :
                        ce[2] \in DOMAIN ce[1].history /\ ce[1].history[ce[2]] # Diverged}
           winner == CHOOSE c \in candidates : c.key = final_model.key
<1>1. family \in ModelFamilies /\ CandidatesSound /\ candidates # {} /\ final_model = FittedModel(w)
  BY DEF ForecastInv
<1>2. w \in candidates /\ \A b \in candidates \ {w} : Beats(w, b)
  BY <1>1, SelectionWins
<1>3. \A c \in candidates : TrainedSoFar(c) /\ \A d \in candidates : c.key = d.key => c = d
  BY <1>1 DEF CandidatesSound
<1>4. final_model.key = w.key /\ final_model.epochs = w.best_epoch
  BY <1>1 DEF FittedModel
<1> HIDE DEF w
<1>5. winner = w
  BY <1>2, <1>3, <1>4
<1>6. ASSUME NEW c \in candidates
      PROVE  /\ DOMAIN c.history \subseteq 1 .. EpochLimit /\ c.best \in Finite \cup {Infinite}
             /\ \A e \in DOMAIN c.history : c.history[e] \in Finite \cup {Diverged}
             /\ BestSoFar(c)
  <2>1. /\ c.history \in Seq(Finite \cup {Diverged}) /\ Len(c.history) <= EpochLimit
        /\ Len(c.history) \in Nat
        /\ c.best \in Finite \cup {Infinite} /\ BestSoFar(c)
    BY <1>3 DEF TrainedSoFar
  <2>2. EpochLimit \in Nat
    BY <1>1, KeysAreNumbers
  <2>3. /\ DOMAIN c.history = 1 .. Len(c.history)
        /\ \A e \in DOMAIN c.history : c.history[e] \in Finite \cup {Diverged}
    BY <2>1
  <2> QED BY <2>1, <2>2, <2>3
<1>7. CASE finite = {}
  <2>1. w.best = Infinite
    <3> SUFFICES ASSUME w.best # Infinite PROVE FALSE
      OBVIOUS
    <3>1. /\ w.best_epoch \in DOMAIN w.history /\ w.history[w.best_epoch] \in Finite
          /\ w.best_epoch \in 1 .. EpochLimit
      BY <1>2, <1>6 DEF BestSoFar
    <3>2. <<w, w.best_epoch>> \in finite
      BY <1>2, <3>1, FiniteLosses
    <3> QED BY <1>7, <3>2
  <2>2. w.best_epoch = 0
    BY <1>2, <1>6, <2>1 DEF BestSoFar
  <2> QED BY <1>4, <1>7, <2>2 DEF SelectedIsBest
<1>8. CASE finite # {}
  <2>1. ASSUME NEW ce \in finite
        PROVE  /\ w.best \in Finite /\ w.best # Infinite
               /\ Lexicographic(w.best, ce[1].history[ce[2]])
    <3> DEFINE c == ce[1]
               shown == c.history[ce[2]]
    <3>1. c \in candidates /\ ce[2] \in DOMAIN c.history /\ shown # Diverged
      OBVIOUS
    <3>2. shown \in Finite /\ BestSoFar(c)
      BY <1>6, <3>1
    <3>3. c.best # Infinite /\ c.best \in Finite /\ Lexicographic(c.best, shown)
      BY <3>1, <3>2 DEF BestSoFar
    <3>4. w.best \in Finite \cup {Infinite}
      BY <1>2, <1>6
    <3> HIDE DEF c, shown
    <3>5. CASE w = c
      BY <3>3, <3>5, FiniteLosses DEF c, shown
    <3>6. CASE w # c
      <4>1. Beats(w, c)
        BY <1>2, <3>1, <3>6
      <4>2. w.best # Infinite /\ w.best \in Finite
        BY <3>3, <3>4, <4>1 DEF Beats, Below
      <4>3. CASE w.best = c.best
        BY <3>3, <4>2, <4>3 DEF c, shown
      <4>4. CASE w.best # c.best
        <5>1. w.best.loss < c.best.loss
                \/ (w.best.loss = c.best.loss /\ w.best.brier < c.best.brier)
          BY <3>3, <4>1, <4>4 DEF Beats, Below
        <5> QED BY <3>2, <3>3, <4>2, <5>1, FiniteLosses, LexicographicOrder DEF c, shown
      <4> QED BY <4>3, <4>4
    <3> QED BY <3>5, <3>6
  <2>2. w.best \in Finite /\ w.best # Infinite /\ BestSoFar(w)
    BY <1>2, <1>6, <1>8, <2>1
  <2>3. /\ w.best_epoch \in DOMAIN w.history /\ w.history[w.best_epoch] = w.best
        /\ w.best # Diverged
        /\ \A e \in DOMAIN w.history :
             w.history[e] # Diverged /\ e < w.best_epoch => ~Lexicographic(w.history[e], w.best)
        /\ \A e \in 1 .. w.best_epoch : w.history[e] # Diverged
    BY <2>2, FiniteLosses DEF BestSoFar
  <2>4. \A e \in 1 .. w.best_epoch - 1 : ~Lexicographic(w.history[e], w.best)
    <3>1. /\ w.history \in Seq(Finite \cup {Diverged}) /\ DOMAIN w.history = 1 .. Len(w.history)
          /\ Len(w.history) \in Nat
      BY <1>2, <1>3 DEF TrainedSoFar
    <3>2. \A e \in 1 .. w.best_epoch - 1 :
            e \in DOMAIN w.history /\ e < w.best_epoch /\ e \in 1 .. w.best_epoch
      BY <2>3, <3>1
    <3> QED BY <2>3, <3>2
  <2>5. /\ final_model.epochs \in DOMAIN w.history
        /\ w.history[final_model.epochs] # Diverged
        /\ \A ce \in finite :
             Lexicographic(w.history[final_model.epochs], ce[1].history[ce[2]])
        /\ \A e \in 1 .. final_model.epochs - 1 :
             ~Lexicographic(w.history[e], w.history[final_model.epochs])
    BY <1>4, <2>1, <2>3, <2>4
  <2> HIDE DEF finite, winner
  <2>6. IF finite = {} THEN final_model.epochs = 0
        ELSE /\ final_model.epochs \in DOMAIN winner.history
             /\ winner.history[final_model.epochs] # Diverged
             /\ \A ce \in finite :
                  Lexicographic(winner.history[final_model.epochs], ce[1].history[ce[2]])
             /\ \A e \in 1 .. final_model.epochs - 1 :
                  ~Lexicographic(winner.history[e], winner.history[final_model.epochs])
    BY <1>5, <1>8, <2>5
  <2> QED BY <2>6 DEF SelectedIsBest, finite, winner
<1> QED BY <1>7, <1>8

\* The model that is fitted is the best epoch of any candidate on the validation
\* segment, by log loss and then Brier score, and the first such epoch of its
\* candidate; a diverged network is never taken, however the losses fall, and
\* rows that were accepted can be calibrated (prediction/simple_models.py,
\* temporal_models.py).
THEOREM SelectionAlwaysSound == Spec => []SelectionSound
<1>1. ForecastInv => SelectionSound
  BY WinnerIsBest DEF SelectionSound, CalibrationFits, ForecastInv
<1> QED BY <1>1, ForecastAlways, PTL

-----------------------------------------------------------------------------
(***************************************************************************)
(* The report.                                                             *)
(***************************************************************************)

LEMMA ImageFinite ==
  ASSUME NEW S, IsFiniteSet(S), NEW f
  PROVE  IsFiniteSet({f[x] : x \in S})
<1> DEFINE g == [x \in S |-> f[x]]
<1>1. g \in Surjection(S, {f[x] : x \in S})
  BY DEF Surjection
<1> QED BY <1>1, FS_Surjection

LEMMA ItemsFinite == IsFiniteSet(Items)
<1>1. /\ RowsPer \in Nat \ {0} /\ SequenceLength \in 2 .. RowsPer /\ TotalDays \in Nat
      /\ IsFiniteSet(Symbols)
  BY DaysAddUp, ForecastAssumption DEF load_temporal_model_config, load_simple_model_config
<1>2. IsFiniteSet({"bid", "ask"})
  <2>1. IsFiniteSet({"bid"})
    BY FS_Singleton
  <2>2. IsFiniteSet({"bid"} \cup {"ask"}) /\ {"bid"} \cup {"ask"} = {"bid", "ask"}
    BY <2>1, FS_AddElement
  <2> QED BY <2>2
<1>3. IsFiniteSet(0 .. TotalDays - 1) /\ IsFiniteSet(0 .. RowsPer - 1)
      /\ IsFiniteSet(0 .. RowsPer - SequenceLength)
  BY <1>1, FS_Interval
<1>4. IsFiniteSet((0 .. TotalDays - 1) \X Symbols)
  BY <1>1, <1>3, FS_Product
<1> DEFINE D == (0 .. TotalDays - 1) \X Symbols
           D2 == D \X {"bid", "ask"}
<1>5. IsFiniteSet(D2)
  BY <1>2, <1>4, FS_Product
<1>6. CASE Temporal
  <2> DEFINE P == D2 \X (0 .. RowsPer - SequenceLength)
             w(p) == SubSeq(Group(p[1][1][1], p[1][1][2], p[1][2]), p[2] + 1, p[2] + SequenceLength)
  <2>1. IsFiniteSet(P)
    BY <1>3, <1>5, FS_Product
  <2>2. IsFiniteSet({w(p) : p \in P})
    <3> DEFINE f == [p \in P |-> w(p)]
    <3> HIDE DEF P
    <3>1. \A p \in P : f[p] = w(p)
      OBVIOUS
    <3>2. {f[p] : p \in P} = {w(p) : p \in P}
      BY <3>1
    <3> HIDE DEF f
    <3>3. IsFiniteSet({f[p] : p \in P})
      BY <2>1, ImageFinite
    <3> QED BY <3>2, <3>3
  <2>3. Items \subseteq {w(p) : p \in P}
    <3> SUFFICES ASSUME NEW item \in Items PROVE \E p \in P : item = w(p)
      OBVIOUS
    <3>1. PICK d \in 0 .. TotalDays - 1, y \in Symbols, s \in {"bid", "ask"} :
                 item \in SequencesOf(Group(d, y, s))
      BY <1>6 DEF Items, build_sequences
    <3>2. Len(Group(d, y, s)) = RowsPer
      BY <1>1 DEF Group
    <3>3. PICK start \in 0 .. RowsPer - SequenceLength :
                 item = SubSeq(Group(d, y, s), start + 1, start + SequenceLength)
      BY <3>1, <3>2 DEF SequencesOf
    <3>4. <<<<<<d, y>>, s>>, start>> \in P /\ item = w(<<<<<<d, y>>, s>>, start>>)
      BY <3>3
    <3> QED BY <3>4
  <2> QED BY <2>2, <2>3, FS_Subset
<1>7. CASE ~Temporal
  <2> DEFINE P == D2 \X (0 .. RowsPer - 1)
             w(p) == <<RowId(p[1][1][1], p[1][1][2], p[1][2], p[2])>>
  <2>1. IsFiniteSet(P)
    BY <1>3, <1>5, FS_Product
  <2>2. IsFiniteSet({w(p) : p \in P})
    <3> DEFINE f == [p \in P |-> w(p)]
    <3> HIDE DEF P
    <3>1. \A p \in P : f[p] = w(p)
      OBVIOUS
    <3>2. {f[p] : p \in P} = {w(p) : p \in P}
      BY <3>1
    <3> HIDE DEF f
    <3>3. IsFiniteSet({f[p] : p \in P})
      BY <2>1, ImageFinite
    <3> QED BY <3>2, <3>3
  <2>3. Items \subseteq {w(p) : p \in P}
    <3> SUFFICES ASSUME NEW item \in Items PROVE \E p \in P : item = w(p)
      OBVIOUS
    <3>1. PICK d \in 0 .. TotalDays - 1, y \in Symbols, s \in {"bid", "ask"}, k \in 0 .. RowsPer - 1 :
                 item = <<RowId(d, y, s, k)>>
      BY <1>7 DEF Items, Rows
    <3>2. <<<<<<d, y>>, s>>, k>> \in P /\ item = w(<<<<<<d, y>>, s>>, k>>)
      BY <3>1
    <3> QED BY <3>2
  <2> QED BY <2>2, <2>3, FS_Subset
<1> QED BY <1>6, <1>7

\* Of a forecast in hundredths exactly one bin is the right one.
LEMMA OneBin ==
  ASSUME NEW n \in Nat, NEW bins \in Nat, bins >= 2, n <= 100 * bins
  PROVE  \E b \in 0 .. bins - 1 : \A i \in 0 .. bins - 1 :
           i = b <=> /\ n >= 100 * i
                     /\ IF i + 1 < bins THEN n < 100 * (i + 1) ELSE TRUE
<1>1. CASE n = 100 * bins
  <2>1. bins - 1 \in 0 .. bins - 1
    OBVIOUS
  <2> QED BY <1>1, <2>1
<1>2. CASE n < 100 * bins
  <2> DEFINE T == {j \in Nat : n < 100 * (j + 1)}
  <2>1. T \in SUBSET Nat /\ bins - 1 \in T
    BY <1>2
  <2>2. PICK b \in T : \A j \in T : b <= j
    BY <2>1, LeastNatural
  <2>3. b \in 0 .. bins - 1 /\ n < 100 * (b + 1)
    BY <2>1, <2>2
  <2>4. n >= 100 * b
    <3>1. CASE b = 0
      BY <3>1
    <3>2. CASE b # 0
      <4>1. b - 1 \in Nat /\ b - 1 \notin T
        BY <2>2, <2>3, <3>2
      <4> QED BY <2>3, <4>1
    <3> QED BY <3>1, <3>2
  <2> HIDE DEF T
  <2>5. ASSUME NEW i \in 0 .. bins - 1
        PROVE  i = b <=> /\ n >= 100 * i
                         /\ IF i + 1 < bins THEN n < 100 * (i + 1) ELSE TRUE
    <3>1. i = b \/ i < b \/ i > b
      BY <2>3
    <3>2. CASE i = b
      BY <2>3, <2>4, <3>2
    <3>3. CASE i < b
      <4>1. i + 1 <= b /\ i + 1 < bins /\ 100 * (i + 1) <= 100 * b
        BY <2>3, <3>3
      <4>2. ~ (n < 100 * (i + 1))
        BY <2>3, <2>4, <4>1
      <4> QED BY <3>3, <4>1, <4>2, <2>3
    <3>4. CASE i > b
      <4>1. 100 * i >= 100 * (b + 1)
        BY <2>3, <3>4
      <4>2. ~ (n >= 100 * i)
        BY <2>3, <4>1
      <4> QED BY <3>4, <4>2, <2>3
    <3> QED BY <3>1, <3>2, <3>3, <3>4
  <2> QED BY <2>3, <2>5
<1> QED BY <1>1, <1>2

\* A report whose forecasts are probabilities.
HoldoutKnown ==
  /\ DOMAIN holdout = Segment("engineering_holdout")
  /\ \A item \in DOMAIN holdout : holdout[item] \in 0 .. 100

LEMMA HoldoutFinite ==
  ASSUME HoldoutKnown
  PROVE  IsFiniteSet(DOMAIN holdout)
<1>1. DOMAIN holdout \subseteq Items
  BY DEF HoldoutKnown, Segment
<1> QED BY <1>1, ItemsFinite, FS_Subset

\* Every forecast is in one bin and in one slice of every kind.
LEMMA EveryForecastOnce ==
  ASSUME HoldoutKnown, NEW item \in DOMAIN holdout
  PROVE  /\ Cardinality({index \in 0 .. EceBins - 1 : item \in Bin(index)}) = 1
         /\ item \in FirstHalf <=> item \notin SecondHalf
         /\ Cardinality({y \in Symbols : item \in OfSymbol(y)}) = 1
         /\ item \in OfSide("bid") <=> item \notin OfSide("ask")
<1>1. /\ item \in Items /\ split_for_day(Endpoint(item).day) = "engineering_holdout"
      /\ Endpoint(item) \in Rows
  BY ItemOfDay DEF HoldoutKnown, Segment
<1>2. Cardinality({index \in 0 .. EceBins - 1 : item \in Bin(index)}) = 1
  <2> DEFINE n == holdout[item] * EceBins
  <2>1. /\ EceBins \in Nat /\ EceBins >= 2 /\ holdout[item] \in 0 .. 100
    BY ForecastAssumption DEF load_simple_model_config, HoldoutKnown
  <2>2. n \in Nat /\ n <= 100 * EceBins
    <3>1. n \in Nat /\ (100 - holdout[item]) * EceBins \in Nat
      BY <2>1
    <3>2. (100 - holdout[item]) * EceBins = 100 * EceBins - n
      BY <2>1
    <3> QED BY <2>1, <3>1, <3>2
  <2>3. \A i \in 0 .. EceBins - 1 :
          item \in Bin(i) <=> /\ n >= 100 * i
                              /\ IF i + 1 < EceBins THEN n < 100 * (i + 1) ELSE TRUE
    BY <2>1 DEF Bin
  <2> HIDE DEF n
  <2>4. PICK b \in 0 .. EceBins - 1 : \A i \in 0 .. EceBins - 1 :
               i = b <=> /\ n >= 100 * i
                         /\ IF i + 1 < EceBins THEN n < 100 * (i + 1) ELSE TRUE
    BY <2>1, <2>2, OneBin
  <2>5. {index \in 0 .. EceBins - 1 : item \in Bin(index)} = {b}
    BY <2>3, <2>4
  <2> QED BY <2>5, FS_Singleton
<1>3. item \in FirstHalf <=> item \notin SecondHalf
  <2>1. /\ Endpoint(item).day \in Nat /\ UpToCalibration <= Endpoint(item).day
        /\ Midpoint \in Int
    <3>1. Endpoint(item).day \in Nat
      BY <1>1, DaysAddUp DEF Rows, RowId
    <3>2. SplitDays["engineering_holdout"] \in Nat
      BY ForecastAssumption DEF load_temporal_model_config
    <3> QED BY <1>1, <3>1, <3>2, DaysAddUp DEF split_for_day, Midpoint
  <2> QED BY <2>1 DEF FirstHalf, SecondHalf
<1>4. Cardinality({y \in Symbols : item \in OfSymbol(y)}) = 1
  <2>1. Endpoint(item).symbol \in Symbols
    BY <1>1 DEF Rows, RowId
  <2>2. {y \in Symbols : item \in OfSymbol(y)} = {Endpoint(item).symbol}
    BY <2>1 DEF OfSymbol
  <2> QED BY <2>2, FS_Singleton
<1>5. item \in OfSide("bid") <=> item \notin OfSide("ask")
  BY <1>1 DEF Rows, RowId, OfSide
<1> QED BY <1>2, <1>3, <1>4, <1>5

\* Counts of a higher threshold are of fewer predictions.
LEMMA CountsMonotone ==
  ASSUME HoldoutKnown, NEW t \in Thresholds, NEW u \in Thresholds
  PROVE  /\ t <= u => Counts(u).tp <= Counts(t).tp /\ Counts(u).fp <= Counts(t).fp
         /\ Counts(t).tp + Counts(t).fn = Counts(u).tp + Counts(u).fn
<1>1. t \in Int /\ u \in Int
  BY ForecastAssumption DEF load_simple_model_config
<1>2. IsFiniteSet(DOMAIN holdout)
  BY HoldoutFinite
<1>3. t <= u => Predicted(u) \subseteq Predicted(t)
  BY <1>1 DEF Predicted, HoldoutKnown
<1>4. \A v : Predicted(v) \subseteq DOMAIN holdout
  BY DEF Predicted
<1>5. \A A : Positive(A) \subseteq A /\ \A B : A \subseteq B => Positive(A) = A \cap Positive(B)
  BY DEF Positive
<1>6. t <= u => Cardinality(Positive(Predicted(u))) <= Cardinality(Positive(Predicted(t)))
  <2>1. IsFiniteSet(Positive(Predicted(t)))
    BY <1>2, <1>4, <1>5, FS_Subset
  <2>2. t <= u => Positive(Predicted(u)) \subseteq Positive(Predicted(t))
    BY <1>3, <1>5
  <2> QED BY <2>1, <2>2, FS_Subset
<1>7. t <= u => Cardinality(Predicted(u) \ Positive(Predicted(u)))
                  <= Cardinality(Predicted(t) \ Positive(Predicted(t)))
  <2>1. IsFiniteSet(Predicted(t) \ Positive(Predicted(t)))
    BY <1>2, <1>4, FS_Subset
  <2>2. t <= u => Predicted(u) \ Positive(Predicted(u)) \subseteq
                    Predicted(t) \ Positive(Predicted(t))
    BY <1>3, <1>5
  <2> QED BY <2>1, <2>2, FS_Subset
<1>8. ASSUME NEW v
      PROVE  Cardinality(Positive(Predicted(v)))
               + Cardinality(Positive(DOMAIN holdout) \ Predicted(v))
               = Cardinality(Positive(DOMAIN holdout))
  <2> DEFINE P == Positive(DOMAIN holdout)
             A == Positive(Predicted(v))
             B == P \ Predicted(v)
  <2>1. A = Predicted(v) \cap P
    BY <1>4, <1>5
  <2>2. A \cup B = P /\ A \cap B = {}
    BY <2>1
  <2>3. IsFiniteSet(P)
    BY <1>2, <1>5, FS_Subset
  <2>4. IsFiniteSet(A) /\ IsFiniteSet(B)
    BY <2>2, <2>3, FS_Subset
  <2> HIDE DEF P, A, B
  <2>5. Cardinality(A \cup B) = Cardinality(A) + Cardinality(B) - Cardinality(A \cap B)
    BY <2>4, FS_Union
  <2>6. Cardinality(A) \in Nat /\ Cardinality(B) \in Nat /\ Cardinality(A \cap B) = 0
    BY <2>2, <2>4, FS_CardinalityType, FS_EmptySet
  <2>7. Cardinality(A) + Cardinality(B) = Cardinality(P)
    BY <2>2, <2>5, <2>6
  <2> QED BY <2>7 DEF P, A, B
<1> QED BY <1>6, <1>7, <1>8 DEF Counts

\* A sum of two values is a count of each.
LEMMA SumOfTwoValues ==
  ASSUME NEW S, IsFiniteSet(S), NEW P \in SUBSET S, NEW f, NEW v \in Int,
         \A x \in P : f[x] = v, \A x \in S \ P : f[x] = 0
  PROVE  SumFunctionOnSet(f, S) = v * Cardinality(P)
<1> DEFINE Bad == {T \in SUBSET S : SumFunctionOnSet(f, T) # v * Cardinality(T \cap P)}
<1> SUFFICES ASSUME Bad # {} PROVE FALSE
  <2>1. S \cap P = P
    OBVIOUS
  <2> QED BY <2>1
<1>1. \A T \in Bad : IsFiniteSet(T)
  BY FS_Subset
<1> HIDE DEF Bad
<1>2. PICK T \in Bad : \A x \in T : T \ {x} \notin Bad
  BY <1>1, MinimalSet
<1>3. T \in SUBSET S /\ SumFunctionOnSet(f, T) # v * Cardinality(T \cap P) /\ IsFiniteSet(T)
  BY <1>1, <1>2 DEF Bad
<1>4. T # {}
  <2> SUFFICES ASSUME T = {} PROVE FALSE
    OBVIOUS
  <2>1. T \cap P = {} /\ Cardinality({}) = 0 /\ SumFunctionOnSet(f, T) = 0
    BY FS_EmptySet, SumOfNone
  <2>2. v * 0 = 0
    OBVIOUS
  <2> QED BY <1>3, <2>1, <2>2
<1>5. PICK x : x \in T
  BY <1>4
<1> DEFINE U == T \ {x}
<1>6. SumFunctionOnSet(f, U) = v * Cardinality(U \cap P)
  BY <1>2, <1>3, <1>5 DEF Bad
<1>7. SumFunctionOnSet(f, T) = f[x] + SumFunctionOnSet(f, U)
  <2>1. \A y \in T : f[y] \in Int
    BY <1>3
  <2> QED BY <1>3, <1>5, <2>1, SumWithout
<1>8. IsFiniteSet(U \cap P) /\ Cardinality(U \cap P) \in Nat
  BY <1>3, FS_Subset, FS_CardinalityType
<1>9. CASE x \in P
  <2>1. T \cap P = (U \cap P) \cup {x} /\ x \notin U \cap P
    BY <1>5, <1>9
  <2>2. Cardinality(T \cap P) = Cardinality(U \cap P) + 1
    BY <1>8, <2>1, FS_AddElement
  <2>3. v * (Cardinality(U \cap P) + 1) = v + v * Cardinality(U \cap P)
    BY <1>8
  <2> QED BY <1>3, <1>6, <1>7, <1>9, <2>2, <2>3
<1>10. CASE x \notin P
  <2>1. T \cap P = U \cap P /\ f[x] = 0
    BY <1>3, <1>5, <1>10
  <2>2. v * Cardinality(U \cap P) \in Int
    BY <1>8
  <2>3. \A y \in Int : 0 + y = y
    OBVIOUS
  <2>4. SumFunctionOnSet(f, T) = v * Cardinality(U \cap P)
    BY <1>6, <1>7, <2>1, <2>2, <2>3
  <2> QED BY <1>3, <2>1, <2>4
<1> QED BY <1>9, <1>10

\* A decision by the forecast costs no less than the oracle's.
LEMMA OracleIsBest ==
  ASSUME NEW item
  PROVE  realized(item) >= oracle(item)
<1>1. AggressiveCost \in Nat /\ PassiveCost \in Nat /\ 0 < AggressiveCost
      /\ AggressiveCost < PassiveCost
  BY ForecastAssumption DEF load_temporal_model_config
<1> QED BY <1>1 DEF realized, oracle

\* Where a probability is the frequency, deciding by it is no worse than either
\* constant decision.
LEMMA CalibratedDecidesWell ==
  ASSUME HoldoutKnown, NEW p \in Forecasts
  PROVE  LET items == {item \in DOMAIN holdout : holdout[item] = p}
             n == Cardinality(items)
             k == Cardinality(Positive(items))
         IN 100 * k = p * n =>
              /\ RealizedCost(items) <= n * AggressiveCost
              /\ RealizedCost(items) <= k * PassiveCost
<1> DEFINE items == {item \in DOMAIN holdout : holdout[item] = p}
           n == Cardinality(items)
           k == Cardinality(Positive(items))
           f == [item \in items |-> realized(item)]
<1> SUFFICES ASSUME 100 * k = p * n
             PROVE  RealizedCost(items) <= n * AggressiveCost
                      /\ RealizedCost(items) <= k * PassiveCost
  OBVIOUS
<1>1. /\ AggressiveCost \in Nat /\ PassiveCost \in Nat /\ p \in 0 .. 100
  BY ForecastAssumption DEF load_temporal_model_config, ForecastNumbers
<1>2. IsFiniteSet(items) /\ IsFiniteSet(Positive(items)) /\ n \in Nat /\ k \in Nat
      /\ Positive(items) \in SUBSET items
  <2>1. IsFiniteSet(items)
    BY HoldoutFinite, FS_Subset
  <2>2. Positive(items) \in SUBSET items
    BY DEF Positive
  <2> QED BY <2>1, <2>2, FS_Subset, FS_CardinalityType
<1>3. RealizedCost(items) = SumFunctionOnSet(f, items)
  BY DEF RealizedCost
<1>4. \A item \in items : holdout[item] = p
  OBVIOUS
<1>5. \A item \in Positive(items) : Target(Endpoint(item), horizon)
  BY DEF Positive
<1>6. \A item \in items \ Positive(items) : ~Target(Endpoint(item), horizon)
  BY DEF Positive
<1>7. \A item \in items : f[item] = realized(item)
  OBVIOUS
<1> HIDE DEF items, n, k, f
<1>8. 100 * (k * PassiveCost) = (p * PassiveCost) * n
  <2>1. 100 * (k * PassiveCost) = (100 * k) * PassiveCost
    BY <1>1, <1>2
  <2>2. (p * n) * PassiveCost = (p * PassiveCost) * n
    BY <1>1, <1>2
  <2> QED BY <2>1, <2>2
<1>9. 100 * (n * AggressiveCost) = (100 * AggressiveCost) * n
  BY <1>1, <1>2
<1>10. CASE p * PassiveCost >= 100 * AggressiveCost
  <2>1. \A item \in items : f[item] = AggressiveCost
    BY <1>4, <1>7, <1>10 DEF realized
  <2>2. SumFunctionOnSet(f, items) = AggressiveCost * n
    <3>1. \A x \in items \ items : f[x] = 0
      OBVIOUS
    <3> QED BY <1>1, <1>2, <2>1, <3>1, SumOfTwoValues DEF n
  <2>3. AggressiveCost * n = n * AggressiveCost /\ AggressiveCost * n \in Nat
    BY <1>1, <1>2
  <2>4. n * AggressiveCost <= k * PassiveCost
    <3>1. (100 * AggressiveCost) * n <= (p * PassiveCost) * n
      <4> DEFINE a == 100 * AggressiveCost
                 b == p * PassiveCost
      <4>1. a \in Nat /\ b \in Nat /\ a <= b
        BY <1>1, <1>10
      <4> HIDE DEF a, b
      <4>2. (b - a) * n \in Nat /\ (b - a) * n = b * n - a * n /\ a * n \in Nat /\ b * n \in Nat
        BY <1>2, <4>1
      <4>3. a * n <= b * n
        BY <4>2
      <4> QED BY <4>3 DEF a, b
    <3>2. 100 * (n * AggressiveCost) <= 100 * (k * PassiveCost)
      BY <1>8, <1>9, <3>1
    <3>3. n * AggressiveCost \in Nat /\ k * PassiveCost \in Nat
      BY <1>1, <1>2
    <3> QED BY <3>2, <3>3
  <2> QED BY <1>3, <2>2, <2>3, <2>4
<1>11. CASE ~ (p * PassiveCost >= 100 * AggressiveCost)
  <2>1. \A item \in Positive(items) : f[item] = PassiveCost
    BY <1>2, <1>4, <1>5, <1>7, <1>11 DEF realized
  <2>2. \A item \in items \ Positive(items) : f[item] = 0
    BY <1>4, <1>6, <1>7, <1>11 DEF realized
  <2>3. SumFunctionOnSet(f, items) = PassiveCost * k
    <3> DEFINE Q == Positive(items)
    <3>1. /\ IsFiniteSet(Q) /\ Q \in SUBSET items /\ k = Cardinality(Q)
          /\ \A item \in Q : f[item] = PassiveCost
          /\ \A item \in items \ Q : f[item] = 0
      BY <1>2, <2>1, <2>2 DEF k
    <3>2. PassiveCost \in Int
      BY <1>1
    <3> HIDE DEF Q
    <3> QED BY <1>2, <3>1, <3>2, SumOfTwoValues
  <2>4. PassiveCost * k = k * PassiveCost /\ k * PassiveCost \in Nat
    BY <1>1, <1>2
  <2>5. k * PassiveCost <= n * AggressiveCost
    <3>1. (p * PassiveCost) * n <= (100 * AggressiveCost) * n
      <4> DEFINE a == 100 * AggressiveCost
                 b == p * PassiveCost
      <4>1. a \in Nat /\ b \in Nat /\ b <= a
        BY <1>1, <1>11
      <4> HIDE DEF a, b
      <4>2. (a - b) * n \in Nat /\ (a - b) * n = a * n - b * n /\ a * n \in Nat /\ b * n \in Nat
        BY <1>2, <4>1
      <4>3. b * n <= a * n
        BY <4>2
      <4> QED BY <4>3 DEF a, b
    <3>2. 100 * (k * PassiveCost) <= 100 * (n * AggressiveCost)
      BY <1>8, <1>9, <3>1
    <3>3. n * AggressiveCost \in Nat /\ k * PassiveCost \in Nat
      BY <1>1, <1>2
    <3> QED BY <3>2, <3>3
  <2> QED BY <1>3, <2>3, <2>4, <2>5
<1> QED BY <1>10, <1>11

\* The report of a model counts every forecast of the holdout in one bin, one half
\* and one slice of every kind, its recall never rises with the threshold, and its
\* decision proxy lies between the oracle and, for a forecast that is the frequency,
\* either constant decision (prediction/simple_models.py, temporal_models.py).
THEOREM ReportAlwaysSound == Spec => []ReportSound
<1>1. ASSUME ForecastInv PROVE ReportSound
  <2>1. CASE fixture = "written"
    <3>1. HoldoutKnown
      BY <1>1, <2>1, ForecastAssumption DEF ForecastInv, HoldoutKnown, ForecastNumbers
    <3>2. ReportAddsUp
      BY <3>1, EveryForecastOnce, CountsMonotone DEF ReportAddsUp
    <3>3. ProxyDecidesWell
      BY <3>1, OracleIsBest, CalibratedDecidesWell DEF ProxyDecidesWell
    <3> QED BY <3>2, <3>3 DEF ReportSound
  <2>2. CASE fixture # "written"
    BY <2>2 DEF ReportSound, ReportAddsUp, ProxyDecidesWell
  <2> QED BY <2>1, <2>2
<1> QED BY <1>1, ForecastAlways, PTL

-----------------------------------------------------------------------------
(***************************************************************************)
(* What the robustness study concludes.                                    *)
(***************************************************************************)

InferenceInv ==
  /\ step28 \in {"episodes", "ranked", "contrasts", "rankings"}
  /\ step28 = "ranked" => means \in [DOMAIN Cases -> [Fixed \cup Trained -> CostValues]]
  /\ contrasts \in Seq(PValues)
  /\ step28 \in {"contrasts", "rankings"} => block \in MinBlock .. MaxBlock
  /\ resample # NoResample =>
       /\ step28 = "rankings"
       /\ resample.comparator \in [Episodes -> CostValues]
       /\ resample.challenger \in [Episodes -> CostValues]
       /\ resample.starts \in StartsOf(block)

\* The least of a set of integers.
LEMMA MinOf ==
  ASSUME NEW S \in SUBSET Nat, S # {}
  PROVE  Min(S) \in S /\ \A y \in S : Min(S) <= y
<1>1. \E x \in S : \A y \in S : x <= y
  BY LeastNatural
<1> QED BY <1>1, Zenon DEF Min

LEMMA StatisticsConfigured ==
  /\ MaxBlock \in 2 .. 7 /\ MinBlock \in 2 .. MaxBlock /\ Alpha \in 1 .. 499
  /\ EpisodeCount \in Nat /\ EpisodeCount >= MaxBlock + 2
  /\ CostValues \subseteq Int /\ PValues \subseteq 0 .. 1000
  /\ IsFiniteSet(DOMAIN Cases) /\ Central \in DOMAIN Cases
  /\ IsFiniteSet(Trained)
BY StressAssumption DEF validate_config, validate_statistics_config, StressNumbers

\* However much autocorrelation there is, a block has an admitted length.
LEMMA BlockAdmitted ==
  ASSUME NEW quiet \in SUBSET (1 .. MaxBlock + 1)
  PROVE  select_block_length(quiet) \in MinBlock .. MaxBlock
<1> DEFINE calm == {lag \in 1 .. MaxBlock : lag \in quiet /\ lag + 1 \in quiet}
           selected == IF calm = {} THEN MaxBlock ELSE Min(calm)
<1>1. MaxBlock \in 2 .. 7 /\ MinBlock \in 2 .. MaxBlock
  BY StatisticsConfigured
<1>2. selected \in 1 .. MaxBlock
  <2>1. calm \in SUBSET Nat /\ calm \subseteq 1 .. MaxBlock
    BY <1>1
  <2> HIDE DEF calm
  <2>2. CASE calm = {}
    BY <1>1, <2>2
  <2>3. CASE calm # {}
    BY <2>1, <2>3, MinOf
  <2> QED BY <2>2, <2>3
<1>3. select_block_length(quiet) = Max({MinBlock, selected})
  BY DEF select_block_length
<1> HIDE DEF selected
<1>4. CASE selected <= MinBlock
  <2>1. Max({MinBlock, selected}) = MinBlock
    BY <1>1, <1>2, <1>4, MaxOf
  <2> QED BY <1>1, <1>3, <2>1
<1>5. CASE selected > MinBlock
  <2>1. Max({MinBlock, selected}) = selected
    BY <1>1, <1>2, <1>5, MaxOf
  <2> QED BY <1>1, <1>2, <1>3, <1>5, <2>1
<1> QED BY <1>1, <1>2, <1>4, <1>5

LEMMA InferenceKeeps ==
  ASSUME InferenceInv, [StressNext]_stressVars
  PROVE  InferenceInv'
<1>1. ASSUME UNCHANGED <<step28, means, contrasts, block, resample>> PROVE InferenceInv'
  BY <1>1 DEF InferenceInv, Episodes, StartsOf, Blocks
<1>2. CASE BeginStress
  BY <1>1, <1>2 DEF BeginStress
<1>3. CASE DecideStressed
  BY <1>1, <1>3 DEF DecideStressed
<1>4. CASE EndStressed
  BY <1>1, <1>4 DEF EndStressed
<1>5. CASE RankPolicies
  <2>1. step28 = "episodes" /\ step28' = "ranked" /\ UNCHANGED <<contrasts, block, resample>>
        /\ means' \in [DOMAIN Cases -> [Fixed \cup Trained -> CostValues]]
    BY <1>5 DEF RankPolicies
  <2>2. resample = NoResample
    BY <2>1 DEF InferenceInv
  <2> QED BY <2>1, <2>2 DEF InferenceInv
<1>6. CASE SelectBlock
  <2>1. step28 = "ranked" /\ step28' = "contrasts" /\ UNCHANGED <<contrasts, resample>>
        /\ block' \in MinBlock .. MaxBlock
    BY <1>6, BlockAdmitted DEF SelectBlock
  <2>2. resample = NoResample
    BY <2>1 DEF InferenceInv
  <2> QED BY <2>1, <2>2 DEF InferenceInv
<1>7. CASE Contrast
  <2>1. step28 = "contrasts" /\ UNCHANGED <<step28, block, resample>>
        /\ \E p \in PValues : contrasts' = Append(contrasts, p)
    BY <1>7 DEF Contrast
  <2>2. resample = NoResample
    BY <2>1 DEF InferenceInv
  <2>3. contrasts' \in Seq(PValues)
    BY <2>1 DEF InferenceInv
  <2> QED BY <2>1, <2>2, <2>3 DEF InferenceInv
<1>8. CASE AdjustFamilies
  <2>1. step28 = "contrasts" /\ step28' = "rankings" /\ UNCHANGED <<block, resample>>
        /\ contrasts' = << >>
    BY <1>8 DEF AdjustFamilies
  <2>2. resample = NoResample
    BY <2>1 DEF InferenceInv
  <2>3. contrasts' \in Seq(PValues)
    BY <2>1
  <2> QED BY <2>1, <2>2, <2>3 DEF InferenceInv
<1>9. CASE Resample
  <2>1. step28 = "rankings" /\ UNCHANGED <<step28, contrasts, block>>
    BY <1>9 DEF Resample
  <2>2. PICK comparator \in [Episodes -> CostValues], challenger \in [Episodes -> CostValues],
             starts \in StartsOf(block) :
          resample' = [comparator |-> comparator, challenger |-> challenger, starts |-> starts]
    BY <1>9 DEF Resample
  <2>3. /\ resample'.comparator \in [Episodes -> CostValues]
        /\ resample'.challenger \in [Episodes -> CostValues]
        /\ resample'.starts \in StartsOf(block)
    BY <2>2
  <2>4. StartsOf(block)' = StartsOf(block)
    BY <2>1 DEF StartsOf, Blocks, Episodes
  <2> QED BY <2>1, <2>3, <2>4 DEF InferenceInv, Episodes
<1>10. CASE UNCHANGED stressVars
  BY <1>1, <1>10 DEF stressVars
<1> QED BY <1>2, <1>3, <1>4, <1>5, <1>6, <1>7, <1>8, <1>9, <1>10 DEF StressNext

LEMMA InferenceAlways == Spec => []InferenceInv
<1>1. Init => InferenceInv
  BY DEF Init, StressInit, InferenceInv
<1>2. InferenceInv /\ [Next]_vars => InferenceInv'
  <2>1. [Next]_vars => [StressNext]_stressVars
    BY DEF Next, vars, Predict, Forecast, Reinforce, Imitate, Stress, Measure
  <2> QED BY <2>1, InferenceKeeps
<1> QED BY <1>1, <1>2, PTL DEF Spec

(* Holm's adjustment. *)

\* A finite set of integers has a greatest member.
LEMMA MaxIn ==
  ASSUME NEW S \in SUBSET Int, IsFiniteSet(S), S # {}
  PROVE  Max(S) \in S /\ \A y \in S : Max(S) >= y
<1> DEFINE R == {ab \in Int \X Int : ab[1] > ab[2]}
<1>1. \A a, b \in S : <<a, b>> \in R <=> a > b
  OBVIOUS
<1> HIDE DEF R
<1>2. PICK x \in S : \A y \in S \ {x} : <<x, y>> \in R
  <2>1. \A a, b \in S : a # b => <<a, b>> \in R \/ <<b, a>> \in R
    BY <1>1
  <2>2. \A a, b, c \in S : <<a, b>> \in R /\ <<b, c>> \in R => <<a, c>> \in R
    BY <1>1
  <2> QED BY <2>1, <2>2, FirstOfOrder
<1>3. \A y \in S : x >= y
  <2> TAKE y \in S
  <2>1. x \in Int /\ y \in Int
    OBVIOUS
  <2>2. CASE y = x
    BY <2>1, <2>2
  <2>3. CASE y # x
    <3>1. y \in S \ {x}
      BY <2>3
    <3>2. <<x, y>> \in R
      BY <1>2, <3>1
    <3>3. x > y
      BY <1>1, <3>2
    <3> QED BY <2>1, <3>3
  <2> QED BY <2>2, <2>3
<1>4. Max(S) = x
  BY <1>3, MaxOf
<1> QED BY <1>3, <1>4

LEMMA LesserOfTwo ==
  ASSUME NEW a \in Int, NEW b \in Int
  PROVE  Min({a, b}) = IF a <= b THEN a ELSE b
<1>1. \E x \in {a, b} : \A y \in {a, b} : x <= y
  OBVIOUS
<1>2. Min({a, b}) \in {a, b} /\ \A y \in {a, b} : Min({a, b}) <= y
  BY <1>1, Zenon DEF Min
<1> QED BY <1>2

\* There is one contrast of every case and challenger.
LEMMA ContrastsListed ==
  /\ Len(ContrastOrder) \in Nat /\ DOMAIN ContrastOrder = 1 .. Len(ContrastOrder)
<1>1. IsFiniteSet(DOMAIN Cases)
  BY StatisticsConfigured
<1>2. Cardinality(DOMAIN Cases) \in Nat
      /\ ExistsBijection(1 .. Cardinality(DOMAIN Cases), DOMAIN Cases)
  BY <1>1, FS_CardinalityType
<1>3. PICK f : f \in Bijection(1 .. Cardinality(DOMAIN Cases), DOMAIN Cases)
  BY <1>2 DEF ExistsBijection
<1>4. f \in [1 .. Cardinality(DOMAIN Cases) -> DOMAIN Cases] /\ IsInjective(f)
  BY <1>3 DEF Bijection, Injection, IsInjective
<1>5. CaseOrder \in [1 .. Cardinality(DOMAIN Cases) -> DOMAIN Cases]
  <2>1. \E g \in [1 .. Cardinality(DOMAIN Cases) -> DOMAIN Cases] : IsInjective(g)
    BY <1>4
  <2> QED BY <2>1, Zenon DEF CaseOrder, SetToSeq
<1>6. Len(CaseOrder) \in Nat /\ Len(ChallengerOrder) = 3
  BY <1>2, <1>5 DEF ChallengerOrder
<1>7. Len(CaseOrder) * Len(ChallengerOrder) \in Nat
  BY <1>6
<1> QED BY <1>7 DEF ContrastOrder

\* Step-down: an adjusted p-value is the greatest candidate of those before it.
LEMMA AdjustedRejects ==
  ASSUME NEW raw, IsFiniteSet(DOMAIN raw), \A j \in DOMAIN raw : raw[j] \in Nat,
         NEW k \in DOMAIN raw
  PROVE  holm_adjust(raw)[k] < Alpha
           <=> \A j \in DOMAIN raw :
                 Rank(raw, j) <= Rank(raw, k) =>
                   (Cardinality(DOMAIN raw) - Rank(raw, j)) * raw[j] < Alpha
<1> DEFINE m == Cardinality(DOMAIN raw)
           share(j) == (m - Rank(raw, j)) * raw[j]
           candidate == [j \in DOMAIN raw |-> Min({1000, share(j)})]
           before == {i \in DOMAIN raw : Rank(raw, i) <= Rank(raw, k)}
           values == {candidate[j] : j \in before}
<1>1. \A j \in DOMAIN raw : Rank(raw, j) \in Nat
  <2> TAKE j \in DOMAIN raw
  <2>1. {i \in DOMAIN raw : raw[i] < raw[j] \/ (raw[i] = raw[j] /\ i < j)} \in SUBSET DOMAIN raw
    OBVIOUS
  <2> QED BY <2>1, FS_Subset, FS_CardinalityType DEF Rank
<1>2. m \in Nat
  BY FS_CardinalityType
<1>3. \A j \in DOMAIN raw : share(j) \in Int
  BY <1>1, <1>2
<1>4. Alpha \in 1 .. 499
  BY StatisticsConfigured
<1>5. \A j \in DOMAIN raw : candidate[j] \in Int /\ (candidate[j] < Alpha <=> share(j) < Alpha)
  <2> TAKE j \in DOMAIN raw
  <2>1. candidate[j] = Min({1000, share(j)})
    OBVIOUS
  <2>2. share(j) \in Int
    BY <1>3
  <2> HIDE DEF candidate, share
  <2>3. Min({1000, share(j)}) = IF 1000 <= share(j) THEN 1000 ELSE share(j)
    BY <2>2, LesserOfTwo
  <2> QED BY <1>4, <2>1, <2>2, <2>3
<1>6. holm_adjust(raw)[k] = Max(values)
  <2>1. values = {Min({1000, (Cardinality(DOMAIN raw) - Rank(raw, j)) * raw[j]}) :
                    j \in {i \in DOMAIN raw : Rank(raw, i) <= Rank(raw, k)}}
    OBVIOUS
  <2> QED BY <2>1, Zenon DEF holm_adjust
<1>7. k \in before
  BY <1>1
<1>8. before \in SUBSET DOMAIN raw
  OBVIOUS
<1>9. (\A j \in before : share(j) < Alpha) <=>
        \A j \in DOMAIN raw : Rank(raw, j) <= Rank(raw, k) => share(j) < Alpha
  OBVIOUS
<1> HIDE DEF candidate, before
<1>10. values \in SUBSET Int /\ values # {}
  BY <1>5, <1>7, <1>8
<1>11. IsFiniteSet(values)
  BY <1>8, FS_Subset, ImageFinite
<1>12. Max(values) \in values /\ \A y \in values : Max(values) >= y
  BY <1>10, <1>11, MaxIn
<1>13. Max(values) < Alpha <=> \A j \in before : candidate[j] < Alpha
  <2> HIDE DEF values
  <2>1. \A j \in before : candidate[j] \in values
    BY DEF values
  <2>2. \A y \in values : \E j \in before : y = candidate[j]
    BY DEF values
  <2>3. Alpha \in Int /\ \A y \in values : y \in Int
    BY <1>4, <1>10
  <2> QED BY <1>12, <2>1, <2>2, <2>3
<1>14. Max(values) < Alpha <=> \A j \in before : share(j) < Alpha
  <2> HIDE DEF values, share
  <2> QED BY <1>5, <1>8, <1>13
<1> QED BY <1>6, <1>9, <1>14

LEMMA HolmSteps ==
  ASSUME InferenceInv
  PROVE  HolmStepDown
<1> SUFFICES ASSUME step28 = "contrasts", Len(contrasts) = Len(ContrastOrder),
                    NEW f \in HolmFamilies, NEW k \in DOMAIN RawOf(f)
             PROVE  holm_adjust(RawOf(f))[k] < Alpha
                      <=> \A j \in DOMAIN RawOf(f) :
                            Rank(RawOf(f), j) <= Rank(RawOf(f), k) =>
                              (Cardinality(DOMAIN RawOf(f)) - Rank(RawOf(f), j)) * RawOf(f)[j] < Alpha
  BY DEF HolmStepDown
<1>1. Len(ContrastOrder) \in Nat /\ DOMAIN ContrastOrder = 1 .. Len(ContrastOrder)
  BY ContrastsListed
<1>2. contrasts \in Seq(PValues) /\ PValues \subseteq 0 .. 1000
  BY StatisticsConfigured DEF InferenceInv
<1>3. DOMAIN RawOf(f) = Family(f) /\ Family(f) \in SUBSET (1 .. Len(ContrastOrder))
  BY <1>1 DEF RawOf, Family
<1>4. IsFiniteSet(DOMAIN RawOf(f))
  <2>1. IsFiniteSet(1 .. Len(ContrastOrder))
    BY <1>1, FS_Interval
  <2> QED BY <1>3, <2>1, FS_Subset
<1>5. \A j \in DOMAIN RawOf(f) : RawOf(f)[j] \in Nat
  <2> TAKE j \in DOMAIN RawOf(f)
  <2>1. RawOf(f)[j] = contrasts[j]
    BY <1>3 DEF RawOf
  <2>2. j \in 1 .. Len(contrasts)
    BY <1>3
  <2>3. contrasts[j] \in PValues
    BY <1>2, <2>2
  <2>4. \A p \in PValues : p \in Nat
    BY <1>2
  <2> QED BY <2>1, <2>3, <2>4
<1> QED BY <1>4, <1>5, AdjustedRejects

(* The resamples. *)

\* The place of an episode in a resample is one of a block that has a start.
LEMMA BlockOfPlace ==
  ASSUME NEW length \in 2 .. 7, NEW k \in 1 .. EpisodeCount
  PROVE  /\ ((k - 1) \div length) + 1 \in 1 .. Blocks(length)
         /\ (k - 1) % length \in 0 .. length - 1
<1>1. EpisodeCount \in Nat
  BY StatisticsConfigured
<1>2. CASE length = 2
  BY <1>1, <1>2 DEF Blocks
<1>3. CASE length = 3
  BY <1>1, <1>3 DEF Blocks
<1>4. CASE length = 4
  BY <1>1, <1>4 DEF Blocks
<1>5. CASE length = 5
  BY <1>1, <1>5 DEF Blocks
<1>6. CASE length = 6
  BY <1>1, <1>6 DEF Blocks
<1>7. CASE length = 7
  BY <1>1, <1>7 DEF Blocks
<1> QED BY <1>2, <1>3, <1>4, <1>5, <1>6, <1>7

\* A remainder of less than twice the divisor.
LEMMA WithinTwice ==
  ASSUME NEW n \in Nat \ {0}, NEW x \in Nat, x < 2 * n
  PROVE  x % n = IF x < n THEN x ELSE x - n
<1>1. CASE x < n
  BY <1>1
<1>2. CASE x >= n
  <2>1. x \div n \in Int /\ x % n \in 0 .. n - 1 /\ x = n * (x \div n) + (x % n)
    OBVIOUS
  <2> DEFINE q == x \div n
             r == x % n
  <2>2. q \in Int /\ r \in 0 .. n - 1 /\ x = n * q + r
    BY <2>1
  <2> HIDE DEF q, r
  <2>3. q = 1
    <3>1. ASSUME q <= 0 PROVE FALSE
      <4>1. n * (0 - q) \in Nat /\ n * (0 - q) = 0 - n * q
        BY <2>2, <3>1
      <4> QED BY <1>2, <2>2, <4>1
    <3>2. ASSUME q >= 2 PROVE FALSE
      <4>1. n * (q - 2) \in Nat /\ n * (q - 2) = n * q - 2 * n
        BY <2>2, <3>2
      <4> QED BY <2>2, <4>1
    <3> QED BY <2>2, <3>1, <3>2
  <2>4. n * 1 = n
    OBVIOUS
  <2>5. r = x - n
    BY <2>2, <2>3, <2>4
  <2> QED BY <1>2, <2>5 DEF r
<1> QED BY <1>1, <1>2

\* A place shows the start of its block, so many episodes on, and wraps around.
LEMMA EpisodeAtPlace ==
  ASSUME NEW length \in MinBlock .. MaxBlock, NEW starts \in StartsOf(length),
         NEW k \in 1 .. EpisodeCount
  PROVE  LET x == starts[((k - 1) \div length) + 1] + ((k - 1) % length)
         IN /\ moving_block_indices(starts, length)[k] = IF x < EpisodeCount THEN x ELSE x - EpisodeCount
            /\ moving_block_indices(starts, length)[k] \in Episodes
<1> DEFINE b == ((k - 1) \div length) + 1
           o == (k - 1) % length
           x == starts[b] + o
<1>1. /\ EpisodeCount \in Nat /\ MaxBlock \in 2 .. 7 /\ MinBlock \in 2 .. MaxBlock
      /\ EpisodeCount >= MaxBlock + 2
  BY StatisticsConfigured
<1>2. length \in 2 .. 7 /\ length <= MaxBlock
  BY <1>1
<1>3. b \in 1 .. Blocks(length) /\ o \in 0 .. length - 1
  BY <1>2, BlockOfPlace
<1>4. moving_block_indices(starts, length)[k] = x % EpisodeCount
  BY DEF moving_block_indices
<1>5. starts[b] \in 0 .. EpisodeCount - 1
  BY <1>3 DEF StartsOf, Episodes
<1> HIDE DEF b, o
<1>6. x \in Nat /\ x < 2 * EpisodeCount
  BY <1>1, <1>2, <1>3, <1>5
<1>7. x % EpisodeCount = IF x < EpisodeCount THEN x ELSE x - EpisodeCount
  <2>1. EpisodeCount \in Nat \ {0}
    BY <1>1
  <2> HIDE DEF x
  <2> QED BY <1>6, <2>1, WithinTwice
<1>8. (IF x < EpisodeCount THEN x ELSE x - EpisodeCount) \in Episodes
  BY <1>1, <1>6 DEF Episodes
<1> QED BY <1>4, <1>7, <1>8 DEF b, o

\* There are finitely many sequences of starts.
LEMMA FiniteStarts ==
  ASSUME NEW E, IsFiniteSet(E), NEW n \in Nat
  PROVE  IsFiniteSet([1 .. n -> E])
<1> DEFINE Good == {m \in Nat : IsFiniteSet([1 .. m -> E])}
<1>1. 0 \in Good
  <2>1. [1 .. 0 -> E] = {[x \in {} |-> 0]}
    <3>1. 1 .. 0 = {}
      OBVIOUS
    <3> QED BY <3>1
  <2> DEFINE none == [x \in {} |-> 0]
             F == [1 .. 0 -> E]
  <2> HIDE DEF none, F
  <2>2. F = {none}
    BY <2>1 DEF none, F
  <2>3. IsFiniteSet(F)
    BY <2>2, FS_Singleton
  <2> QED BY <2>3 DEF F
<1>2. ASSUME NEW m \in Nat, m \in Good PROVE m + 1 \in Good
  <2> DEFINE P == [1 .. m -> E] \X E
             T == [1 .. m + 1 -> E]
             g == [se \in P |-> [k \in 1 .. m + 1 |-> IF k = m + 1 THEN se[2] ELSE se[1][k]]]
  <2>1. IsFiniteSet(P)
    BY <1>2, FS_Product
  <2>2. g \in [P -> T]
    <3> SUFFICES ASSUME NEW se \in P, NEW k \in 1 .. m + 1
                 PROVE  (IF k = m + 1 THEN se[2] ELSE se[1][k]) \in E
      OBVIOUS
    <3>1. k # m + 1 => k \in 1 .. m
      OBVIOUS
    <3> QED BY <3>1
  <2>3. ASSUME NEW t \in T PROVE \E se \in P : g[se] = t
    <3> DEFINE se == <<[k \in 1 .. m |-> t[k]], t[m + 1]>>
    <3>1. m + 1 \in 1 .. m + 1 /\ 1 .. m \subseteq 1 .. m + 1
      OBVIOUS
    <3>2. se \in P
      BY <3>1
    <3>3. \A k \in 1 .. m + 1 : k # m + 1 => k \in 1 .. m
      OBVIOUS
    <3>4. g[se] = [k \in 1 .. m + 1 |-> t[k]]
      BY <3>2, <3>3
    <3>5. g[se] = t
      BY <3>4
    <3> HIDE DEF g, P, se
    <3> QED BY <3>2, <3>5
  <2> HIDE DEF P, T, g
  <2>4. g \in Surjection(P, T)
    BY <2>2, <2>3 DEF Surjection
  <2>5. IsFiniteSet(T)
    BY <2>1, <2>4, FS_Surjection
  <2> QED BY <2>5 DEF T
<1>3. Nat \subseteq Good
  <2> HIDE DEF Good
  <2> QED BY <1>1, <1>2, NaturalInduction
<1> QED BY <1>3

\* Exactly the resamples whose block starts that much before an episode show
\* it at a place, and there are as many of them as of any other episode.
LEMMA BlocksUniform ==
  ASSUME NEW length \in MinBlock .. MaxBlock
  PROVE  UniformBlocks(length)
<1> SUFFICES ASSUME NEW k \in 1 .. EpisodeCount, NEW i \in Episodes, NEW j \in Episodes
             PROVE  Cardinality({s \in StartsOf(length) : moving_block_indices(s, length)[k] = i})
                      = Cardinality({s \in StartsOf(length) : moving_block_indices(s, length)[k] = j})
  BY DEF UniformBlocks
<1> DEFINE b == ((k - 1) \div length) + 1
           o == (k - 1) % length
           StartFor(e) == IF e >= o THEN e - o ELSE e - o + EpisodeCount
           Showing(e) == {s \in StartsOf(length) : moving_block_indices(s, length)[k] = e}
           g == [s \in Showing(i) |-> [s EXCEPT ![b] = StartFor(j)]]
<1>1. /\ EpisodeCount \in Nat /\ MaxBlock \in 2 .. 7 /\ MinBlock \in 2 .. MaxBlock
      /\ EpisodeCount >= MaxBlock + 2 /\ length \in 2 .. 7 /\ length <= MaxBlock
  BY StatisticsConfigured
<1>2. b \in 1 .. Blocks(length) /\ o \in 0 .. length - 1
  BY <1>1, BlockOfPlace
<1>3. \A s \in StartsOf(length) :
        LET x == s[b] + o
        IN moving_block_indices(s, length)[k] = IF x < EpisodeCount THEN x ELSE x - EpisodeCount
  BY EpisodeAtPlace
<1> HIDE DEF b, o
<1>4. StartsOf(length) = [1 .. Blocks(length) -> Episodes]
  BY DEF StartsOf
<1>5. \A e \in Episodes : StartFor(e) \in Episodes
  BY <1>1, <1>2 DEF Episodes
<1>6. ASSUME NEW e \in Episodes, NEW s \in StartsOf(length)
      PROVE  s \in Showing(e) <=> s[b] = StartFor(e)
  <2>1. s[b] \in Episodes
    BY <1>2, <1>4
  <2>2. moving_block_indices(s, length)[k]
          = IF s[b] + o < EpisodeCount THEN s[b] + o ELSE (s[b] + o) - EpisodeCount
    BY <1>3
  <2>3. (IF s[b] + o < EpisodeCount THEN s[b] + o ELSE (s[b] + o) - EpisodeCount) = e
          <=> s[b] = StartFor(e)
    BY <1>1, <1>2, <2>1 DEF Episodes
  <2> QED BY <2>2, <2>3
<1>7. \A e \in Episodes : Showing(e) \in SUBSET StartsOf(length)
  OBVIOUS
<1> HIDE DEF StartFor, Showing
<1>8. IsFiniteSet(Showing(i)) 
  <2>1. IsFiniteSet(Episodes)
    <3>1. 0 \in Int /\ EpisodeCount - 1 \in Int
      BY <1>1
    <3> QED BY <3>1, FS_Interval DEF Episodes
  <2>2. Blocks(length) \in Nat
    <3>1. (EpisodeCount + length - 1) \in Nat /\ length \in Nat \ {0}
      BY <1>1
    <3> DEFINE y == EpisodeCount + length - 1
    <3> HIDE DEF y
    <3>2. y \in Nat /\ length \in Nat \ {0} => y \div length \in Nat
      OBVIOUS
    <3> QED BY <3>1, <3>2 DEF Blocks, y
  <2>3. IsFiniteSet(StartsOf(length))
    BY <1>4, <2>1, <2>2, FiniteStarts
  <2> QED BY <1>7, <2>3, FS_Subset
<1>9. ASSUME NEW e \in Episodes, NEW d \in Episodes, NEW s \in Showing(e)
      PROVE  /\ [s EXCEPT ![b] = StartFor(d)] \in Showing(d)
             /\ [[s EXCEPT ![b] = StartFor(d)] EXCEPT ![b] = StartFor(e)] = s
  <2>1. s \in StartsOf(length) /\ s \in [1 .. Blocks(length) -> Episodes]
    BY <1>4, <1>7
  <2>2. s[b] = StartFor(e)
    BY <1>6, <2>1
  <2>3. [s EXCEPT ![b] = StartFor(d)] \in [1 .. Blocks(length) -> Episodes]
        /\ [s EXCEPT ![b] = StartFor(d)][b] = StartFor(d)
    BY <1>2, <1>5, <2>1
  <2>4. [s EXCEPT ![b] = StartFor(d)] \in Showing(d)
    BY <1>4, <1>6, <2>3
  <2>5. [[s EXCEPT ![b] = StartFor(d)] EXCEPT ![b] = StartFor(e)] = s
    BY <1>2, <2>1, <2>2
  <2> QED BY <2>4, <2>5
<1>10. g \in [Showing(i) -> Showing(j)]
  BY <1>9
<1>11. \A s, t \in Showing(i) : g[s] = g[t] => s = t
  <2> TAKE s, t \in Showing(i)
  <2>1. g[s] = [s EXCEPT ![b] = StartFor(j)] /\ g[t] = [t EXCEPT ![b] = StartFor(j)]
    OBVIOUS
  <2>2. [[s EXCEPT ![b] = StartFor(j)] EXCEPT ![b] = StartFor(i)] = s
        /\ [[t EXCEPT ![b] = StartFor(j)] EXCEPT ![b] = StartFor(i)] = t
    BY <1>9
  <2> HIDE DEF g
  <2> QED BY <2>1, <2>2
<1>12. \A t \in Showing(j) : \E s \in Showing(i) : g[s] = t
  <2> TAKE t \in Showing(j)
  <2>1. [t EXCEPT ![b] = StartFor(i)] \in Showing(i)
        /\ [[t EXCEPT ![b] = StartFor(i)] EXCEPT ![b] = StartFor(j)] = t
    BY <1>9
  <2>2. g[[t EXCEPT ![b] = StartFor(i)]] = t
    BY <2>1
  <2> HIDE DEF g
  <2> QED BY <2>1, <2>2
<1>13. ExistsBijection(Showing(i), Showing(j))
  <2> HIDE DEF g
  <2>1. g \in Bijection(Showing(i), Showing(j))
    BY <1>10, <1>11, <1>12 DEF Bijection, Injection, Surjection, IsInjective
  <2> QED BY <2>1 DEF ExistsBijection
<1> QED BY <1>8, <1>13, FS_Bijection DEF Showing

\* Policies are resampled at the same places.
LEMMA ResampledTogether ==
  ASSUME InferenceInv
  PROVE  DominatedNeverWins
<1> SUFFICES ASSUME resample # NoResample,
                    \A e \in Episodes : resample.challenger[e] >= resample.comparator[e]
             PROVE  BootCost("comparator") <= BootCost("challenger")
  BY DEF DominatedNeverWins, Winner
<1> DEFINE at == moving_block_indices(resample.starts, block)
           f == [k \in 1 .. EpisodeCount |-> resample["comparator"][at[k]]]
           h == [k \in 1 .. EpisodeCount |-> resample["challenger"][at[k]]]
<1>1. /\ block \in MinBlock .. MaxBlock /\ resample.starts \in StartsOf(block)
      /\ resample.comparator \in [Episodes -> CostValues]
      /\ resample.challenger \in [Episodes -> CostValues]
  BY DEF InferenceInv
<1>2. CostValues \subseteq Int /\ EpisodeCount \in Nat
  BY StatisticsConfigured
<1>3. \A k \in 1 .. EpisodeCount : at[k] \in Episodes
  BY <1>1, EpisodeAtPlace
<1>4. IsFiniteSet(1 .. EpisodeCount)
  BY <1>2, FS_Interval
<1> HIDE DEF at
<1>5. \A k \in 1 .. EpisodeCount : f[k] \in Int /\ h[k] \in Int /\ f[k] <= h[k]
  <2> TAKE k \in 1 .. EpisodeCount
  <2>1. f[k] = resample.comparator[at[k]] /\ h[k] = resample.challenger[at[k]]
    OBVIOUS
  <2>2. resample.comparator[at[k]] \in CostValues /\ resample.challenger[at[k]] \in CostValues
        /\ resample.challenger[at[k]] >= resample.comparator[at[k]]
    BY <1>1, <1>3
  <2> HIDE DEF f, h
  <2>3. f[k] \in Int /\ h[k] \in Int
    BY <1>2, <2>1, <2>2
  <2>4. h[k] >= f[k]
    BY <2>1, <2>2
  <2> QED BY <2>3, <2>4
<1> HIDE DEF f, h
<1>6. SumFunctionOnSet(f, 1 .. EpisodeCount) <= SumFunctionOnSet(h, 1 .. EpisodeCount)
  BY <1>4, <1>5, SumOfSmaller
<1> QED BY <1>6 DEF BootCost, f, h, at

(* The rankings. *)

\* Members counted by what they are of add up.
LEMMA CountsAddUp ==
  ASSUME NEW S, IsFiniteSet(S), NEW R, IsFiniteSet(R), NEW f, \A s \in S : f[s] \in R
  PROVE  SumFunctionOnSet([r \in R |-> Cardinality({s \in S : f[s] = r})], R) = Cardinality(S)
<1> DEFINE Of(T, r) == {s \in T : f[s] = r}
           c(T) == [r \in R |-> Cardinality(Of(T, r))]
           Bad == {T \in SUBSET S : SumFunctionOnSet(c(T), R) # Cardinality(T)}
<1> SUFFICES ASSUME Bad # {} PROVE FALSE
  OBVIOUS
<1>1. \A T \in Bad : IsFiniteSet(T)
  BY FS_Subset
<1> HIDE DEF Bad
<1>2. PICK T \in Bad : \A x \in T : T \ {x} \notin Bad
  BY <1>1, MinimalSet
<1>3. T \in SUBSET S /\ SumFunctionOnSet(c(T), R) # Cardinality(T) /\ IsFiniteSet(T)
  BY <1>1, <1>2 DEF Bad
<1>4. T # {}
  <2> SUFFICES ASSUME T = {} PROVE FALSE
    OBVIOUS
  <2>1. \A r \in R : c(T)[r] = 0
    <3> TAKE r \in R
    <3>1. Of(T, r) = {}
      OBVIOUS
    <3> QED BY <3>1, FS_EmptySet
  <2>2. SumFunctionOnSet(c(T), R) = 0
    <3> HIDE DEF c
    <3> QED BY <2>1, SumOfZeros
  <2> HIDE DEF c
  <2> QED BY <1>3, <2>2, FS_EmptySet
<1>5. PICK x : x \in T
  BY <1>4
<1> DEFINE U == T \ {x}
<1>6. U \in SUBSET S /\ IsFiniteSet(U) /\ Cardinality(U) \in Nat /\ Cardinality(T) = Cardinality(U) + 1
  <2>1. IsFiniteSet(U) /\ Cardinality(U) = Cardinality(T) - 1
    BY <1>3, <1>5, FS_RemoveElement
  <2>2. Cardinality(T) \in Nat /\ Cardinality(U) \in Nat
    BY <1>3, <2>1, FS_CardinalityType
  <2> QED BY <1>3, <2>1, <2>2
<1>7. SumFunctionOnSet(c(U), R) = Cardinality(U)
  BY <1>2, <1>5, <1>6 DEF Bad
<1>8. \A r \in R : IsFiniteSet(Of(T, r)) /\ IsFiniteSet(Of(U, r))
                   /\ c(T)[r] \in Int /\ c(U)[r] \in Int
  <2> TAKE r \in R
  <2>1. IsFiniteSet(Of(T, r)) /\ IsFiniteSet(Of(U, r))
    BY <1>3, <1>6, FS_Subset
  <2> HIDE DEF Of
  <2>2. Cardinality(Of(T, r)) \in Nat /\ Cardinality(Of(U, r)) \in Nat
    BY <2>1, FS_CardinalityType
  <2> QED BY <2>1, <2>2
<1>9. f[x] \in R
  BY <1>3, <1>5
<1>10. \A r \in R \ {f[x]} : c(U)[r] = c(T)[r]
  <2> TAKE r \in R \ {f[x]}
  <2>1. Of(U, r) = Of(T, r)
    BY <1>5
  <2> HIDE DEF Of
  <2> QED BY <2>1
<1>11. c(T)[f[x]] = c(U)[f[x]] + 1
  <2>1. Of(T, f[x]) = Of(U, f[x]) \cup {x} /\ x \notin Of(U, f[x])
    BY <1>5
  <2>2. IsFiniteSet(Of(U, f[x]))
    BY <1>8, <1>9
  <2> HIDE DEF Of
  <2>3. Cardinality(Of(T, f[x])) = Cardinality(Of(U, f[x])) + 1
    BY <2>1, <2>2, FS_AddElement
  <2> QED BY <1>9, <2>3
<1> HIDE DEF c
<1>12. SumFunctionOnSet(c(T), R) = SumFunctionOnSet(c(U), R) - c(U)[f[x]] + c(T)[f[x]]
  <2> DEFINE cT == c(T)
             cU == c(U)
             y == f[x]
  <2>1. /\ \A r \in R : cU[r] \in Int /\ cT[r] \in Int
        /\ y \in R /\ \A r \in R \ {y} : cU[r] = cT[r]
    BY <1>8, <1>9, <1>10
  <2> HIDE DEF cT, cU, y
  <2>2. SumFunctionOnSet(cT, R) = SumFunctionOnSet(cU, R) - cU[y] + cT[y]
    BY <2>1, SumOfUpdate
  <2> QED BY <2>2 DEF cT, cU, y
<1>13. c(U)[f[x]] \in Int
  BY <1>8, <1>9
<1> QED BY <1>3, <1>6, <1>7, <1>11, <1>12, <1>13

LEMMA RankedFinite == IsFiniteSet(Ranked) /\ Cardinality(Ranked) \in Nat \ {0}
<1>1. Ranked = (({"immediate"} \cup {"twap"}) \cup {"liquidity"}) \cup {"ppo_aggregate"}
  BY DEF Ranked, Fixed
<1>2. IsFiniteSet(Ranked)
  BY <1>1, FS_Singleton, FS_Union
<1>3. Ranked # {}
  BY DEF Ranked
<1> QED BY <1>2, <1>3, FS_CardinalityType, FS_EmptySet

\* What a ranking is made from.
RankedSound == means \in [DOMAIN Cases -> [Fixed \cup Trained -> CostValues]]

LEMMA CostsAreNumbers ==
  ASSUME RankedSound, NEW case \in DOMAIN Cases, NEW p \in Ranked
  PROVE  FamilyCost(case, p) \in Int
<1>1. IsFiniteSet(Trained) /\ CostValues \subseteq Int
  BY StatisticsConfigured
<1>2. \A q \in Fixed \cup Trained : means[case][q] \in Int
  <2> TAKE q \in Fixed \cup Trained
  <2>1. means[case] \in [Fixed \cup Trained -> CostValues]
    BY DEF RankedSound
  <2>2. means[case][q] \in CostValues
    BY <2>1
  <2> QED BY <1>1, <2>2
<1>3. CASE p = "ppo_aggregate"
  <2>1. \A t \in Trained : means[case][t] \in Int
    BY <1>2
  <2>2. SumFunctionOnSet(means[case], Trained) \in Int
    BY <1>1, <2>1, SumIsInt
  <2> QED BY <1>3, <2>2 DEF FamilyCost
<1>4. CASE p # "ppo_aggregate"
  <2>1. means[case][p] \in Int
    BY <1>2, <1>4 DEF Ranked
  <2>2. Seeds28 \in Int
    BY <1>1, FS_CardinalityType DEF Seeds28
  <2> QED BY <1>4, <2>1, <2>2 DEF FamilyCost
<1> QED BY <1>3, <1>4

LEMMA PlacesDiffer ==
  ASSUME NEW p \in Ranked
  PROVE  PlaceOf(p) \in 1 .. 4 /\ PolicyOrder[PlaceOf(p)] = p
<1>1. DOMAIN PolicyOrder = 1 .. 4
  BY DEF PolicyOrder
<1>2. \E k \in DOMAIN PolicyOrder : PolicyOrder[k] = p
  BY <1>1 DEF PolicyOrder, Ranked, Fixed
<1> QED BY <1>1, <1>2, Zenon DEF PlaceOf

\* The policy of a place in a ranking has that many ahead of it.
LEMMA RankingFilled ==
  ASSUME RankedSound, NEW case \in DOMAIN Cases, NEW k \in 1 .. Cardinality(Ranked)
  PROVE  /\ Ranking(case)[k] \in Ranked
         /\ Cardinality({q \in Ranked : Ahead(case, q, Ranking(case)[k])}) = k - 1
<1> DEFINE R == {pq \in Ranked \X Ranked : Ahead(case, pq[1], pq[2])}
<1>1. \A p, q \in Ranked : <<p, q>> \in R <=> Ahead(case, p, q)
  OBVIOUS
<1>2. \A p \in Ranked : FamilyCost(case, p) \in Int /\ PlaceOf(p) \in Int
  BY CostsAreNumbers, PlacesDiffer
<1>3. \A p, q \in Ranked : PlaceOf(p) = PlaceOf(q) => p = q
  BY PlacesDiffer
<1>4. IsFiniteSet(Ranked) /\ Cardinality(Ranked) \in Nat
  BY RankedFinite
<1> HIDE DEF R
<1>5. \A p \in Ranked : <<p, p>> \notin R
  BY <1>1, <1>2 DEF Ahead
<1>6. \A p, q \in Ranked : p # q => <<p, q>> \in R \/ <<q, p>> \in R
  BY <1>1, <1>2, <1>3 DEF Ahead
<1>7. \A p, q, t \in Ranked : <<p, q>> \in R /\ <<q, t>> \in R => <<p, t>> \in R
  BY <1>1, <1>2 DEF Ahead
<1>8. k - 1 \in 0 .. Cardinality(Ranked) - 1
  BY <1>4
<1>9. PICK p \in Ranked : Cardinality({q \in Ranked : <<q, p>> \in R}) = k - 1
  <2> DEFINE n == k - 1
             S == Ranked
  <2>1. n \in 0 .. Cardinality(S) - 1 /\ IsFiniteSet(S)
    BY <1>4, <1>8
  <2>2. /\ \A p \in S : <<p, p>> \notin R
        /\ \A p, q \in S : p # q => <<p, q>> \in R \/ <<q, p>> \in R
        /\ \A p, q, t \in S : <<p, q>> \in R /\ <<q, t>> \in R => <<p, t>> \in R
    BY <1>5, <1>6, <1>7
  <2> HIDE DEF n, S
  <2>3. \E p \in S : Cardinality({q \in S : <<q, p>> \in R}) = n
    BY <2>1, <2>2, EveryRank
  <2> QED BY <2>3 DEF n, S
<1>10. {q \in Ranked : <<q, p>> \in R} = {q \in Ranked : Ahead(case, q, p)}
  BY <1>1
<1>11. \E t \in Ranked : Cardinality({q \in Ranked : Ahead(case, q, t)}) = k - 1
  BY <1>9, <1>10
<1>12. Ranking(case)[k] = CHOOSE t \in Ranked : Cardinality({q \in Ranked : Ahead(case, q, t)}) = k - 1
  BY DEF Ranking
<1> QED BY <1>11, <1>12, Zenon

\* A ranking is by cost.
LEMMA RankedByCost ==
  ASSUME RankedSound, NEW case \in DOMAIN Cases, NEW k \in 2 .. Cardinality(Ranked)
  PROVE  FamilyCost(case, Ranking(case)[k - 1]) <= FamilyCost(case, Ranking(case)[k])
<1> DEFINE p == Ranking(case)[k - 1]
           q == Ranking(case)[k]
           Before(t) == {x \in Ranked : Ahead(case, x, t)}
<1>1. IsFiniteSet(Ranked) /\ Cardinality(Ranked) \in Nat
  BY RankedFinite
<1>2. k - 1 \in 1 .. Cardinality(Ranked) /\ k \in 1 .. Cardinality(Ranked) /\ k \in Int
  BY <1>1
<1>3. p \in Ranked /\ q \in Ranked
      /\ Cardinality(Before(p)) = (k - 1) - 1 /\ Cardinality(Before(q)) = k - 1
  BY <1>2, RankingFilled
<1>4. \A t \in Ranked : FamilyCost(case, t) \in Int /\ PlaceOf(t) \in Int
  BY CostsAreNumbers, PlacesDiffer
<1> HIDE DEF p, q
<1> SUFFICES ASSUME ~(FamilyCost(case, p) <= FamilyCost(case, q)) PROVE FALSE
  BY DEF p, q
<1>5. \A x \in Before(q) : x \in Before(p)
  BY <1>3, <1>4 DEF Ahead
<1>6. Before(q) \in SUBSET Before(p) /\ Before(p) \in SUBSET Ranked
  BY <1>5
<1> HIDE DEF Before
<1>7. Cardinality(Before(q)) <= Cardinality(Before(p))
  BY <1>1, <1>6, FS_Subset
<1> QED BY <1>2, <1>3, <1>7

LEMMA RankingsSummarized ==
  ASSUME InferenceInv
  PROVE  RankingsAddUp
<1> SUFFICES ASSUME step28 = "ranked"
             PROVE  /\ SumFunctionOnSet([p \in Ranked |-> WinCount(p)], Ranked) = Cardinality(DOMAIN Cases)
                    /\ Switches \subseteq DOMAIN Cases \ {Central}
                    /\ \A p \in Ranked : WorstDelta(p) >= 0
                    /\ \A case \in DOMAIN Cases, k \in 2 .. Cardinality(Ranked) :
                         FamilyCost(case, Ranking(case)[k - 1]) <= FamilyCost(case, Ranking(case)[k])
  BY DEF RankingsAddUp
<1>1. RankedSound
  BY DEF InferenceInv, RankedSound
<1>2. IsFiniteSet(DOMAIN Cases) /\ Central \in DOMAIN Cases
  BY StatisticsConfigured
<1>3. IsFiniteSet(Ranked) /\ Cardinality(Ranked) \in Nat \ {0}
  BY RankedFinite
<1>4. SumFunctionOnSet([p \in Ranked |-> WinCount(p)], Ranked) = Cardinality(DOMAIN Cases)
  <2> DEFINE first == [case \in DOMAIN Cases |-> Ranking(case)[1]]
  <2>1. \A case \in DOMAIN Cases : first[case] \in Ranked
    <3>1. 1 \in 1 .. Cardinality(Ranked)
      BY <1>3
    <3> QED BY <1>1, <3>1, RankingFilled
  <2>2. \A p \in Ranked : {case \in DOMAIN Cases : first[case] = p}
                            = {case \in DOMAIN Cases : Ranking(case)[1] = p}
    OBVIOUS
  <2> HIDE DEF first
  <2>3. SumFunctionOnSet([p \in Ranked |-> Cardinality({case \in DOMAIN Cases : first[case] = p})],
                         Ranked) = Cardinality(DOMAIN Cases)
    BY <1>2, <1>3, <2>1, CountsAddUp
  <2>4. [p \in Ranked |-> Cardinality({case \in DOMAIN Cases : first[case] = p})]
          = [p \in Ranked |-> WinCount(p)]
    BY <2>2 DEF WinCount
  <2> QED BY <2>3, <2>4
<1>5. Switches \subseteq DOMAIN Cases \ {Central}
  BY DEF Switches
<1>6. ASSUME NEW p \in Ranked PROVE WorstDelta(p) >= 0
  <2> DEFINE delta == [case \in DOMAIN Cases |-> FamilyCost(case, p) - FamilyCost(Central, p)]
             deltas == {delta[case] : case \in DOMAIN Cases}
  <2>1. \A case \in DOMAIN Cases : delta[case] \in Int
    BY <1>1, <1>2, CostsAreNumbers
  <2>2. delta[Central] = 0
    <3>1. FamilyCost(Central, p) \in Int
      BY <1>1, <1>2, CostsAreNumbers
    <3> QED BY <1>2, <3>1
  <2>3. WorstDelta(p) = Max(deltas)
    <3>1. deltas = {FamilyCost(case, p) - FamilyCost(Central, p) : case \in DOMAIN Cases}
      OBVIOUS
    <3> QED BY <3>1, Zenon DEF WorstDelta
  <2> HIDE DEF delta
  <2>4. deltas \in SUBSET Int /\ 0 \in deltas /\ IsFiniteSet(deltas)
    BY <1>2, <2>1, <2>2, ImageFinite
  <2> HIDE DEF deltas
  <2>5. Max(deltas) \in deltas /\ \A y \in deltas : Max(deltas) >= y
    BY <2>4, MaxIn
  <2> QED BY <2>3, <2>4, <2>5
<1>7. \A case \in DOMAIN Cases, k \in 2 .. Cardinality(Ranked) :
        FamilyCost(case, Ranking(case)[k - 1]) <= FamilyCost(case, Ranking(case)[k])
  BY <1>1, RankedByCost
<1> QED BY <1>4, <1>5, <1>6, <1>7

\* What the study concludes is consistent: the rankings' summary adds up, an
\* adjusted p-value is below the level exactly when Holm's step-down test of its
\* family rejects, a resample shows every episode equally often, and no policy wins
\* one that is nowhere cheaper (robustness/matrix.py, statistics/inference.py).
THEOREM InferenceAlwaysSound == Spec => []InferenceSound
<1>1. ASSUME InferenceInv PROVE InferenceSound
  <2>1. BootstrapUniform
    <3> SUFFICES ASSUME step28 = "contrasts" PROVE UniformBlocks(block)
      BY DEF BootstrapUniform
    <3>1. block \in MinBlock .. MaxBlock
      BY <1>1 DEF InferenceInv
    <3> QED BY <3>1, BlocksUniform
  <2> QED BY <1>1, <2>1, RankingsSummarized, HolmSteps, ResampledTogether DEF InferenceSound
<1> QED BY <1>1, InferenceAlways, PTL

-----------------------------------------------------------------------------
(***************************************************************************)
(* Prediction data: the book along a stream.                               *)
(***************************************************************************)

Levels == PassiveSides \X Prices
Books == [Levels -> Nat]

\* What the source can send.
IsEvent(e) ==
  /\ e.kind \in {"snapshot", "depth", "trade"}
  /\ e.time \in Nat /\ e.available \in Nat
  /\ e.kind = "snapshot" => e.book \in Books
  /\ e.kind = "depth" => DOMAIN e.levels \subseteq Levels /\ e.levels \in [DOMAIN e.levels -> Nat]
  /\ e.kind = "trade" => e.price \in Nat /\ e.lots \in Nat /\ e.maker \in BOOLEAN

IsStream(events) ==
  /\ Len(events) \in Nat /\ DOMAIN events = 1 .. Len(events)
  /\ \A k \in 1 .. Len(events) : IsEvent(events[k])

\* The equation of the books of some events, up to one of them.
BookRecursion(after, events, n) ==
  after = [k \in 0 .. n |-> IF k = 0 THEN EmptyBook ELSE apply_event(events[k], after[k - 1])]

\* There are such books.
LEMMA BooksExist ==
  ASSUME NEW events, NEW n \in Nat
  PROVE  \E after : BookRecursion(after, events, n)
<1> DEFINE Good == {m \in Nat : \E f : BookRecursion(f, events, m)}
<1>1. 0 \in Good
  <2>1. BookRecursion([k \in 0 .. 0 |-> EmptyBook], events, 0)
    BY DEF BookRecursion
  <2> QED BY <2>1
<1>2. \A m \in Nat : m \in Good => m + 1 \in Good
  <2> SUFFICES ASSUME NEW m \in Nat, m \in Good PROVE m + 1 \in Good
    OBVIOUS
  <2>1. PICK f : BookRecursion(f, events, m)
    OBVIOUS
  <2>2. PICK g : g = [k \in 0 .. m + 1 |->
                        IF k = m + 1 THEN apply_event(events[k], f[k - 1]) ELSE f[k]]
    OBVIOUS
  <2>3. \A k \in 0 .. m : f[k] = IF k = 0 THEN EmptyBook ELSE apply_event(events[k], f[k - 1])
    BY <2>1, Zenon DEF BookRecursion
  <2>4. \A k \in 0 .. m : g[k] = f[k]
    BY <2>2
  <2>5. g[m + 1] = apply_event(events[m + 1], f[m])
    BY <2>2
  <2>6. \A k \in 0 .. m + 1 :
          g[k] = IF k = 0 THEN EmptyBook ELSE apply_event(events[k], g[k - 1])
    <3> TAKE k \in 0 .. m + 1
    <3>1. CASE k = m + 1
      <4>1. k - 1 = m /\ m \in 0 .. m /\ k # 0
        BY <3>1
      <4>2. g[k - 1] = f[m] /\ g[k] = apply_event(events[k], f[m])
        BY <2>4, <2>5, <3>1, <4>1
      <4> QED BY <4>1, <4>2
    <3>2. CASE k = 0
      <4>1. 0 \in 0 .. m
        OBVIOUS
      <4> QED BY <2>3, <2>4, <3>2, <4>1
    <3>3. CASE k # 0 /\ k # m + 1
      <4>1. k \in 0 .. m /\ k - 1 \in 0 .. m
        BY <3>3
      <4>2. g[k] = f[k] /\ g[k - 1] = f[k - 1]
        BY <2>4, <4>1
      <4>3. f[k] = apply_event(events[k], f[k - 1])
        BY <2>3, <3>3, <4>1
      <4> QED BY <3>3, <4>2, <4>3
    <3> QED BY <3>1, <3>2, <3>3
  <2>7. g = [k \in 0 .. m + 1 |-> g[k]]
    BY <2>2
  <2>8. BookRecursion(g, events, m + 1)
    BY <2>6, <2>7 DEF BookRecursion
  <2> QED BY <2>8
<1> HIDE DEF Good
<1>3. Nat \subseteq Good
  BY <1>1, <1>2, NaturalInduction
<1> QED BY <1>3 DEF Good

\* Each event changes the book that the one before has left.
LEMMA BooksStep ==
  ASSUME NEW events, Len(events) \in Nat
  PROVE  /\ BooksOf(events)[0] = EmptyBook
         /\ \A k \in 1 .. Len(events) :
              BooksOf(events)[k] = apply_event(events[k], BooksOf(events)[k - 1])
<1> DEFINE n == Len(events)
<1>1. PICK after : after = CHOOSE f : BookRecursion(f, events, n)
  OBVIOUS
<1>2. BooksOf(events) = after
  BY <1>1, Zenon DEF BooksOf, BookRecursion
<1>3. \E f : BookRecursion(f, events, n)
  BY BooksExist
<1>4. BookRecursion(after, events, n)
  BY <1>1, <1>3, Zenon
<1>5. \A k \in 0 .. n : after[k] = IF k = 0 THEN EmptyBook ELSE apply_event(events[k], after[k - 1])
  BY <1>4, Zenon DEF BookRecursion
<1>6. 0 \in 0 .. n /\ \A k \in 1 .. n : k \in 0 .. n /\ k # 0
  OBVIOUS
<1>7. after[0] = EmptyBook
  BY <1>5, <1>6
<1>8. \A k \in 1 .. n : after[k] = apply_event(events[k], after[k - 1])
  BY <1>5, <1>6
<1> QED BY <1>2, <1>7, <1>8

\* What an event does to a book leaves a book.
LEMMA ApplyKeepsBooks ==
  ASSUME NEW e, IsEvent(e), NEW book \in Books
  PROVE  apply_event(e, book) \in Books
<1>1. CASE e.kind = "snapshot"
  <2>1. apply_event(e, book) = e.book
    BY <1>1 DEF apply_event
  <2> QED BY <1>1, <2>1 DEF IsEvent
<1>2. CASE e.kind = "depth"
  <2>1. apply_event(e, book) = [level \in DOMAIN book |->
                                 IF level \in DOMAIN e.levels THEN e.levels[level] ELSE book[level]]
    BY <1>2 DEF apply_event
  <2>2. \A level \in DOMAIN e.levels : e.levels[level] \in Nat
    BY <1>2 DEF IsEvent
  <2>3. DOMAIN book = Levels /\ \A level \in Levels : book[level] \in Nat
    BY DEF Books
  <2> QED BY <2>1, <2>2, <2>3 DEF Books
<1>3. CASE e.kind = "trade"
  <2>1. apply_event(e, book) = book
    BY <1>3 DEF apply_event
  <2> QED BY <2>1
<1> QED BY <1>1, <1>2, <1>3 DEF IsEvent

LEMMA BooksType ==
  ASSUME NEW events, IsStream(events)
  PROVE  \A k \in 0 .. Len(events) : BooksOf(events)[k] \in Books
<1>1. Len(events) \in Nat
  BY DEF IsStream
<1>2. PICK b : b = BooksOf(events)
  OBVIOUS
<1>3. b[0] = EmptyBook /\ \A k \in 1 .. Len(events) : b[k] = apply_event(events[k], b[k - 1])
  BY <1>1, <1>2, BooksStep
<1> DEFINE Good == {k \in Nat : k <= Len(events) => b[k] \in Books}
<1>4. 0 \in Good
  <2>1. EmptyBook \in Books
    BY DEF EmptyBook, Books, Levels
  <2> QED BY <1>3, <2>1
<1>5. \A k \in Nat : k \in Good => k + 1 \in Good
  <2> SUFFICES ASSUME NEW k \in Nat, k \in Good, k + 1 <= Len(events) PROVE b[k + 1] \in Books
    OBVIOUS
  <2>1. k + 1 \in 1 .. Len(events) /\ (k + 1) - 1 = k /\ k <= Len(events)
    BY <1>1
  <2>2. b[k + 1] = apply_event(events[k + 1], b[k]) /\ b[k] \in Books /\ IsEvent(events[k + 1])
    BY <1>3, <2>1 DEF IsStream
  <2> QED BY <2>2, ApplyKeepsBooks
<1> HIDE DEF Good
<1>6. Nat \subseteq Good
  BY <1>4, <1>5, NaturalInduction
<1> QED BY <1>1, <1>2, <1>6 DEF Good

\* After place i, p is what q is d places later; from i on, its books are.
SameEvents(p, q, i, d) == \A k \in i + 1 .. Len(p) : p[k] = q[k + d]
SameBooks(p, q, i, d) == \A k \in i .. Len(p) : BooksOf(p)[k] = BooksOf(q)[k + d]

\* Streams that agree from some place on have the same books from there.
LEMMA BooksAgree ==
  ASSUME NEW p, NEW q, Len(p) \in Nat, Len(q) \in Nat, NEW i \in Nat, NEW d \in Nat,
         i <= Len(p), Len(p) + d <= Len(q), SameEvents(p, q, i, d),
         BooksOf(p)[i] = BooksOf(q)[i + d]
  PROVE  SameBooks(p, q, i, d)
<1>1. PICK b : b = BooksOf(p)
  OBVIOUS
<1>2. PICK c : c = BooksOf(q)
  OBVIOUS
<1>3. \A k \in 1 .. Len(p) : b[k] = apply_event(p[k], b[k - 1])
  BY <1>1, BooksStep
<1>4. \A k \in 1 .. Len(q) : c[k] = apply_event(q[k], c[k - 1])
  BY <1>2, BooksStep
<1> DEFINE Good == {m \in Nat : i + m <= Len(p) => b[i + m] = c[i + m + d]}
<1>5. 0 \in Good
  BY <1>1, <1>2
<1>6. \A m \in Nat : m \in Good => m + 1 \in Good
  <2> SUFFICES ASSUME NEW m \in Nat, m \in Good, i + (m + 1) <= Len(p)
               PROVE  b[i + (m + 1)] = c[i + (m + 1) + d]
    OBVIOUS
  <2>1. PICK k : k = i + (m + 1)
    OBVIOUS
  <2>2. /\ k \in 1 .. Len(p) /\ k \in i + 1 .. Len(p) /\ k + d \in 1 .. Len(q)
        /\ k - 1 = i + m /\ (k + d) - 1 = i + m + d /\ i + m <= Len(p)
    BY <2>1
  <2>3. b[k] = apply_event(p[k], b[k - 1]) /\ c[k + d] = apply_event(q[k + d], c[(k + d) - 1])
    BY <1>3, <1>4, <2>2
  <2>4. b[k - 1] = c[(k + d) - 1] /\ p[k] = q[k + d]
    BY <2>2 DEF SameEvents
  <2>5. b[k] = c[k + d]
    BY <2>3, <2>4
  <2> QED BY <2>1, <2>5
<1> HIDE DEF Good
<1>7. Nat \subseteq Good
  BY <1>5, <1>6, NaturalInduction
<1>8. \A k \in i .. Len(p) : b[k] = c[k + d]
  <2> TAKE k \in i .. Len(p)
  <2>1. PICK m \in Nat : m = k - i
    OBVIOUS
  <2>2. i + m = k /\ i + m <= Len(p)
    BY <2>1
  <2>3. b[i + m] = c[i + m + d]
    BY <1>7, <2>2 DEF Good
  <2> QED BY <2>2, <2>3
<1> QED BY <1>1, <1>2, <1>8 DEF SameBooks

-----------------------------------------------------------------------------
(***************************************************************************)
(* What is kept of a stream in order is a first part of it.                *)
(***************************************************************************)

LEMMA PlacesBefore ==
  ASSUME NEW m \in Nat
  PROVE  /\ IsFiniteSet(1 .. m) /\ Cardinality(1 .. m) = m
         /\ \A k \in 1 .. m : Cardinality({j \in 1 .. m : j < k}) = k - 1
<1>1. \A n \in Nat : IsFiniteSet(1 .. n) /\ Cardinality(1 .. n) = n
  <2> TAKE n \in Nat
  <2>1. 1 \in Int /\ n \in Int
    OBVIOUS
  <2>2. IsFiniteSet(1 .. n) /\ Cardinality(1 .. n) = IF 1 > n THEN 0 ELSE n - 1 + 1
    BY <2>1, FS_Interval
  <2> QED BY <2>2
<1>2. ASSUME NEW k \in 1 .. m
      PROVE  Cardinality({j \in 1 .. m : j < k}) = k - 1
  <2>1. {j \in 1 .. m : j < k} = 1 .. k - 1 /\ k - 1 \in Nat
    OBVIOUS
  <2>2. PICK n \in Nat : n = k - 1
    BY <2>1
  <2>3. Cardinality(1 .. n) = n
    BY <1>1
  <2> QED BY <2>1, <2>2, <2>3
<1> QED BY <1>1, <1>2

LEMMA KeptPrefix ==
  ASSUME NEW events, NEW m \in Nat
  PROVE  /\ Kept(events, 1 .. m) = [k \in 1 .. m |-> events[k]]
         /\ Len(Kept(events, 1 .. m)) = m
<1>1. Cardinality(1 .. m) = m
  BY PlacesBefore
<1>2. \A k \in 1 .. m : (CHOOSE j \in 1 .. m : Cardinality({i \in 1 .. m : i < j}) = k - 1) = k
  <2> TAKE k \in 1 .. m
  <2> DEFINE RankIn(j) == Cardinality({i \in 1 .. m : i < j})
  <2>1. \A j \in 1 .. m : RankIn(j) = j - 1
    BY PlacesBefore
  <2> HIDE DEF RankIn
  <2>2. \A j \in 1 .. m : RankIn(j) = k - 1 <=> j = k
    BY <2>1
  <2>3. (CHOOSE j \in 1 .. m : RankIn(j) = k - 1) = k
    BY <2>2, Zenon
  <2> QED BY <2>3 DEF RankIn
<1>3. Kept(events, 1 .. m) =
        [k \in 1 .. m |-> events[CHOOSE j \in 1 .. m : Cardinality({i \in 1 .. m : i < j}) = k - 1]]
  BY <1>1 DEF Kept
<1>4. Kept(events, 1 .. m) = [k \in 1 .. m |-> events[k]]
  BY <1>2, <1>3, Zenon
<1>5. PICK s : s = [k \in 1 .. m |-> events[k]]
  OBVIOUS
<1>6. s \in Seq({events[k] : k \in 1 .. m}) /\ Len(s) = m
  BY <1>5
<1> QED BY <1>4, <1>5, <1>6

\* Times that never decrease from one to the next never decrease at all.
LEMMA Monotone ==
  ASSUME NEW n \in Nat, NEW f, \A k \in 1 .. n : f[k] \in Nat,
         \A k \in 1 .. n - 1 : f[k] <= f[k + 1]
  PROVE  \A i, j \in 1 .. n : i <= j => f[i] <= f[j]
<1> SUFFICES ASSUME NEW i \in 1 .. n PROVE \A j \in 1 .. n : i <= j => f[i] <= f[j]
  OBVIOUS
<1> DEFINE Good == {m \in Nat : i + m <= n => f[i] <= f[i + m]}
<1>1. 0 \in Good
  OBVIOUS
<1>2. \A m \in Nat : m \in Good => m + 1 \in Good
  <2> SUFFICES ASSUME NEW m \in Nat, m \in Good, i + (m + 1) <= n
               PROVE  f[i] <= f[i + (m + 1)]
    OBVIOUS
  <2>1. PICK k : k = i + m
    OBVIOUS
  <2>2. k \in 1 .. n - 1 /\ k \in 1 .. n /\ k + 1 \in 1 .. n /\ i + (m + 1) = k + 1 /\ k <= n
    BY <2>1
  <2>3. f[i] <= f[k] /\ f[k] <= f[k + 1]
    BY <2>1, <2>2
  <2>4. f[i] \in Nat /\ f[k] \in Nat /\ f[k + 1] \in Nat
    BY <2>2
  <2>5. f[i] <= f[k + 1]
    BY <2>3, <2>4
  <2> QED BY <2>2, <2>5
<1> HIDE DEF Good
<1>3. Nat \subseteq Good
  BY <1>1, <1>2, NaturalInduction
<1>4. ASSUME NEW j \in 1 .. n, i <= j PROVE f[i] <= f[j]
  <2>1. PICK m \in Nat : m = j - i
    BY <1>4
  <2>2. i + m = j /\ i + m <= n
    BY <2>1
  <2>3. f[i] <= f[i + m]
    BY <1>3, <2>2 DEF Good
  <2> QED BY <2>2, <2>3
<1> QED BY <1>4

\* The places with a property that earlier places have too are the first ones.
LEMMA FirstPlaces ==
  ASSUME NEW n \in Nat, NEW S \in SUBSET (1 .. n),
         \A k \in S : \A j \in 1 .. n : j <= k => j \in S
  PROVE  \E m \in 0 .. n : S = 1 .. m /\ Cardinality(S) = m
<1>1. CASE S = {}
  <2>1. S = 1 .. 0
    BY <1>1
  <2> QED BY <2>1, PlacesBefore
<1>2. CASE S # {}
  <2>1. IsFiniteSet(1 .. n)
    BY PlacesBefore
  <2>2. IsFiniteSet(S)
    BY <2>1, FS_Subset
  <2>3. S \in SUBSET Int
    OBVIOUS
  <2>4. PICK m \in S : \A y \in S : m >= y
    BY <1>2, <2>2, <2>3, MaxIn
  <2>5. m \in 1 .. n /\ m \in 0 .. n
    OBVIOUS
  <2>6. S \subseteq 1 .. m
    <3> SUFFICES ASSUME NEW y \in S PROVE y \in 1 .. m
      OBVIOUS
    <3>1. y \in 1 .. n /\ m >= y
      BY <2>4
    <3> QED BY <2>5, <3>1
  <2>7. 1 .. m \subseteq S
    <3> SUFFICES ASSUME NEW y \in 1 .. m PROVE y \in S
      OBVIOUS
    <3>1. y \in 1 .. n /\ y <= m
      BY <2>5
    <3> QED BY <3>1
  <2>8. S = 1 .. m
    BY <2>6, <2>7
  <2>9. Cardinality(1 .. m) = m
    BY <2>5, PlacesBefore
  <2> QED BY <2>5, <2>8, <2>9
<1> QED BY <1>1, <1>2

-----------------------------------------------------------------------------
(***************************************************************************)
(* What a decision knows.                                                  *)
(***************************************************************************)

InOrder(events) ==
  /\ \A i, j \in 1 .. Len(events) : i <= j => events[i].time <= events[j].time
  /\ \A i, j \in 1 .. Len(events) : i <= j => events[i].available <= events[j].available

LEMMA AcceptedInOrder ==
  ASSUME NEW events, IsStream(events), Accepts(events)
  PROVE  InOrder(events)
<1> DEFINE n == Len(events)
<1>1. n \in Nat /\ \A k \in 1 .. n : events[k].time \in Nat /\ events[k].available \in Nat
  BY DEF IsStream, IsEvent
<1>2. \A k \in 1 .. n - 1 :
        events[k].time <= events[k + 1].time /\ events[k].available <= events[k + 1].available
  BY DEF Accepts
<1>3. PICK f : f = [k \in 1 .. n |-> events[k].time]
  OBVIOUS
<1>4. PICK g : g = [k \in 1 .. n |-> events[k].available]
  OBVIOUS
<1> HIDE DEF n
<1>5. \A k \in 1 .. n - 1 : k \in 1 .. n /\ k + 1 \in 1 .. n
  BY <1>1
<1>6. \A i, j \in 1 .. n : i <= j => f[i] <= f[j]
  <2>1. (\A k \in 1 .. n : f[k] \in Nat) /\ \A k \in 1 .. n - 1 : f[k] <= f[k + 1]
    BY <1>1, <1>2, <1>3, <1>5
  <2> QED BY <1>1, <2>1, Monotone
<1>7. \A i, j \in 1 .. n : i <= j => g[i] <= g[j]
  <2>1. (\A k \in 1 .. n : g[k] \in Nat) /\ \A k \in 1 .. n - 1 : g[k] <= g[k + 1]
    BY <1>1, <1>2, <1>4, <1>5
  <2> QED BY <1>1, <2>1, Monotone
<1> QED BY <1>3, <1>4, <1>6, <1>7 DEF InOrder, n

\* What is known or past is a first part of the stream, with its books.
IsBeginning(p, events, m) ==
  /\ m \in 0 .. Len(events) /\ Len(p) = m /\ IsStream(p) /\ p \in Seq({events[k] : k \in 1 .. m})
  /\ \A k \in 1 .. m : p[k] = events[k]
  /\ \A k \in 0 .. m : BooksOf(p)[k] = BooksOf(events)[k]

LEMMA PrefixOf ==
  ASSUME NEW events, IsStream(events), NEW m \in 0 .. Len(events)
  PROVE  IsBeginning(Kept(events, 1 .. m), events, m)
<1>1. m \in Nat /\ Len(events) \in Nat /\ m <= Len(events) /\ \A k \in 1 .. m : k \in 1 .. Len(events)
  BY DEF IsStream
<1>2. PICK p : p = Kept(events, 1 .. m)
  OBVIOUS
<1>3. p = [k \in 1 .. m |-> events[k]] /\ Len(p) = m
  BY <1>1, <1>2, KeptPrefix
<1>4. IsStream(p)
  BY <1>1, <1>3 DEF IsStream
<1>5. p \in Seq({events[k] : k \in 1 .. m})
  BY <1>1, <1>3
<1>6. BooksOf(p)[0] = BooksOf(events)[0]
  <2>1. BooksOf(p)[0] = EmptyBook
    BY <1>1, <1>3, BooksStep
  <2>2. BooksOf(events)[0] = EmptyBook
    BY <1>1, BooksStep
  <2> QED BY <2>1, <2>2
<1>7. \A k \in 0 .. m : BooksOf(p)[k] = BooksOf(events)[k]
  <2>1. PICK z \in Nat : z = 0
    OBVIOUS
  <2>2. \A k \in z + 1 .. Len(p) : p[k] = events[k + z]
    BY <1>1, <1>3, <2>1
  <2>3. z <= Len(p) /\ Len(p) + z <= Len(events) /\ Len(p) \in Nat /\ z + z = z
    BY <1>1, <1>3, <2>1
  <2>4. BooksOf(p)[z] = BooksOf(events)[z + z]
    BY <1>6, <2>1, <2>3
  <2>5. SameEvents(p, events, z, z)
    BY <2>2 DEF SameEvents
  <2>6. SameBooks(p, events, z, z)
    BY <1>1, <2>3, <2>4, <2>5, BooksAgree, Zenon
  <2> QED BY <1>1, <1>3, <2>1, <2>6 DEF SameBooks
<1> QED BY <1>1, <1>2, <1>3, <1>4, <1>5, <1>7 DEF IsBeginning

LEMMA Within == \A a, b \in Nat, c \in Int : a <= b /\ b <= c => a <= c
  OBVIOUS

LEMMA KnownFirst ==
  ASSUME NEW events, IsStream(events), InOrder(events), NEW point, point.time \in Int
  PROVE  \E n \in 0 .. Len(events) :
           /\ Known(events, point) = 1 .. n /\ Cardinality(Known(events, point)) = n
           /\ IsBeginning(Eligible(events, point), events, n)
<1>1. Len(events) \in Nat /\ DOMAIN events = 1 .. Len(events)
  BY DEF IsStream
<1>2. \A k \in 1 .. Len(events) : events[k].time \in Nat /\ events[k].available \in Nat
  BY DEF IsStream, IsEvent
<1>3. PICK c \in Int : c = Cutoff(point)
  BY PredictionAssumption DEF load_prediction_feature_config, Cutoff
<1>4. PICK t \in Int : t = point.time
  OBVIOUS
<1>5. PICK S : S = {k \in 1 .. Len(events) : events[k].time <= c /\ events[k].available <= t}
  OBVIOUS
<1>6. S \in SUBSET (1 .. Len(events)) /\ \A k \in S : \A j \in 1 .. Len(events) : j <= k => j \in S
  <2>1. ASSUME NEW k \in S, NEW j \in 1 .. Len(events), j <= k PROVE j \in S
    <3>1. k \in 1 .. Len(events) /\ events[k].time <= c /\ events[k].available <= t
      BY <1>5
    <3>2. events[j].time <= events[k].time /\ events[j].available <= events[k].available
      BY <2>1, <3>1 DEF InOrder
    <3>3. /\ events[j].time \in Nat /\ events[k].time \in Nat
          /\ events[j].available \in Nat /\ events[k].available \in Nat
      BY <1>2, <3>1
    <3>4. events[j].time <= c /\ events[j].available <= t
      BY <3>1, <3>2, <3>3, Within, Zenon
    <3> QED BY <1>5, <3>4
  <2> QED BY <1>5, <2>1
<1>7. PICK n \in 0 .. Len(events) : S = 1 .. n /\ Cardinality(S) = n
  BY <1>1, <1>6, FirstPlaces
<1>8. Known(events, point) = S
  BY <1>1, <1>3, <1>4, <1>5 DEF Known
<1>9. IsBeginning(Eligible(events, point), events, n)
  BY <1>7, <1>8, PrefixOf DEF Eligible
<1> QED BY <1>7, <1>8, <1>9

LEMMA PastFirst ==
  ASSUME NEW events, IsStream(events), InOrder(events), NEW t \in Int
  PROVE  \E n \in 0 .. Len(events) :
           /\ \A k \in 1 .. Len(events) : events[k].time <= t <=> k <= n
           /\ {k \in DOMAIN events : events[k].time <= t} = 1 .. n
           /\ IsBeginning(UpTo(events, t), events, n)
<1>1. Len(events) \in Nat /\ DOMAIN events = 1 .. Len(events)
  BY DEF IsStream
<1>2. \A k \in 1 .. Len(events) : events[k].time \in Nat
  BY DEF IsStream, IsEvent
<1>3. PICK S : S = {k \in DOMAIN events : events[k].time <= t}
  OBVIOUS
<1>4. S \in SUBSET (1 .. Len(events)) /\ \A k \in S : \A j \in 1 .. Len(events) : j <= k => j \in S
  <2>1. ASSUME NEW k \in S, NEW j \in 1 .. Len(events), j <= k PROVE j \in S
    <3>1. k \in 1 .. Len(events) /\ events[k].time <= t
      BY <1>1, <1>3
    <3>2. events[j].time <= events[k].time
      BY <2>1, <3>1 DEF InOrder
    <3>3. events[j].time <= t
      BY <1>2, <3>1, <3>2
    <3> QED BY <1>1, <1>3, <3>3
  <2> QED BY <1>1, <1>3, <2>1
<1>5. PICK n \in 0 .. Len(events) : S = 1 .. n /\ Cardinality(S) = n
  BY <1>1, <1>4, FirstPlaces
<1>6. \A k \in 1 .. Len(events) : events[k].time <= t <=> k <= n
  BY <1>1, <1>3, <1>5
<1>7. IsBeginning(UpTo(events, t), events, n)
  BY <1>3, <1>5, PrefixOf DEF UpTo
<1> QED BY <1>3, <1>5, <1>6, <1>7

\* Since its last snapshot, or from its start, a stream has the same books as
\* the whole of it.
LEMMA SinceLastSnapshot ==
  ASSUME NEW p, NEW n \in Nat, Len(p) = n, IsStream(p), NEW S, p \in Seq(S)
  PROVE  \E d \in 0 .. n :
           /\ n = 0 \/ d < n
           /\ Len(SinceSnapshot(p)) = n - d /\ IsStream(SinceSnapshot(p))
           /\ \A k \in 1 .. n - d :
                /\ SinceSnapshot(p)[k] = p[k + d]
                /\ BooksOf(SinceSnapshot(p))[k] = BooksOf(p)[k + d]
           /\ \A k \in 1 .. n : p[k].kind = "snapshot" => k <= d + 1 /\ p[d + 1].kind = "snapshot"
<1>1. DOMAIN p = 1 .. n
  BY DEF IsStream
<1>2. PICK starts : starts = {k \in 1 .. n : p[k].kind = "snapshot"}
  OBVIOUS
<1>3. PICK u : u = SinceSnapshot(p)
  OBVIOUS
<1>4. u = IF starts = {} THEN p ELSE SubSeq(p, Max(starts), n)
  BY <1>1, <1>2, <1>3 DEF SinceSnapshot
<1>5. CASE starts = {}
  <2>1. u = p
    BY <1>4, <1>5
  <2>2. PICK d \in 0 .. n : d = 0
    OBVIOUS
  <2>3. /\ n = 0 \/ d < n
        /\ Len(u) = n - d /\ IsStream(u)
        /\ \A k \in 1 .. n - d : k + d = k
    BY <2>1, <2>2
  <2>4. \A k \in 1 .. n : p[k].kind # "snapshot"
    BY <1>2, <1>5
  <2> QED BY <1>3, <2>1, <2>3, <2>4
<1>6. CASE starts # {}
  <2>1. IsFiniteSet(1 .. n)
    BY PlacesBefore
  <2>2. starts \in SUBSET (1 .. n)
    BY <1>2
  <2>3. IsFiniteSet(starts) /\ starts \in SUBSET Int
    <3>1. IsFiniteSet(starts)
      BY <2>1, <2>2, FS_Subset
    <3> QED BY <2>2, <3>1
  <2>4. PICK s : s = Max(starts)
    OBVIOUS
  <2>5. s \in starts /\ \A y \in starts : s >= y
    BY <1>6, <2>3, <2>4, MaxIn
  <2>6. s \in 1 .. n /\ p[s].kind = "snapshot"
    BY <1>2, <2>5
  <2>7. PICK d \in 0 .. n - 1 : d = s - 1
    BY <2>6
  <2>8. u = SubSeq(p, s, n)
    BY <1>4, <1>6, <2>4
  <2>9. /\ u \in Seq(S) /\ Len(u) = n - d /\ \A k \in 1 .. n - d : u[k] = p[k + d]
    <3>1. \A i \in s .. n : p[i] \in S
      BY <2>6
    <3>2. s \in Int /\ n \in Int /\ s <= n
      BY <2>6
    <3>3. /\ SubSeq(p, s, n) \in Seq(S)
          /\ Len(SubSeq(p, s, n)) = IF s <= n THEN n - s + 1 ELSE 0
          /\ \A i \in 1 .. n - s + 1 : SubSeq(p, s, n)[i] = p[s + i - 1]
      BY <3>1, <3>2, SubSeqProperties
    <3>4. n - s + 1 = n - d /\ \A k \in 1 .. n - d : s + k - 1 = k + d
      BY <2>6, <2>7
    <3> QED BY <2>8, <3>2, <3>3, <3>4
  <2>10. \A k \in 1 .. n - d : k + d \in 1 .. n
    BY <2>7
  <2>11. IsStream(u)
    <3>1. \A k \in 1 .. Len(u) : IsEvent(u[k])
      BY <2>9, <2>10 DEF IsStream
    <3>2. Len(u) \in Nat /\ DOMAIN u = 1 .. Len(u)
      BY <2>9
    <3> QED BY <3>1, <3>2 DEF IsStream
  <2>12. \A k \in 1 .. n - d : BooksOf(u)[k] = BooksOf(p)[k + d]
    <3>1. PICK i \in Nat : i = 1
      OBVIOUS
    <3>2. i <= Len(u) /\ Len(u) \in Nat /\ Len(u) + d <= Len(p) /\ d \in Nat /\ Len(p) \in Nat
      BY <2>7, <2>9, <3>1
    <3>3. \A k \in i + 1 .. Len(u) : u[k] = p[k + d]
      BY <2>7, <2>9, <3>1
    <3>4. BooksOf(u)[i] = BooksOf(p)[i + d]
      <4>1. 1 \in 1 .. Len(u) /\ s \in 1 .. Len(p) /\ u[1] = p[s] /\ i + d = s
        BY <2>6, <2>7, <2>9, <3>1
      <4>2. BooksOf(u)[1] = apply_event(p[s], BooksOf(u)[1 - 1])
        BY <3>2, <4>1, BooksStep
      <4>3. BooksOf(p)[s] = apply_event(p[s], BooksOf(p)[s - 1])
        BY <3>2, <4>1, BooksStep
      <4>4. \A book : apply_event(p[s], book) = p[s].book
        BY <2>6 DEF apply_event
      <4> QED BY <3>1, <4>1, <4>2, <4>3, <4>4
    <3>5. SameEvents(u, p, i, d)
      BY <3>3 DEF SameEvents
    <3>6. SameBooks(u, p, i, d)
      BY <3>2, <3>4, <3>5, BooksAgree, Zenon
    <3> QED BY <2>9, <3>1, <3>6 DEF SameBooks
  <2>13. \A k \in 1 .. n : p[k].kind = "snapshot" => k <= d + 1 /\ p[d + 1].kind = "snapshot"
    <3>1. d + 1 = s
      BY <2>6, <2>7
    <3>2. \A k \in 1 .. n : p[k].kind = "snapshot" => s >= k
      BY <1>2, <2>5
    <3> QED BY <2>6, <3>1, <3>2
  <2>14. d \in 0 .. n /\ d < n
    BY <2>7
  <2> QED BY <1>3, <2>9, <2>11, <2>12, <2>13, <2>14
<1> QED BY <1>5, <1>6

\* A trade leaves the book as it is.
LEMMA TradesKeepBook ==
  ASSUME NEW events, IsStream(events), NEW b \in 1 .. Len(events), NEW n \in 1 .. Len(events), b <= n,
         \A k \in BookEvents(events) : k <= b \/ n < k
  PROVE  BooksOf(events)[n] = BooksOf(events)[b]
<1>1. Len(events) \in Nat /\ DOMAIN events = 1 .. Len(events)
  BY DEF IsStream
<1>2. PICK f : f = BooksOf(events)
  OBVIOUS
<1>3. \A k \in 1 .. Len(events) : f[k] = apply_event(events[k], f[k - 1])
  BY <1>1, <1>2, BooksStep
<1>4. \A k \in b + 1 .. n : f[k] = f[k - 1]
  <2> TAKE k \in b + 1 .. n
  <2>1. k \in 1 .. Len(events) /\ ~ (k <= b) /\ ~ (n < k)
    BY <1>1
  <2>2. events[k].kind = "trade"
    BY <1>1, <2>1 DEF BookEvents
  <2>3. apply_event(events[k], f[k - 1]) = f[k - 1]
    BY <2>2 DEF apply_event
  <2> QED BY <1>3, <2>1, <2>3
<1> DEFINE Good == {m \in Nat : b + m <= n => f[b + m] = f[b]}
<1>5. 0 \in Good
  OBVIOUS
<1>6. \A m \in Nat : m \in Good => m + 1 \in Good
  <2> SUFFICES ASSUME NEW m \in Nat, m \in Good, b + (m + 1) <= n PROVE f[b + (m + 1)] = f[b]
    OBVIOUS
  <2>1. PICK k : k = b + (m + 1)
    OBVIOUS
  <2>2. k \in b + 1 .. n /\ k - 1 = b + m /\ b + m <= n
    BY <1>1, <2>1
  <2>3. f[k] = f[k - 1] /\ f[k - 1] = f[b]
    BY <1>4, <2>2
  <2> QED BY <2>1, <2>3
<1> HIDE DEF Good
<1>7. Nat \subseteq Good
  BY <1>5, <1>6, NaturalInduction
<1>8. PICK m \in Nat : m = n - b
  OBVIOUS
<1>9. b + m <= n /\ b + m = n
  BY <1>8
<1> QED BY <1>2, <1>7, <1>9 DEF Good

-----------------------------------------------------------------------------
(***************************************************************************)
(* Books that stand, and books by their last writers.                      *)
(***************************************************************************)

LEMMA BestFacts ==
  ASSUME NEW book \in Books, Standing(book), NEW side \in PassiveSides
  PROVE  /\ BestOf(book, side) \in Quoted(book, side) /\ BestOf(book, side) \in Nat \ {0}
         /\ book[<<side, BestOf(book, side)>>] \in Nat \ {0}
         /\ \A q \in Quoted(book, side) : ~ Behind(side, q, BestOf(book, side))
<1>1. PICK Q : Q = Quoted(book, side)
  OBVIOUS
<1>2. Q \in SUBSET Prices
  BY <1>1 DEF Quoted
<1>3. Prices \in SUBSET (Nat \ {0}) /\ IsFiniteSet(Prices)
  BY MarketAssumption DEF validate
<1>4. Q \in SUBSET Nat /\ Q \in SUBSET Int
  BY <1>2, <1>3
<1>5. IsFiniteSet(Q)
  BY <1>2, <1>3, FS_Subset
<1>6. Q # {}
  BY <1>1 DEF Standing, PassiveSides
<1>7. Max(Q) \in Q /\ \A q \in Q : Max(Q) >= q
  BY <1>4, <1>5, <1>6, MaxIn
<1>8. Min(Q) \in Q /\ \A q \in Q : Min(Q) <= q
  BY <1>4, <1>6, MinOf
<1>9. BestOf(book, side) \in Q
  BY <1>1, <1>7, <1>8 DEF BestOf
<1>10. \A p \in Q : book[<<side, p>>] > 0 /\ book[<<side, p>>] \in Nat
  <2> TAKE p \in Q
  <2>1. p \in Prices /\ book[<<side, p>>] > 0
    BY <1>1 DEF Quoted
  <2>2. <<side, p>> \in Levels
    BY <2>1 DEF Levels
  <2>3. book[<<side, p>>] \in Nat
    BY <2>2 DEF Books
  <2> QED BY <2>1, <2>3
<1>11. PICK best \in Q : best = BestOf(book, side)
  BY <1>9
<1>12. best \in Nat \ {0} /\ book[<<side, best>>] \in Nat \ {0}
  <2>1. best \in Prices
    BY <1>2
  <2>2. best \in Nat \ {0}
    BY <1>3, <2>1
  <2> QED BY <1>10, <2>2
<1>13. \A q \in Q : ~ Behind(side, q, best)
  <2> TAKE q \in Q
  <2>1. q \in Nat /\ best \in Nat
    BY <1>4
  <2>2. CASE side = "bid"
    <3>1. best >= q
      BY <1>1, <1>7, <1>11, <2>2 DEF BestOf
    <3> QED BY <2>1, <2>2, <3>1 DEF Behind
  <2>3. CASE side # "bid"
    <3>1. best <= q
      BY <1>1, <1>8, <1>11, <2>3 DEF BestOf
    <3> QED BY <2>1, <2>3, <3>1 DEF Behind
  <2> QED BY <2>2, <2>3
<1> QED BY <1>1, <1>11, <1>12, <1>13

\* An event names the lots on a level.
Writes(e, level) == e.kind = "snapshot" \/ (e.kind = "depth" /\ level \in DOMAIN e.levels)
Written(e, level) == IF e.kind = "snapshot" THEN e.book[level] ELSE e.levels[level]

LEMMA WrittenOrKept ==
  ASSUME NEW e, IsEvent(e), NEW book \in Books, NEW level \in Levels
  PROVE  apply_event(e, book)[level] = IF Writes(e, level) THEN Written(e, level) ELSE book[level]
<1>1. CASE e.kind = "snapshot"
  BY <1>1 DEF apply_event, Writes, Written
<1>2. CASE e.kind = "depth"
  <2>1. apply_event(e, book) = [l \in DOMAIN book |->
                                 IF l \in DOMAIN e.levels THEN e.levels[l] ELSE book[l]]
    BY <1>2 DEF apply_event
  <2>2. level \in DOMAIN book
    BY DEF Books
  <2> QED BY <1>2, <2>1, <2>2 DEF Writes, Written
<1>3. CASE e.kind = "trade"
  <2>1. apply_event(e, book) = book
    BY <1>3 DEF apply_event
  <2> QED BY <1>3, <2>1 DEF Writes
<1> QED BY <1>1, <1>2, <1>3 DEF IsEvent

LEMMA LastWriter ==
  ASSUME IsStream(stream), NEW t, NEW n \in 0 .. Len(stream),
         {k \in DOMAIN stream : stream[k].time <= t} = 1 .. n, NEW level \in Levels
  PROVE  BooksOf(stream)[n][level] = LotsAt(level, t)
<1>1. Len(stream) \in Nat /\ DOMAIN stream = 1 .. Len(stream) /\ n \in Nat
  BY DEF IsStream
<1>2. PICK b : b = BooksOf(stream)
  OBVIOUS
<1>3. b[0] = EmptyBook /\ \A k \in 1 .. Len(stream) : b[k] = apply_event(stream[k], b[k - 1])
  BY <1>1, <1>2, BooksStep
<1>4. \A k \in 0 .. Len(stream) : b[k] \in Books
  BY <1>2, BooksType
<1>5. PICK W : W = {k \in 1 .. n : Writes(stream[k], level)}
  OBVIOUS
<1>6. LotsAt(level, t) = IF W = {} THEN 0 ELSE Written(stream[Max(W)], level)
  <2>1. W = {k \in DOMAIN stream : /\ stream[k].time <= t
                                  /\ \/ stream[k].kind = "snapshot"
                                     \/ stream[k].kind = "depth" /\ level \in DOMAIN stream[k].levels}
    BY <1>5 DEF Writes
  <2>2. LotsAt(level, t) = IF W = {} THEN 0
                           ELSE LET e == stream[Max(W)]
                                IN IF e.kind = "snapshot" THEN e.book[level] ELSE e.levels[level]
    BY <2>1 DEF LotsAt
  <2> QED BY <2>2 DEF Written
<1>7. \E w \in 0 .. n : /\ \A k \in w + 1 .. n : k \notin W
                       /\ b[w][level] = LotsAt(level, t)
  <2>1. CASE W = {}
    <3>1. b[0][level] = 0
      BY <1>3 DEF EmptyBook, Levels
    <3> QED BY <1>1, <1>6, <2>1, <3>1
  <2>2. CASE W # {}
    <3>1. IsFiniteSet(1 .. n)
      BY <1>1, PlacesBefore
    <3>2. W \in SUBSET (1 .. n)
      BY <1>5
    <3>3. IsFiniteSet(W)
      BY <3>1, <3>2, FS_Subset
    <3>4. W \in SUBSET Int
      BY <3>2
    <3>5. PICK w : w = Max(W)
      OBVIOUS
    <3>6. w \in W /\ \A y \in W : w >= y
      BY <2>2, <3>3, <3>4, <3>5, MaxIn
    <3>7. w \in 1 .. n /\ Writes(stream[w], level)
      BY <1>5, <3>6
    <3>8. w \in 1 .. Len(stream) /\ w - 1 \in 0 .. Len(stream)
      BY <1>1, <3>7
    <3>9. IsEvent(stream[w]) /\ b[w - 1] \in Books /\ b[w] = apply_event(stream[w], b[w - 1])
      BY <1>3, <1>4, <3>8 DEF IsStream
    <3>10. b[w][level] = Written(stream[w], level)
      BY <3>7, <3>9, WrittenOrKept
    <3>11. \A k \in w + 1 .. n : k \notin W
      <4>1. ASSUME NEW k \in w + 1 .. n, k \in W PROVE FALSE
        <5>1. w >= k
          BY <3>6, <4>1
        <5> QED BY <3>7, <5>1
      <4> QED BY <4>1
    <3>12. w \in 0 .. n
      BY <3>7
    <3> QED BY <1>6, <2>2, <3>5, <3>10, <3>11, <3>12
  <2> QED BY <2>1, <2>2
<1>8. PICK w \in 0 .. n : (\A k \in w + 1 .. n : k \notin W) /\ b[w][level] = LotsAt(level, t)
  BY <1>7
<1> DEFINE Good == {m \in Nat : w + m <= n => b[w + m][level] = b[w][level]}
<1>9. 0 \in Good
  OBVIOUS
<1>10. \A m \in Nat : m \in Good => m + 1 \in Good
  <2> SUFFICES ASSUME NEW m \in Nat, m \in Good, w + (m + 1) <= n
               PROVE  b[w + (m + 1)][level] = b[w][level]
    OBVIOUS
  <2>1. PICK k : k = w + (m + 1)
    OBVIOUS
  <2>2. /\ k \in w + 1 .. n /\ k \in 1 .. n /\ k \in 1 .. Len(stream) /\ k - 1 \in 0 .. Len(stream)
        /\ k - 1 = w + m /\ w + m <= n
    BY <1>1, <2>1
  <2>3. IsEvent(stream[k]) /\ b[k - 1] \in Books /\ b[k] = apply_event(stream[k], b[k - 1])
    BY <1>3, <1>4, <2>2 DEF IsStream
  <2>4. ~ Writes(stream[k], level)
    BY <1>5, <1>8, <2>2
  <2>5. b[k][level] = b[k - 1][level]
    BY <2>3, <2>4, WrittenOrKept
  <2>6. b[k - 1][level] = b[w][level]
    BY <2>2
  <2> QED BY <2>1, <2>5, <2>6
<1> HIDE DEF Good
<1>11. Nat \subseteq Good
  BY <1>9, <1>10, NaturalInduction
<1>12. PICK m \in Nat : m = n - w
  OBVIOUS
<1>13. w + m <= n /\ w + m = n
  BY <1>12
<1>14. b[n][level] = b[w][level]
  BY <1>11, <1>13 DEF Good
<1> QED BY <1>2, <1>8, <1>14

LEMMA BookAtIs ==
  ASSUME IsStream(stream), NEW t, NEW n \in 0 .. Len(stream),
         {k \in DOMAIN stream : stream[k].time <= t} = 1 .. n
  PROVE  BookAt(t) = BooksOf(stream)[n]
<1>1. PICK book \in Books : book = BooksOf(stream)[n]
  BY BooksType
<1>2. book = [level \in Levels |-> book[level]]
  BY DEF Books
<1>3. \A level \in Levels : book[level] = LotsAt(level, t)
  BY <1>1, LastWriter
<1>4. BookAt(t) = [level \in Levels |-> LotsAt(level, t)]
  BY DEF BookAt, Levels
<1>5. book = [level \in Levels |-> LotsAt(level, t)]
  BY <1>2, <1>3
<1> QED BY <1>1, <1>4, <1>5

-----------------------------------------------------------------------------
(***************************************************************************)
(* What a row is made of.                                                  *)
(***************************************************************************)

\* The events behind a point's features: n were known, and those up to the
\* d-th are before the last snapshot of them.
UsedFor(point) == SinceSnapshot(Eligible(stream, point))
RowBasis(point, n, d) ==
  /\ n \in 1 .. Len(stream) /\ d \in 0 .. n - 1
  /\ Known(stream, point) = 1 .. n /\ Cardinality(Known(stream, point)) = n
  /\ IsBeginning(Eligible(stream, point), stream, n)
  /\ IsStream(UsedFor(point)) /\ Len(UsedFor(point)) = n - d
  /\ \A k \in 1 .. n - d : /\ UsedFor(point)[k] = stream[k + d]
                          /\ BooksOf(UsedFor(point))[k] = BooksOf(stream)[k + d]
  /\ \A k \in 1 .. n : stream[k].kind = "snapshot" => k <= d + 1 /\ stream[d + 1].kind = "snapshot"
  /\ Standing(BooksOf(stream)[n])

LEMMA LastBookEvent ==
  ASSUME NEW events, IsStream(events), BookEvents(events) # {}
  PROVE  /\ Max(BookEvents(events)) \in BookEvents(events)
         /\ \A k \in BookEvents(events) : k <= Max(BookEvents(events))
         /\ BooksOf(events)[Len(events)] = BooksOf(events)[Max(BookEvents(events))]
<1>1. Len(events) \in Nat /\ DOMAIN events = 1 .. Len(events)
  BY DEF IsStream
<1>2. PICK B : B = BookEvents(events)
  OBVIOUS
<1>3. B \in SUBSET (1 .. Len(events))
  BY <1>1, <1>2 DEF BookEvents
<1>4. IsFiniteSet(B)
  <2>1. IsFiniteSet(1 .. Len(events))
    BY <1>1, PlacesBefore
  <2> QED BY <1>3, <2>1, FS_Subset
<1>5. B \in SUBSET Int
  BY <1>3
<1>6. PICK b : b = Max(B)
  OBVIOUS
<1>7. b \in B /\ \A y \in B : b >= y
  BY <1>2, <1>4, <1>5, <1>6, MaxIn
<1>8. b \in 1 .. Len(events) /\ b <= Len(events) /\ Len(events) \in 1 .. Len(events)
  BY <1>1, <1>3, <1>7
<1>9. \A k \in B : k <= b
  <2> TAKE k \in B
  <2>1. b >= k /\ b \in Int /\ k \in Int
    BY <1>5, <1>7
  <2> QED BY <2>1
<1>10. \A k \in BookEvents(events) : k <= b \/ Len(events) < k
  BY <1>2, <1>9
<1>11. BooksOf(events)[Len(events)] = BooksOf(events)[b]
  BY <1>8, <1>10, TradesKeepBook
<1> QED BY <1>2, <1>6, <1>7, <1>9, <1>11

LEMMA RowHasBasis ==
  ASSUME NEW point, point.time \in Nat, IsStream(stream), Accepts(stream), Buildable(stream, point)
  PROVE  \E n, d : RowBasis(point, n, d)
<1>1. InOrder(stream)
  BY AcceptedInOrder
<1>2. point.time \in Int
  OBVIOUS
<1>3. PICK n \in 0 .. Len(stream) :
        /\ Known(stream, point) = 1 .. n /\ Cardinality(Known(stream, point)) = n
        /\ IsBeginning(Eligible(stream, point), stream, n)
  BY <1>1, <1>2, KnownFirst
<1>4. PICK p : p = Eligible(stream, point)
  OBVIOUS
<1>5. /\ IsStream(p) /\ Len(p) = n /\ p \in Seq({stream[k] : k \in 1 .. n}) /\ n \in Nat
      /\ \A k \in 1 .. n : p[k] = stream[k]
      /\ \A k \in 0 .. n : BooksOf(p)[k] = BooksOf(stream)[k]
  BY <1>3, <1>4 DEF IsBeginning
<1>6. PICK u : u = UsedFor(point)
  OBVIOUS
<1>7. u = SinceSnapshot(p)
  BY <1>4, <1>6 DEF UsedFor
<1>8. PICK d \in 0 .. n :
        /\ n = 0 \/ d < n
        /\ Len(u) = n - d /\ IsStream(u)
        /\ \A k \in 1 .. n - d : u[k] = p[k + d] /\ BooksOf(u)[k] = BooksOf(p)[k + d]
        /\ \A k \in 1 .. n : p[k].kind = "snapshot" => k <= d + 1 /\ p[d + 1].kind = "snapshot"
  BY <1>5, <1>7, SinceLastSnapshot
<1>9. Replayable(u) /\ BookEvents(u) # {}
  BY <1>6 DEF Buildable, HasHistory, UsedFor
<1>10. PICK b : b = Max(BookEvents(u))
  OBVIOUS
<1>11. b \in BookEvents(u) /\ BooksOf(u)[Len(u)] = BooksOf(u)[b]
  BY <1>8, <1>9, <1>10, LastBookEvent
<1>12. Standing(BooksOf(u)[Len(u)])
  BY <1>9, <1>11 DEF Replayable
<1>13. b \in 1 .. Len(u)
  BY <1>8, <1>11 DEF BookEvents, IsStream
<1>14. n \in 1 .. Len(stream) /\ d \in 0 .. n - 1
  BY <1>5, <1>8, <1>13
<1>15. \A k \in 1 .. n - d : k + d \in 1 .. n /\ k + d \in 0 .. n
  BY <1>14
<1>16. \A k \in 1 .. n - d : u[k] = stream[k + d] /\ BooksOf(u)[k] = BooksOf(stream)[k + d]
  BY <1>5, <1>8, <1>15
<1>17. n - d \in 1 .. n - d /\ (n - d) + d = n
  BY <1>14
<1>18. Standing(BooksOf(stream)[n])
  BY <1>8, <1>12, <1>16, <1>17
<1>19. d + 1 \in 1 .. n
  BY <1>14
<1>20. \A k \in 1 .. n : stream[k].kind = "snapshot" => k <= d + 1 /\ stream[d + 1].kind = "snapshot"
  BY <1>5, <1>8, <1>19
<1>21. RowBasis(point, n, d)
  BY <1>3, <1>6, <1>8, <1>14, <1>16, <1>18, <1>20 DEF RowBasis
<1> QED BY <1>21

-----------------------------------------------------------------------------
(***************************************************************************)
(* What is emitted and built.                                              *)
(***************************************************************************)

Events ==
  {[kind |-> "snapshot", book |-> book, time |-> time, available |-> time + delay] :
     book \in Snapshots, time \in Times, delay \in Delays}
  \cup {[kind |-> "depth", levels |-> levels, time |-> time, available |-> time + delay] :
     levels \in Changes, time \in Times, delay \in Delays}
  \cup {[kind |-> "trade", price |-> trade.price, lots |-> trade.lots, maker |-> trade.maker,
         time |-> time, available |-> time + delay] :
     trade \in Trades, time \in Times, delay \in Delays}

PointsAt(time) == {[time |-> time, side |-> side] : side \in PassiveSides}

PredictionInv ==
  /\ stream \in Seq(Events)
  /\ dataset = NoDataset \/ \E time \in DecisionTimes :
                              dataset = build_feature_label_rows(stream, PointsAt(time))

LEMMA EventsValid == \A e \in Events : IsEvent(e)
<1>1. \A time \in Times, delay \in Delays : time \in Nat /\ time + delay \in Nat
  <2> SUFFICES ASSUME NEW time \in Times, NEW delay \in Delays PROVE time \in Nat /\ time + delay \in Nat
    OBVIOUS
  <2>1. time \in Nat /\ delay \in Nat
    BY MarketAssumption DEF validate
  <2> QED BY <2>1
<1>2. ASSUME NEW book \in Snapshots, NEW time \in Nat, NEW available \in Nat
      PROVE  IsEvent([kind |-> "snapshot", book |-> book, time |-> time, available |-> available])
  <2>1. book \in Books
    BY MarketAssumption DEF validate, Books, Levels
  <2> QED BY <2>1 DEF IsEvent
<1>3. ASSUME NEW levels \in Changes, NEW time \in Nat, NEW available \in Nat
      PROVE  IsEvent([kind |-> "depth", levels |-> levels, time |-> time, available |-> available])
  <2>1. DOMAIN levels \subseteq Levels /\ levels \in [DOMAIN levels -> Nat]
    BY MarketAssumption DEF validate, Levels
  <2> QED BY <2>1 DEF IsEvent
<1>4. ASSUME NEW trade \in Trades, NEW time \in Nat, NEW available \in Nat
      PROVE  IsEvent([kind |-> "trade", price |-> trade.price, lots |-> trade.lots,
                      maker |-> trade.maker, time |-> time, available |-> available])
  <2>1. trade.price \in Nat /\ trade.lots \in Nat /\ trade.maker \in BOOLEAN
    BY MarketAssumption DEF validate
  <2> QED BY <2>1 DEF IsEvent
<1>5. SUFFICES ASSUME NEW e \in Events PROVE IsEvent(e)
  OBVIOUS
<1>6. CASE \E book \in Snapshots, time \in Times, delay \in Delays :
             e = [kind |-> "snapshot", book |-> book, time |-> time, available |-> time + delay]
  BY <1>1, <1>2, <1>6
<1>7. CASE \E levels \in Changes, time \in Times, delay \in Delays :
             e = [kind |-> "depth", levels |-> levels, time |-> time, available |-> time + delay]
  BY <1>1, <1>3, <1>7
<1>8. CASE \E trade \in Trades, time \in Times, delay \in Delays :
             e = [kind |-> "trade", price |-> trade.price, lots |-> trade.lots,
                  maker |-> trade.maker, time |-> time, available |-> time + delay]
  BY <1>1, <1>4, <1>8
<1> QED BY <1>5, <1>6, <1>7, <1>8 DEF Events

LEMMA StreamValid ==
  ASSUME stream \in Seq(Events)
  PROVE  IsStream(stream)
<1>1. Len(stream) \in Nat /\ DOMAIN stream = 1 .. Len(stream)
  OBVIOUS
<1>2. \A k \in 1 .. Len(stream) : stream[k] \in Events
  OBVIOUS
<1> QED BY <1>1, <1>2, EventsValid DEF IsStream

LEMMA PredictionKeeps ==
  ASSUME PredictionInv, [PredictionNext]_predictionVars
  PROVE  PredictionInv'
<1>1. CASE Emit
  <2>1. \E e \in Events : stream' = Append(stream, e)
    <3>1. PICK time \in Times, delay \in Delays :
            \/ \E book \in Snapshots :
                 stream' = Append(stream, [kind |-> "snapshot", book |-> book,
                                           time |-> time, available |-> time + delay])
            \/ \E levels \in Changes :
                 stream' = Append(stream, [kind |-> "depth", levels |-> levels,
                                           time |-> time, available |-> time + delay])
            \/ \E trade \in Trades :
                 stream' = Append(stream, [kind |-> "trade", price |-> trade.price,
                                           lots |-> trade.lots, maker |-> trade.maker,
                                           time |-> time, available |-> time + delay])
      BY <1>1 DEF Emit
    <3>2. \A book \in Snapshots : [kind |-> "snapshot", book |-> book,
                                   time |-> time, available |-> time + delay] \in Events
      BY DEF Events
    <3>3. \A levels \in Changes : [kind |-> "depth", levels |-> levels,
                                   time |-> time, available |-> time + delay] \in Events
      BY DEF Events
    <3>4. \A trade \in Trades : [kind |-> "trade", price |-> trade.price,
                                 lots |-> trade.lots, maker |-> trade.maker,
                                 time |-> time, available |-> time + delay] \in Events
      BY DEF Events
    <3> QED BY <3>1, <3>2, <3>3, <3>4, Zenon
  <2>2. dataset = NoDataset /\ dataset' = dataset
    BY <1>1 DEF Emit
  <2>3. stream' \in Seq(Events)
    BY <2>1 DEF PredictionInv
  <2> QED BY <2>2, <2>3 DEF PredictionInv
<1>2. CASE Build
  <2>1. UNCHANGED stream
    BY <1>2 DEF Build
  <2>2. PICK time \in DecisionTimes : dataset' = build_feature_label_rows(stream, PointsAt(time))
    BY <1>2 DEF Build, PointsAt
  <2>3. build_feature_label_rows(stream, PointsAt(time))' = build_feature_label_rows(stream, PointsAt(time))
    BY <2>1
  <2>4. dataset' = build_feature_label_rows(stream', PointsAt(time))
    BY <2>1, <2>2
  <2> QED BY <2>1, <2>4 DEF PredictionInv
<1>3. CASE UNCHANGED predictionVars
  BY <1>3 DEF predictionVars, PredictionInv
<1> QED BY <1>1, <1>2, <1>3 DEF PredictionNext

LEMMA PredictionAlways == Spec => []PredictionInv
<1>1. Init => PredictionInv
  BY DEF Init, PredictionInit, PredictionInv
<1>2. PredictionInv /\ [Next]_vars => PredictionInv'
  BY PredictionKeeps DEF Next, vars, Predict, Forecast, Reinforce, Imitate, Stress, Measure
<1> QED BY <1>1, <1>2, PTL DEF Spec

\* What is known of the rows of a dataset.
LEMMA RowsBuilt ==
  ASSUME PredictionInv, NEW r \in dataset.rows
  PROVE  \E time \in DecisionTimes : \E point \in PointsAt(time) :
           /\ IsStream(stream) /\ InOrder(stream) /\ Accepts(stream)
           /\ dataset.rows = {[feature |-> feature_row(stream, q),
                               label |-> future_label(stream, feature_row(stream, q))] :
                                 q \in PointsAt(time)}
           /\ \A q \in PointsAt(time) : Buildable(stream, q) /\ q.time = time /\ q.side \in PassiveSides
           /\ r = [feature |-> feature_row(stream, point),
                   label |-> future_label(stream, feature_row(stream, point))]
           /\ time \in Nat
<1>1. dataset # NoDataset /\ dataset # Refused
  BY DEF NoDataset, Refused
<1>2. PICK time \in DecisionTimes : dataset = build_feature_label_rows(stream, PointsAt(time))
  BY <1>1 DEF PredictionInv
<1>3. /\ Accepts(stream) /\ \A q \in PointsAt(time) : Buildable(stream, q)
      /\ dataset = [status |-> "written",
                    rows |-> {[feature |-> feature_row(stream, q),
                               label |-> future_label(stream, feature_row(stream, q))] :
                                 q \in PointsAt(time)}]
  BY <1>1, <1>2, Zenon DEF build_feature_label_rows
<1>4. IsStream(stream)
  BY StreamValid DEF PredictionInv
<1>5. InOrder(stream)
  BY <1>3, <1>4, AcceptedInOrder
<1>6. time \in Nat /\ \A q \in PointsAt(time) : q.time = time /\ q.side \in PassiveSides
  BY MarketAssumption DEF PointsAt, validate
<1>7. dataset.rows = {[feature |-> feature_row(stream, q),
                       label |-> future_label(stream, feature_row(stream, q))] : q \in PointsAt(time)}
  BY <1>3
<1>8. PICK point \in PointsAt(time) :
        r = [feature |-> feature_row(stream, point),
             label |-> future_label(stream, feature_row(stream, point))]
  BY <1>7
<1> QED BY <1>3, <1>4, <1>5, <1>6, <1>7, <1>8

-----------------------------------------------------------------------------
(***************************************************************************)
(* Labels.                                                                 *)
(***************************************************************************)

LEMMA TimesConfigured ==
  /\ ObservationLatency \in Nat \ {0} /\ TopLevels \in Nat \ {0}
  /\ MaxWindow \in Nat \ {0} /\ MaxHorizon \in Nat \ {0}
  /\ \A i \in DOMAIN Windows : Windows[i] \in Nat \ {0} /\ Windows[i] <= MaxWindow
  /\ \A i \in DOMAIN Horizons : Horizons[i] \in Nat \ {0} /\ Horizons[i] <= MaxHorizon
  /\ \A i, j \in DOMAIN Windows : i < j => Windows[i] < Windows[j]
  /\ DOMAIN Windows = 1 .. Len(Windows) /\ Len(Windows) \in Nat
<1>1. ASSUME NEW s \in Seq(Nat \ {0}), s # << >>, \A i, j \in DOMAIN s : i < j => s[i] < s[j]
      PROVE  s[Len(s)] \in Nat \ {0} /\ \A i \in DOMAIN s : s[i] \in Nat \ {0} /\ s[i] <= s[Len(s)]
  <2>1. Len(s) \in 1 .. Len(s) /\ DOMAIN s = 1 .. Len(s)
    BY <1>1
  <2>2. \A i \in DOMAIN s : s[i] \in Nat \ {0}
    BY <1>1
  <2>3. \A i \in DOMAIN s : i = Len(s) \/ i < Len(s)
    BY <2>1
  <2>4. \A i \in DOMAIN s : s[i] <= s[Len(s)]
    BY <1>1, <2>1, <2>2, <2>3
  <2> QED BY <2>1, <2>2, <2>4
<1>2. /\ Windows \in Seq(Nat \ {0}) /\ Windows # << >>
      /\ \A i, j \in DOMAIN Windows : i < j => Windows[i] < Windows[j]
  BY PredictionAssumption DEF load_prediction_feature_config
<1>3. /\ Horizons \in Seq(Nat \ {0}) /\ Horizons # << >>
      /\ \A i, j \in DOMAIN Horizons : i < j => Horizons[i] < Horizons[j]
  BY PredictionAssumption DEF load_prediction_feature_config
<1>4. ObservationLatency \in Nat \ {0} /\ TopLevels \in Nat \ {0}
  BY PredictionAssumption DEF load_prediction_feature_config
<1>5. MaxWindow \in Nat \ {0} /\ \A i \in DOMAIN Windows : Windows[i] \in Nat \ {0} /\ Windows[i] <= MaxWindow
  BY <1>1, <1>2 DEF MaxWindow
<1>6. MaxHorizon \in Nat \ {0} /\ \A i \in DOMAIN Horizons : Horizons[i] \in Nat \ {0} /\ Horizons[i] <= MaxHorizon
  BY <1>1, <1>3 DEF MaxHorizon
<1> QED BY <1>2, <1>4, <1>5, <1>6

\* The book of a row is the one that the known events have left.
LEMMA RowValues ==
  ASSUME NEW point, NEW n, NEW d, RowBasis(point, n, d), IsStream(stream),
         point.time \in Nat, Buildable(stream, point),
         NEW row, row = feature_row(stream, point)
  PROVE  /\ BooksOf(stream)[n] \in Books /\ n \in 1 .. Len(stream)
         /\ BooksOf(UsedFor(point))[Len(UsedFor(point))] = BooksOf(stream)[n]
         /\ row.point = point /\ row.cutoff = Cutoff(point) /\ row.cutoff \in Nat
         /\ \A side \in PassiveSides : row.best[side] = BestOf(BooksOf(stream)[n], side)
         /\ row.mid = Mid2(BooksOf(stream)[n])
         /\ row.features = Features(UsedFor(point), point.side, Cutoff(point))
<1>1. n \in 1 .. Len(stream) /\ d \in 0 .. n - 1 /\ Len(UsedFor(point)) = n - d
  BY DEF RowBasis
<1>2. Len(stream) \in Nat
  BY DEF IsStream
<1>3. n - d \in 1 .. n - d /\ (n - d) + d = n /\ n \in 0 .. Len(stream)
  BY <1>1, <1>2
<1>4. BooksOf(UsedFor(point))[n - d] = BooksOf(stream)[(n - d) + d]
  BY <1>3 DEF RowBasis
<1>5. PICK book : book = BooksOf(UsedFor(point))[Len(UsedFor(point))]
  OBVIOUS
<1>6. book = BooksOf(stream)[n]
  BY <1>1, <1>3, <1>4, <1>5
<1>7. book \in Books
  BY <1>3, <1>6, BooksType
<1>8. /\ row.point = point /\ row.cutoff = Cutoff(point)
      /\ row.best = [side \in PassiveSides |-> BestOf(book, side)]
      /\ row.mid = Mid2(book)
      /\ row.features = Features(UsedFor(point), point.side, Cutoff(point))
  BY <1>5 DEF feature_row, UsedFor
<1>9. Cutoff(point) \in Nat
  <2>1. point.time > ObservationLatency
    BY DEF Buildable
  <2> QED BY <2>1, TimesConfigured DEF Cutoff
<1> QED BY <1>1, <1>5, <1>6, <1>7, <1>8, <1>9

\* The quote was taken or is gone, as the target has it.
Loses(k, side, quote) ==
  IF stream[k].kind = "trade" THEN Behind(side, quote, stream[k].price)
  ELSE BestOf(BooksOf(stream)[k], side) # quote
       /\ (BooksOf(stream)[k][<<side, quote>>] = 0
           \/ Behind(side, quote, BestOf(BooksOf(stream)[k], side)))

LEMMA DepletesIsLoses ==
  ASSUME IsStream(stream), NEW k \in 1 .. Len(stream), NEW side \in PassiveSides, NEW quote \in Int,
         k \in BookEvents(stream) => Standing(BooksOf(stream)[k])
  PROVE  Depletes(stream, k, side, quote) <=> Loses(k, side, quote)
<1>1. CASE stream[k].kind = "trade"
  BY <1>1 DEF Depletes, Loses
<1>2. CASE stream[k].kind # "trade"
  <2>1. k \in BookEvents(stream)
    BY <1>2 DEF BookEvents, IsStream
  <2>2. k \in 0 .. Len(stream)
    OBVIOUS
  <2>3. PICK book \in Books : book = BooksOf(stream)[k]
    BY <2>2, BooksType
  <2>4. Standing(book)
    BY <2>1, <2>3
  <2>5. PICK best \in Nat \ {0} : best = BestOf(book, side) /\ book[<<side, best>>] \in Nat \ {0}
    BY <2>4, BestFacts
  <2>6. Depletes(stream, k, side, quote) <=> (book[<<side, quote>>] = 0 \/ Behind(side, quote, best))
    BY <1>2, <2>3, <2>5 DEF Depletes
  <2>7. Loses(k, side, quote) <=>
          (best # quote /\ (book[<<side, quote>>] = 0 \/ Behind(side, quote, best)))
    BY <1>2, <2>3, <2>5 DEF Loses
  <2>8. book[<<side, quote>>] = 0 => best # quote
    BY <2>5
  <2>9. Behind(side, quote, best) => best # quote
    BY <2>5 DEF Behind
  <2> QED BY <2>6, <2>7, <2>8, <2>9
<1> QED BY <1>1, <1>2

\* The first depletion is the one of the label's time.
LEMMA FirstDepletion ==
  ASSUME IsStream(stream), InOrder(stream), NEW row, row.cutoff \in Nat,
         row.point.side \in PassiveSides,
         NEW D, D = {k \in Following(stream, row) :
                       Depletes(stream, k, row.point.side, row.best[row.point.side])},
         NEW label, label = future_label(stream, row), NEW i \in DOMAIN Horizons
  PROVE  label.depleted[i] <=> \E k \in D : stream[k].time <= row.cutoff + Horizons[i]
<1>1. PICK time : time = IF D = {} THEN -1 ELSE stream[Min(D)].time
  OBVIOUS
<1>2. label.depleted[i] <=> (time # -1 /\ time <= row.cutoff + Horizons[i])
  <2>1. label.depleted = [j \in DOMAIN Horizons |-> time # -1 /\ time <= row.cutoff + Horizons[j]]
    BY <1>1 DEF future_label
  <2> QED BY <2>1
<1>3. CASE D = {}
  BY <1>1, <1>2, <1>3
<1>4. CASE D # {}
  <2>1. DOMAIN stream = 1 .. Len(stream) /\ \A k \in 1 .. Len(stream) : stream[k].time \in Nat
    BY DEF IsStream, IsEvent
  <2>2. D \in SUBSET (1 .. Len(stream))
    BY <2>1 DEF Following
  <2>3. D \in SUBSET Nat
    BY <2>2
  <2>4. PICK m : m = Min(D)
    OBVIOUS
  <2>5. m \in D /\ \A k \in D : m <= k
    BY <1>4, <2>3, <2>4, MinOf
  <2>6. time = stream[m].time /\ time \in Nat
    BY <1>1, <1>4, <2>1, <2>2, <2>4, <2>5
  <2>7. \A k \in D : stream[m].time <= stream[k].time /\ stream[k].time \in Nat
    BY <2>1, <2>2, <2>5 DEF InOrder
  <2>8. PICK bound \in Int : bound = row.cutoff + Horizons[i]
    BY TimesConfigured
  <2>9. (\E k \in D : stream[k].time <= bound) => time <= bound
    <3> SUFFICES ASSUME NEW k \in D, stream[k].time <= bound PROVE time <= bound
      OBVIOUS
    <3>1. stream[m].time <= stream[k].time /\ stream[k].time \in Nat /\ stream[m].time \in Nat
      BY <2>6, <2>7
    <3>2. stream[m].time <= bound
      BY <3>1, Within, Zenon
    <3> QED BY <2>6, <3>2
  <2>10. time <= bound => \E k \in D : stream[k].time <= bound
    BY <2>5, <2>6
  <2>11. time # -1
    BY <2>6
  <2> QED BY <1>2, <2>8, <2>9, <2>10, <2>11
<1> QED BY <1>3, <1>4

LEMMA HorizonStands ==
  ASSUME IsStream(stream), InOrder(stream), NEW row, row.cutoff \in Nat, HasFuture(stream, row),
         NEW k \in Following(stream, row)
  PROVE  k \in 1 .. Len(stream) /\ (k \in BookEvents(stream) => Standing(BooksOf(stream)[k]))
<1>1. DOMAIN stream = 1 .. Len(stream)
  BY DEF IsStream
<1>2. PICK t \in Int : t = row.cutoff + MaxHorizon
  BY TimesConfigured
<1>3. k \in 1 .. Len(stream) /\ stream[k].time <= t
  BY <1>1, <1>2 DEF Following
<1>4. PICK m \in 0 .. Len(stream) :
        /\ \A j \in 1 .. Len(stream) : stream[j].time <= t <=> j <= m
        /\ IsBeginning(UpTo(stream, t), stream, m)
  BY PastFirst
<1>5. PICK p : p = UpTo(stream, t)
  OBVIOUS
<1>6. k \in 1 .. m /\ k \in 0 .. m
  BY <1>3, <1>4 DEF IsStream
<1>7. p[k] = stream[k] /\ BooksOf(p)[k] = BooksOf(stream)[k] /\ DOMAIN p = 1 .. m
  BY <1>4, <1>5, <1>6 DEF IsBeginning, IsStream
<1>8. Replayable(p)
  BY <1>2, <1>5 DEF HasFuture
<1>9. k \in BookEvents(stream) => k \in BookEvents(p)
  BY <1>6, <1>7 DEF BookEvents
<1> QED BY <1>3, <1>7, <1>8, <1>9 DEF Replayable

\* The mid at a time is that of the book then.
LEMMA MidThen ==
  ASSUME IsStream(stream), InOrder(stream), NEW t \in Int
  PROVE  MidAt(stream, t) = Mid2(BookAt(t))
<1>1. PICK m \in 0 .. Len(stream) :
        /\ {k \in DOMAIN stream : stream[k].time <= t} = 1 .. m
        /\ IsBeginning(UpTo(stream, t), stream, m)
  BY PastFirst
<1>2. PICK p : p = UpTo(stream, t)
  OBVIOUS
<1>3. m \in 0 .. m
  BY DEF IsStream
<1>4. Len(p) = m /\ BooksOf(p)[m] = BooksOf(stream)[m]
  BY <1>1, <1>2, <1>3 DEF IsBeginning
<1>5. MidAt(stream, t) = Mid2(BooksOf(p)[Len(p)])
  BY <1>2 DEF MidAt
<1>6. BookAt(t) = BooksOf(stream)[m]
  BY <1>1, BookAtIs
<1>7. BooksOf(p)[Len(p)] = BookAt(t)
  BY <1>4, <1>6
<1> QED BY <1>5, <1>7

\* A label of a row meets the target.
LEMMA LabelMeetsTarget ==
  ASSUME IsStream(stream), InOrder(stream), NEW point, point.time \in Nat,
         point.side \in PassiveSides, Accepts(stream), Buildable(stream, point),
         NEW row, row = feature_row(stream, point), InTime(row),
         NEW label, label = future_label(stream, row),
         NEW i \in DOMAIN Horizons, NEW c, c = row.cutoff, NEW quote, quote = BestOf(BookAt(c), point.side)
  PROVE  /\ label.depleted[i] <=>
              \E k \in DOMAIN stream : /\ c < stream[k].time /\ stream[k].time <= c + Horizons[i]
                                      /\ Loses(k, point.side, quote)
         /\ label.adverse[i] =
              SideSign(point.side) * (Mid2(BookAt(c)) - Mid2(BookAt(c + Horizons[i])))
<1>1. PICK n, d : RowBasis(point, n, d)
  BY RowHasBasis
<1>2. /\ BooksOf(stream)[n] \in Books /\ n \in 1 .. Len(stream)
      /\ row.point = point /\ row.cutoff = Cutoff(point) /\ row.cutoff \in Nat
      /\ \A side \in PassiveSides : row.best[side] = BestOf(BooksOf(stream)[n], side)
      /\ row.mid = Mid2(BooksOf(stream)[n])
  BY <1>1, RowValues
<1>3. DOMAIN stream = 1 .. Len(stream) /\ Len(stream) \in Nat
      /\ \A k \in 1 .. Len(stream) : stream[k].time \in Nat
  BY DEF IsStream, IsEvent
<1>4. {k \in DOMAIN stream : stream[k].time <= c} = 1 .. n
  <2>1. Known(stream, point) = {k \in DOMAIN stream : stream[k].time <= c /\ stream[k].available <= point.time}
    BY <1>2 DEF Known
  <2>2. \A k \in DOMAIN stream : stream[k].time <= c => stream[k].available <= point.time
    BY <1>2 DEF InTime
  <2>3. Known(stream, point) = 1 .. n
    BY <1>1 DEF RowBasis
  <2> QED BY <2>1, <2>2, <2>3
<1>5. n \in 0 .. Len(stream)
  BY <1>2, <1>3
<1>6. BookAt(c) = BooksOf(stream)[n]
  BY <1>4, <1>5, BookAtIs
<1>7. quote = row.best[point.side] /\ row.mid = Mid2(BookAt(c))
  BY <1>2, <1>6
<1>8. quote \in Int
  <2>1. Standing(BooksOf(stream)[n])
    BY <1>1 DEF RowBasis
  <2>2. BestOf(BooksOf(stream)[n], point.side) \in Nat \ {0}
    BY <1>2, <2>1, BestFacts
  <2> QED BY <1>6, <2>2
<1>9. HasFuture(stream, row)
  BY DEF Buildable
<1>10. PICK h \in Nat \ {0} : h = Horizons[i] /\ h <= MaxHorizon
  BY TimesConfigured
<1>11. PICK D : D = {k \in Following(stream, row) :
                       Depletes(stream, k, row.point.side, row.best[row.point.side])}
  OBVIOUS
<1>12. label.depleted[i] <=> \E k \in D : stream[k].time <= row.cutoff + Horizons[i]
  BY <1>2, <1>11, FirstDepletion
<1>13. ASSUME NEW k \in DOMAIN stream
       PROVE  (k \in D /\ stream[k].time <= c + h) <=>
                (c < stream[k].time /\ stream[k].time <= c + h /\ Loses(k, point.side, quote))
  <2>1. PICK t \in Nat : t = stream[k].time
    BY <1>3
  <2>2. k \in Following(stream, row) <=> c < t /\ t <= c + MaxHorizon
    BY <2>1 DEF Following
  <2>3. t <= c + h => t <= c + MaxHorizon
    BY <1>2, <1>10, <2>1, TimesConfigured
  <2>4. k \in Following(stream, row) =>
          (Depletes(stream, k, point.side, quote) <=> Loses(k, point.side, quote))
    <3> SUFFICES ASSUME k \in Following(stream, row)
                 PROVE  Depletes(stream, k, point.side, quote) <=> Loses(k, point.side, quote)
      OBVIOUS
    <3>1. k \in 1 .. Len(stream) /\ (k \in BookEvents(stream) => Standing(BooksOf(stream)[k]))
      BY <1>2, <1>9, HorizonStands
    <3> QED BY <1>8, <3>1, DepletesIsLoses
  <2>5. k \in D <=> (k \in Following(stream, row) /\ Depletes(stream, k, point.side, quote))
    BY <1>2, <1>7, <1>11
  <2> QED BY <2>1, <2>2, <2>3, <2>4, <2>5
<1>14. \A k \in D : k \in DOMAIN stream
  BY <1>11 DEF Following
<1>15. label.depleted[i] <=>
         \E k \in DOMAIN stream : /\ c < stream[k].time /\ stream[k].time <= c + Horizons[i]
                                 /\ Loses(k, point.side, quote)
  BY <1>10, <1>12, <1>13, <1>14
<1>16. label.adverse[i] = SideSign(point.side) * (row.mid - MidAt(stream, c + Horizons[i]))
  <2>1. label.adverse = [j \in DOMAIN Horizons |->
                          SideSign(row.point.side) * (row.mid - MidAt(stream, row.cutoff + Horizons[j]))]
    BY DEF future_label
  <2> QED BY <1>2, <2>1
<1>17. MidAt(stream, c + Horizons[i]) = Mid2(BookAt(c + Horizons[i]))
  <2>1. PICK t \in Int : t = c + Horizons[i]
    BY <1>2, <1>10
  <2>2. MidAt(stream, t) = Mid2(BookAt(t))
    BY <2>1, MidThen
  <2> QED BY <2>1, <2>2
<1> QED BY <1>7, <1>15, <1>16, <1>17

LEMMA BasisFirst ==
  ASSUME NEW point, NEW n, NEW d, RowBasis(point, n, d), IsStream(stream), InOrder(stream),
         Buildable(stream, point), point.time \in Nat,
         NEW k \in 1 .. Len(stream), stream[k].kind = "snapshot",
         stream[k].available <= point.time, stream[k].time <= Cutoff(point)
  PROVE  stream[k].time <= Cutoff(point) - MaxWindow
<1>1. k \in Known(stream, point)
  BY DEF Known, IsStream
<1>2. k \in 1 .. n /\ n \in 1 .. Len(stream) /\ d \in 0 .. n - 1 /\ Len(stream) \in Nat
  BY <1>1 DEF RowBasis, IsStream
<1>3. k <= d + 1 /\ stream[d + 1].kind = "snapshot"
  BY <1>2 DEF RowBasis
<1>4. PICK u : u = UsedFor(point)
  OBVIOUS
<1>5. IsStream(u) /\ Len(u) = n - d /\ 1 \in 1 .. n - d /\ d + 1 \in 1 .. Len(stream)
  BY <1>2, <1>4 DEF RowBasis
<1>6. u[1] = stream[1 + d]
  BY <1>4, <1>5 DEF RowBasis
<1>7. u[1] = stream[d + 1] /\ DOMAIN u = 1 .. n - d
  BY <1>2, <1>5, <1>6 DEF IsStream
<1>8. 1 \in BookEvents(u) /\ BookEvents(u) \in SUBSET Nat /\ \A j \in BookEvents(u) : 1 <= j
  BY <1>3, <1>5, <1>7 DEF BookEvents
<1>9. Min(BookEvents(u)) = 1
  <2>1. Min(BookEvents(u)) \in BookEvents(u) /\ \A j \in BookEvents(u) : Min(BookEvents(u)) <= j
    BY <1>8, MinOf
  <2> QED BY <1>8, <2>1
<1>10. u[1].time <= Cutoff(point) - MaxWindow
  BY <1>4, <1>9 DEF Buildable, HasHistory, UsedFor
<1>11. stream[k].time <= stream[d + 1].time /\ stream[k].time \in Nat /\ stream[d + 1].time \in Nat
  BY <1>2, <1>3, <1>5 DEF InOrder, IsStream, IsEvent
<1>12. PICK bound \in Int : bound = Cutoff(point) - MaxWindow
  BY TimesConfigured DEF Cutoff
<1>13. stream[d + 1].time <= bound
  BY <1>7, <1>10, <1>12
<1>14. stream[k].time <= bound
  BY <1>11, <1>13, Within, Zenon
<1> QED BY <1>12, <1>14

LEMMA LabelsMeet ==
  ASSUME PredictionInv
  PROVE  LabelsMeetTarget
<1> SUFFICES ASSUME NEW r \in dataset.rows, InTime(r.feature),
                    NEW i \in DOMAIN Horizons,
                    NEW c, c = r.feature.cutoff,
                    NEW quote, quote = BestOf(BookAt(c), r.feature.point.side)
             PROVE  /\ r.label.depleted[i] <=>
                         \E k \in DOMAIN stream :
                           c < stream[k].time /\ stream[k].time <= c + Horizons[i]
                           /\ Loses(k, r.feature.point.side, quote)
                    /\ r.label.adverse[i] = SideSign(r.feature.point.side)
                                              * (Mid2(BookAt(c)) - Mid2(BookAt(c + Horizons[i])))
  BY Zenon DEF LabelsMeetTarget, Loses
<1>1. PICK time \in DecisionTimes : \E point \in PointsAt(time) :
        /\ IsStream(stream) /\ InOrder(stream) /\ Accepts(stream)
        /\ \A q \in PointsAt(time) : Buildable(stream, q) /\ q.time = time /\ q.side \in PassiveSides
        /\ r = [feature |-> feature_row(stream, point),
                label |-> future_label(stream, feature_row(stream, point))]
        /\ time \in Nat
  BY RowsBuilt
<1>2. PICK point \in PointsAt(time) :
        r = [feature |-> feature_row(stream, point),
             label |-> future_label(stream, feature_row(stream, point))]
  BY <1>1
<1>3. PICK row : row = feature_row(stream, point)
  OBVIOUS
<1>4. PICK label : label = future_label(stream, row)
  OBVIOUS
<1>5. r.feature = row /\ r.label = label
  BY <1>2, <1>3, <1>4
<1>6. row.point = point
  BY <1>3 DEF feature_row
<1>7. /\ IsStream(stream) /\ InOrder(stream) /\ Accepts(stream) /\ Buildable(stream, point)
      /\ point.time \in Nat /\ point.side \in PassiveSides
  BY <1>1
<1>8. InTime(row) /\ c = row.cutoff /\ quote = BestOf(BookAt(c), point.side)
  BY <1>5, <1>6
<1>9. /\ label.depleted[i] <=>
           \E k \in DOMAIN stream : /\ c < stream[k].time /\ stream[k].time <= c + Horizons[i]
                                   /\ Loses(k, point.side, quote)
      /\ label.adverse[i] = SideSign(point.side) * (Mid2(BookAt(c)) - Mid2(BookAt(c + Horizons[i])))
  BY <1>3, <1>4, <1>7, <1>8, LabelMeetsTarget
<1> QED BY <1>5, <1>6, <1>9

LEMMA NoReset ==
  ASSUME PredictionInv
  PROVE  NoResetInside
<1> SUFFICES ASSUME NEW r \in dataset.rows, NEW k \in DOMAIN stream, stream[k].kind = "snapshot"
             PROVE  /\ stream[k].time <= r.feature.cutoff
                       \/ r.feature.cutoff + MaxHorizon < stream[k].time
                    /\ (/\ stream[k].available <= r.feature.point.time
                        /\ stream[k].time <= r.feature.cutoff) =>
                         stream[k].time <= r.feature.cutoff - MaxWindow
  BY DEF NoResetInside
<1>1. PICK time \in DecisionTimes : \E point \in PointsAt(time) :
        /\ IsStream(stream) /\ InOrder(stream) /\ Accepts(stream)
        /\ \A q \in PointsAt(time) : Buildable(stream, q) /\ q.time = time /\ q.side \in PassiveSides
        /\ r = [feature |-> feature_row(stream, point),
                label |-> future_label(stream, feature_row(stream, point))]
        /\ time \in Nat
  BY RowsBuilt
<1>2. PICK point \in PointsAt(time) :
        r = [feature |-> feature_row(stream, point),
             label |-> future_label(stream, feature_row(stream, point))]
  BY <1>1
<1>3. PICK row : row = feature_row(stream, point)
  OBVIOUS
<1>4. /\ IsStream(stream) /\ InOrder(stream) /\ Accepts(stream) /\ Buildable(stream, point)
      /\ point.time \in Nat /\ point.side \in PassiveSides
  BY <1>1
<1>5. PICK n, d : RowBasis(point, n, d)
  BY <1>4, RowHasBasis
<1>6. r.feature = row /\ row.point = point /\ row.cutoff = Cutoff(point) /\ row.cutoff \in Nat
  BY <1>2, <1>3, <1>4, <1>5, RowValues
<1>7. k \in 1 .. Len(stream) /\ stream[k].time \in Nat
  BY <1>4 DEF IsStream, IsEvent
<1>8. stream[k].time <= row.cutoff \/ row.cutoff + MaxHorizon < stream[k].time
  <2>1. k \notin Following(stream, row)
    BY <1>3, <1>4 DEF Buildable, HasFuture
  <2>2. PICK t \in Nat : t = stream[k].time
    BY <1>7
  <2>3. PICK c \in Nat : c = row.cutoff
    BY <1>6
  <2>4. ~ (c < t /\ t <= c + MaxHorizon)
    BY <2>1, <2>2, <2>3 DEF Following
  <2>5. t <= c \/ c + MaxHorizon < t
    BY <2>4, TimesConfigured
  <2> QED BY <2>2, <2>3, <2>5
<1>9. (stream[k].available <= point.time /\ stream[k].time <= Cutoff(point)) =>
        stream[k].time <= Cutoff(point) - MaxWindow
  BY <1>4, <1>5, <1>7, BasisFirst
<1> QED BY <1>6, <1>8, <1>9

\* Whatever a source emits, the labels that are written are of the future that
\* the target names, and no reset lies inside a row.
THEOREM LabelsAlwaysSound == Spec => []LabelsSound
<1>1. PredictionInv => LabelsSound
  BY LabelsMeet, NoReset DEF LabelsSound
<1> QED BY <1>1, PredictionAlways, PTL

-----------------------------------------------------------------------------
(***************************************************************************)
(* Features: what they are made of was known in time.                      *)
(***************************************************************************)

LEMMA BasisInTime ==
  ASSUME NEW point, NEW n, NEW d, RowBasis(point, n, d), IsStream(stream), InOrder(stream),
         NEW u, u = UsedFor(point)
  PROVE  /\ \A k \in 1 .. n : stream[k].time <= Cutoff(point) /\ stream[k].available <= point.time
         /\ \A k \in 1 .. n - d : u[k].time <= Cutoff(point) /\ u[k].available <= point.time
         /\ InOrder(u) /\ IsStream(u) /\ Len(u) = n - d /\ n - d \in Nat \ {0}
<1>1. /\ n \in 1 .. Len(stream) /\ d \in 0 .. n - 1 /\ Known(stream, point) = 1 .. n
      /\ IsStream(u) /\ Len(u) = n - d /\ \A k \in 1 .. n - d : u[k] = stream[k + d]
  BY DEF RowBasis
<1>2. Len(stream) \in Nat
  BY DEF IsStream
<1>3. \A k \in 1 .. n : stream[k].time <= Cutoff(point) /\ stream[k].available <= point.time
  BY <1>1 DEF Known
<1>4. \A k \in 1 .. n - d : k + d \in 1 .. n /\ k + d \in 1 .. Len(stream)
  BY <1>1, <1>2
<1>5. \A k \in 1 .. n - d : u[k].time <= Cutoff(point) /\ u[k].available <= point.time
  BY <1>1, <1>3, <1>4
<1>6. n - d \in Nat \ {0}
  BY <1>1
<1>7. InOrder(u)
  <2>1. ASSUME NEW i \in 1 .. Len(u), NEW j \in 1 .. Len(u), i <= j
        PROVE  u[i].time <= u[j].time /\ u[i].available <= u[j].available
    <3>1. i + d <= j + d /\ i + d \in 1 .. Len(stream) /\ j + d \in 1 .. Len(stream)
      BY <1>1, <1>4, <2>1
    <3>2. stream[i + d].time <= stream[j + d].time /\ stream[i + d].available <= stream[j + d].available
      BY <3>1 DEF InOrder
    <3>3. u[i] = stream[i + d] /\ u[j] = stream[j + d]
      BY <1>1
    <3> QED BY <3>2, <3>3
  <2> QED BY <2>1 DEF InOrder
<1> QED BY <1>1, <1>3, <1>5, <1>6, <1>7

\* The greatest of the values at the places of a sequence.
LEMMA GreatestBelow ==
  ASSUME NEW m \in Nat \ {0}, NEW f, \A k \in 1 .. m : f[k] \in Nat,
         NEW bound \in Int, \A k \in 1 .. m : f[k] <= bound
  PROVE  Max({f[k] : k \in 1 .. m}) <= bound
<1>1. PICK T : T = {f[k] : k \in 1 .. m}
  OBVIOUS
<1>2. T \in SUBSET Int /\ f[1] \in T
  BY <1>1
<1>3. IsFiniteSet(T)
  BY <1>1, PlacesBefore, ImageFinite
<1>4. Max(T) \in T
  BY <1>2, <1>3, MaxIn
<1>5. \A x \in T : x <= bound
  BY <1>1
<1> QED BY <1>1, <1>4, <1>5

LEMMA RowVerified ==
  ASSUME NEW point, IsStream(stream), InOrder(stream), Accepts(stream), Buildable(stream, point),
         point.time \in Nat, point.side \in PassiveSides, NEW row, row = feature_row(stream, point)
  PROVE  /\ row.maximum_event <= row.cutoff
         /\ row.maximum_available <= row.point.time
         /\ row.cutoff < CoverageEnd
<1>1. PICK n, d : RowBasis(point, n, d)
  BY RowHasBasis
<1>2. PICK u : u = UsedFor(point)
  OBVIOUS
<1>3. PICK p : p = Eligible(stream, point)
  OBVIOUS
<1>4. /\ \A k \in 1 .. n : stream[k].time <= Cutoff(point) /\ stream[k].available <= point.time
      /\ \A k \in 1 .. n - d : u[k].time <= Cutoff(point) /\ u[k].available <= point.time
      /\ IsStream(u) /\ Len(u) = n - d /\ n - d \in Nat \ {0}
  BY <1>1, <1>2, BasisInTime
<1>5. /\ IsStream(p) /\ Len(p) = n /\ \A k \in 1 .. n : p[k] = stream[k]
  BY <1>1, <1>3 DEF RowBasis, IsBeginning
<1>6. row.point = point /\ row.cutoff = Cutoff(point) /\ row.cutoff \in Nat /\ n \in 1 .. Len(stream)
  BY <1>1, RowValues
<1>7. n \in Nat \ {0}
  BY <1>6
<1>8. row.maximum_event <= row.cutoff
  <2>1. PICK f : f = [k \in 1 .. n |-> p[k].time]
    OBVIOUS
  <2>2. \A k \in 1 .. n : f[k] \in Nat /\ f[k] <= row.cutoff
    <3> TAKE k \in 1 .. n
    <3>1. f[k] = p[k].time /\ IsEvent(p[k]) /\ p[k] = stream[k]
      BY <1>5, <2>1 DEF IsStream
    <3> QED BY <1>4, <1>6, <3>1 DEF IsEvent
  <2>3. Max({f[k] : k \in 1 .. n}) <= row.cutoff
    <3>1. PICK c \in Int : c = row.cutoff
      BY <1>6
    <3>2. (\A k \in 1 .. n : f[k] \in Nat) /\ \A k \in 1 .. n : f[k] <= c
      BY <2>2, <3>1
    <3>3. Max({f[k] : k \in 1 .. n}) <= c
      BY <1>7, <3>2, GreatestBelow
    <3> QED BY <3>1, <3>3
  <2>4. {f[k] : k \in 1 .. n} = {p[k].time : k \in DOMAIN p}
    BY <1>5, <2>1 DEF IsStream
  <2>5. row.maximum_event = Max({p[k].time : k \in DOMAIN p})
    BY <1>3 DEF feature_row
  <2> QED BY <2>3, <2>4, <2>5
<1>9. row.maximum_available <= row.point.time
  <2>1. PICK m \in Nat \ {0} : m = n - d
    BY <1>4
  <2>2. PICK f : f = [k \in 1 .. m |-> u[k].available]
    OBVIOUS
  <2>3. \A k \in 1 .. m : f[k] \in Nat /\ f[k] <= point.time
    <3> TAKE k \in 1 .. m
    <3>1. f[k] = u[k].available /\ IsEvent(u[k])
      BY <1>4, <2>1, <2>2 DEF IsStream
    <3> QED BY <1>4, <2>1, <3>1 DEF IsEvent
  <2>4. PICK t \in Int : t = point.time
    OBVIOUS
  <2>5. Max({f[k] : k \in 1 .. m}) <= t
    BY <2>1, <2>3, <2>4, GreatestBelow
  <2>6. {f[k] : k \in 1 .. m} = {u[k].available : k \in DOMAIN u}
    BY <1>4, <2>1, <2>2 DEF IsStream
  <2>7. row.maximum_available = Max({u[k].available : k \in DOMAIN u})
    BY <1>2 DEF feature_row, UsedFor
  <2> QED BY <1>6, <2>4, <2>5, <2>6, <2>7
<1>10. row.cutoff < CoverageEnd
  <2>1. CoverageEnd >= row.cutoff + MaxHorizon
    BY DEF Buildable, HasFuture
  <2>2. CoverageEnd \in Nat
    BY MarketAssumption DEF validate
  <2> QED BY <1>6, <2>1, <2>2, TimesConfigured
<1> QED BY <1>8, <1>9, <1>10

LEMMA TwoRows ==
  ASSUME NEW time, NEW events
  PROVE  Cardinality({[feature |-> feature_row(events, q),
                       label |-> future_label(events, feature_row(events, q))] :
                         q \in PointsAt(time)}) = 2
<1> DEFINE RowAt(q) == [feature |-> feature_row(events, q),
                      label |-> future_label(events, feature_row(events, q))]
           a == [time |-> time, side |-> "bid"]
           b == [time |-> time, side |-> "ask"]
<1>1. PointsAt(time) = {a, b}
  BY DEF PointsAt, PassiveSides
<1>2. {RowAt(q) : q \in PointsAt(time)} = {RowAt(a), RowAt(b)}
  BY <1>1
<1>3. RowAt(a) # RowAt(b)
  <2>1. \A q : RowAt(q).feature.point = q
    BY DEF feature_row
  <2>2. a # b
    <3>1. a.side = "bid" /\ b.side = "ask"
      OBVIOUS
    <3> QED BY <3>1
  <2> HIDE DEF RowAt, a, b
  <2> QED BY <2>1, <2>2
<1> HIDE DEF RowAt, a, b
<1>4. IsFiniteSet({RowAt(a)}) /\ Cardinality({RowAt(a)}) = 1
  BY FS_Singleton
<1>5. Cardinality({RowAt(a)} \cup {RowAt(b)}) = 2
  BY <1>3, <1>4, FS_AddElement
<1>6. {RowAt(a)} \cup {RowAt(b)} = {RowAt(a), RowAt(b)}
  OBVIOUS
<1> QED BY <1>2, <1>5, <1>6 DEF RowAt

LEMMA Causal ==
  ASSUME PredictionInv
  PROVE  FeaturesCausal
<1> SUFFICES ASSUME NEW r \in dataset.rows,
                    NEW n, n = Cardinality({k \in DOMAIN stream :
                                              /\ stream[k].time <= r.feature.cutoff
                                              /\ stream[k].available <= r.feature.point.time}),
                    NEW book, book = BooksOf(stream)[n]
             PROVE  /\ \A k \in 1 .. n : stream[k].available <= r.feature.point.time
                    /\ \A side \in PassiveSides : r.feature.best[side] = BestOf(book, side)
                    /\ r.feature.mid = Mid2(book)
                    /\ verify_prediction_dataset(dataset.rows, 2)
  BY Zenon DEF FeaturesCausal
<1>1. PICK time \in DecisionTimes : \E point \in PointsAt(time) :
        /\ IsStream(stream) /\ InOrder(stream) /\ Accepts(stream)
        /\ dataset.rows = {[feature |-> feature_row(stream, q),
                            label |-> future_label(stream, feature_row(stream, q))] :
                              q \in PointsAt(time)}
        /\ \A q \in PointsAt(time) : Buildable(stream, q) /\ q.time = time /\ q.side \in PassiveSides
        /\ r = [feature |-> feature_row(stream, point),
                label |-> future_label(stream, feature_row(stream, point))]
        /\ time \in Nat
  BY RowsBuilt
<1>2. PICK point \in PointsAt(time) :
        r = [feature |-> feature_row(stream, point),
             label |-> future_label(stream, feature_row(stream, point))]
  BY <1>1
<1>3. PICK row : row = feature_row(stream, point)
  OBVIOUS
<1>4. /\ IsStream(stream) /\ InOrder(stream) /\ Accepts(stream) /\ Buildable(stream, point)
      /\ point.time \in Nat /\ point.side \in PassiveSides
  BY <1>1
<1>5. PICK m, d : RowBasis(point, m, d)
  BY <1>4, RowHasBasis
<1>6. /\ row.point = point /\ row.cutoff = Cutoff(point)
      /\ \A side \in PassiveSides : row.best[side] = BestOf(BooksOf(stream)[m], side)
      /\ row.mid = Mid2(BooksOf(stream)[m])
  BY <1>3, <1>4, <1>5, RowValues
<1>7. r.feature = row
  BY <1>2, <1>3
<1>8. n = m
  <2>1. Known(stream, point) = {k \in DOMAIN stream :
                                  /\ stream[k].time <= r.feature.cutoff
                                  /\ stream[k].available <= r.feature.point.time}
    BY <1>6, <1>7 DEF Known
  <2>2. Cardinality(Known(stream, point)) = m
    BY <1>5 DEF RowBasis
  <2> QED BY <2>1, <2>2
<1>9. \A k \in 1 .. m : stream[k].available <= point.time
  <2>1. PICK u : u = UsedFor(point)
    OBVIOUS
  <2> QED BY <1>4, <1>5, <2>1, BasisInTime
<1>10. verify_prediction_dataset(dataset.rows, 2)
  <2>1. Cardinality(dataset.rows) = 2
    BY <1>1, TwoRows
  <2>2. ASSUME NEW s \in dataset.rows
        PROVE  /\ s.feature.maximum_event <= s.feature.cutoff
               /\ s.feature.maximum_available <= s.feature.point.time
               /\ s.feature.cutoff < CoverageEnd
    <3>1. PICK q \in PointsAt(time) :
            s = [feature |-> feature_row(stream, q),
                 label |-> future_label(stream, feature_row(stream, q))]
      BY <1>1
    <3>2. PICK other : other = feature_row(stream, q)
      OBVIOUS
    <3>3. /\ other.maximum_event <= other.cutoff
          /\ other.maximum_available <= other.point.time
          /\ other.cutoff < CoverageEnd
      <4>1. Buildable(stream, q) /\ q.time \in Nat /\ q.side \in PassiveSides
        BY <1>1
      <4> QED BY <1>4, <3>2, <4>1, RowVerified
    <3>4. s.feature = other
      BY <3>1, <3>2
    <3> QED BY <3>3, <3>4
  <2> QED BY <2>1, <2>2 DEF verify_prediction_dataset
<1> QED BY <1>6, <1>7, <1>8, <1>9, <1>10

-----------------------------------------------------------------------------
(***************************************************************************)
(* Features: one path of the mid.                                          *)
(***************************************************************************)

LEMMA AbsoluteFacts ==
  /\ \A n \in Int : AbsoluteOf(n) \in Nat /\ AbsoluteOf(-n) = AbsoluteOf(n)
  /\ \A a, b, c \in Int : AbsoluteOf(c - a) <= AbsoluteOf(c - b) + AbsoluteOf(b - a)
  /\ AbsoluteOf(0) = 0
  BY DEF AbsoluteOf

\* Fewer summands that are not negative have a smaller sum.
LEMMA SumOfSubset ==
  ASSUME NEW S, IsFiniteSet(S), NEW T \in SUBSET S, NEW f, \A x \in S : f[x] \in Nat
  PROVE  SumFunctionOnSet(f, T) <= SumFunctionOnSet(f, S)
<1>1. PICK g : g = [x \in S |-> IF x \in T THEN f[x] ELSE 0]
  OBVIOUS
<1>2. \A x \in S : g[x] \in Int /\ f[x] \in Int /\ g[x] <= f[x]
  BY <1>1
<1>3. \A x \in S \ T : g[x] = 0
  BY <1>1
<1>4. SumFunctionOnSet(g, S) = SumFunctionOnSet(g, T)
  BY <1>2, <1>3, SumOfRest
<1>5. IsFiniteSet(T) /\ \A x \in T : g[x] = f[x]
  BY <1>1, FS_Subset
<1>6. SumFunctionOnSet(g, T) = SumFunctionOnSet(f, T)
  BY <1>5, SumOfEquals
<1>7. SumFunctionOnSet(g, S) <= SumFunctionOnSet(f, S)
  BY <1>2, SumOfSmaller
<1> QED BY <1>4, <1>6, <1>7

\* The place before a place of a set, and the places on the way between two.
PlaceBefore(B, k) == LET before == {j \in B : j < k} IN IF before = {} THEN k ELSE Max(before)
Along(B, p, b) == {k \in B : p < k /\ k <= b}

LEMMA PlaceBeforeIn ==
  ASSUME NEW n \in Nat, NEW B, B \in SUBSET (1 .. n), NEW b \in B
  PROVE  /\ PlaceBefore(B, b) \in B
         /\ \A p \in B : p < b => /\ p <= PlaceBefore(B, b) /\ PlaceBefore(B, b) < b
                                /\ Along(B, p, b) = Along(B, p, PlaceBefore(B, b)) \cup {b}
                                /\ b \notin Along(B, p, PlaceBefore(B, b))
<1>1. IsFiniteSet(B)
  <2>1. IsFiniteSet(1 .. n)
    BY PlacesBefore
  <2> QED BY <2>1, FS_Subset
<1>2. B \in SUBSET Int
  OBVIOUS
<1>3. PICK before : before = {j \in B : j < b}
  OBVIOUS
<1>4. before \in SUBSET B
  BY <1>3
<1>5. IsFiniteSet(before) /\ before \in SUBSET Int
  BY <1>1, <1>2, <1>4, FS_Subset
<1>6. PICK c : c = PlaceBefore(B, b)
  OBVIOUS
<1>7. c = IF before = {} THEN b ELSE Max(before)
  BY <1>3, <1>6 DEF PlaceBefore
<1>8. CASE before = {}
  BY <1>3, <1>6, <1>7, <1>8
<1>9. CASE before # {}
  <2>1. c \in before /\ \A y \in before : c >= y
    BY <1>5, <1>7, <1>9, MaxIn
  <2>2. c \in B /\ c < b
    BY <1>3, <2>1
  <2>3. ASSUME NEW p \in B, p < b
        PROVE  p <= c /\ Along(B, p, b) = Along(B, p, c) \cup {b} /\ b \notin Along(B, p, c)
    <3>1. p \in Int /\ b \in Int /\ c \in Int
      BY <1>2, <2>2
    <3>2. p <= c
      <4>1. c >= p
        BY <1>3, <2>1, <2>3
      <4> QED BY <3>1, <4>1
    <3>3. \A k \in B : (p < k /\ k <= b) <=> ((p < k /\ k <= c) \/ k = b)
      <4> TAKE k \in B
      <4>1. k \in Int
        BY <1>2
      <4>2. k < b => c >= k
        BY <1>3, <2>1
      <4> QED BY <2>2, <2>3, <3>1, <4>1, <4>2
    <3>4. ~ (b <= c)
      BY <2>2, <3>1
    <3> QED BY <3>2, <3>3, <3>4 DEF Along
  <2> QED BY <1>6, <2>2, <2>3
<1> QED BY <1>8, <1>9

\* The lengths of the steps of a path.
StepsOf(m, f, B) == \A k \in B : f[k] = AbsoluteOf(m[k] - m[PlaceBefore(B, k)])
Farther(m, f, B, p) ==
  {b \in B : p <= b /\ ~ (AbsoluteOf(m[b] - m[p]) <= SumFunctionOnSet(f, Along(B, p, b)))}

LEMMA StepsType ==
  ASSUME NEW n \in Nat, NEW B, B \in SUBSET (1 .. n), NEW m, \A k \in B : m[k] \in Int,
         NEW f, StepsOf(m, f, B)
  PROVE  \A k \in B : f[k] \in Nat
<1> TAKE k \in B
<1>1. PICK c : c = PlaceBefore(B, k)
  OBVIOUS
<1>2. c \in B
  BY <1>1, PlaceBeforeIn
<1>3. PICK x \in Int : x = m[k]
  OBVIOUS
<1>4. PICK y \in Int : y = m[c]
  BY <1>2
<1>5. f[k] = AbsoluteOf(x - y)
  BY <1>1, <1>3, <1>4 DEF StepsOf
<1>6. x - y \in Int
  OBVIOUS
<1> QED BY <1>5, <1>6, AbsoluteFacts

\* From one place of a path to a later one it is no farther than along the path.
LEMMA PathIsLonger ==
  ASSUME NEW n \in Nat, NEW B, B \in SUBSET (1 .. n), NEW m, \A k \in B : m[k] \in Int,
         NEW f, StepsOf(m, f, B), NEW p \in B
  PROVE  Farther(m, f, B, p) = {}
<1> SUFFICES ASSUME Farther(m, f, B, p) # {} PROVE FALSE
  OBVIOUS
<1>1. B \in SUBSET Nat
  OBVIOUS
<1>2. Farther(m, f, B, p) \in SUBSET Nat
  BY <1>1 DEF Farther
<1>3. PICK b \in Farther(m, f, B, p) : \A c \in Farther(m, f, B, p) : b <= c
  BY <1>2, LeastNatural
<1>4. IsFiniteSet(B)
  <2>1. IsFiniteSet(1 .. n)
    BY PlacesBefore
  <2> QED BY <2>1, FS_Subset
<1>5. b \in B /\ p <= b /\ b \in Nat /\ p \in Nat
      /\ ~ (AbsoluteOf(m[b] - m[p]) <= SumFunctionOnSet(f, Along(B, p, b)))
  BY <1>1, <1>3 DEF Farther
<1>6. CASE b = p
  <2>1. Along(B, p, b) = {}
    <3>1. ASSUME NEW k \in B PROVE ~ (p < k /\ k <= b)
      <4>1. k \in Nat
        BY <1>1
      <4> QED BY <1>5, <1>6, <4>1
    <3> QED BY <3>1 DEF Along
  <2>2. SumFunctionOnSet(f, Along(B, p, b)) = 0
    BY <2>1, SumOfNone
  <2>3. PICK x \in Int : x = m[b] /\ x = m[p]
    BY <1>6
  <2>4. x - x = 0
    OBVIOUS
  <2>5. AbsoluteOf(m[b] - m[p]) = 0
    BY <2>3, <2>4, AbsoluteFacts
  <2> QED BY <1>5, <2>2, <2>5
<1>7. CASE b # p
  <2>1. p < b
    BY <1>5, <1>7
  <2>2. PICK c : c = PlaceBefore(B, b)
    OBVIOUS
  <2>3. /\ c \in B /\ p <= c /\ c < b
        /\ Along(B, p, b) = Along(B, p, c) \cup {b} /\ b \notin Along(B, p, c)
    BY <1>5, <2>1, <2>2, PlaceBeforeIn
  <2>4. c \in Nat /\ ~ (b <= c)
    BY <1>1, <1>5, <2>3
  <2>5. c \notin Farther(m, f, B, p)
    BY <1>3, <2>4
  <2>6. AbsoluteOf(m[c] - m[p]) <= SumFunctionOnSet(f, Along(B, p, c))
    BY <2>3, <2>5 DEF Farther
  <2>7. \A k \in B : f[k] \in Int
    <3>1. \A k \in B : f[k] \in Nat
      BY StepsType, Zenon
    <3> QED BY <3>1
  <2>8. Along(B, p, c) \in SUBSET B
    BY DEF Along
  <2>9. PICK A : A = Along(B, p, c)
    OBVIOUS
  <2>10. IsFiniteSet(A)
    BY <1>4, <2>8, <2>9, FS_Subset
  <2>11. SumFunctionOnSet(f, A) \in Int
    BY <2>7, <2>8, <2>9, <2>10, SumIsInt
  <2>12. SumFunctionOnSet(f, A \cup {b}) = f[b] + SumFunctionOnSet(f, A)
    <3>1. \A x \in A \cup {b} : f[x] \in Int
      BY <1>5, <2>7, <2>8, <2>9
    <3> QED BY <2>3, <2>9, <2>10, <3>1, SumWith
  <2>13. PICK x, y, z \in Int : x = m[b] /\ y = m[c] /\ z = m[p]
    BY <1>5, <2>3
  <2>14. f[b] = AbsoluteOf(x - y)
    BY <1>5, <2>2, <2>13 DEF StepsOf
  <2>15. x - z \in Int /\ x - y \in Int /\ y - z \in Int
    OBVIOUS
  <2>16. /\ AbsoluteOf(x - z) <= AbsoluteOf(x - y) + AbsoluteOf(y - z)
         /\ AbsoluteOf(x - z) \in Nat /\ AbsoluteOf(x - y) \in Nat /\ AbsoluteOf(y - z) \in Nat
    BY <2>15, AbsoluteFacts
  <2>17. PICK sum \in Int : sum = SumFunctionOnSet(f, A)
    BY <2>11
  <2>18. AbsoluteOf(y - z) <= sum /\ ~ (AbsoluteOf(x - z) <= AbsoluteOf(x - y) + sum)
    BY <1>5, <2>3, <2>6, <2>9, <2>12, <2>13, <2>14, <2>17
  <2> QED BY <2>16, <2>18
<1> QED BY <1>6, <1>7

\* A history that a decision can use.
IsHistory(u, cutoff) ==
  /\ IsStream(u) /\ InOrder(u) /\ HasHistory(u, cutoff) /\ cutoff \in Nat
  /\ \A k \in 1 .. Len(u) : u[k].time <= cutoff

LEMMA HistoryBooks ==
  ASSUME NEW u, NEW cutoff, IsHistory(u, cutoff)
  PROVE  /\ Len(u) \in Nat /\ DOMAIN u = 1 .. Len(u) /\ BookEvents(u) \in SUBSET (1 .. Len(u))
         /\ IsFiniteSet(BookEvents(u)) /\ BookEvents(u) # {} /\ BookEvents(u) \in SUBSET Nat
         /\ \A k \in BookEvents(u) :
              /\ BooksOf(u)[k] \in Books /\ Standing(BooksOf(u)[k]) /\ Mid2(BooksOf(u)[k]) \in Int
              /\ u[k].time \in Nat /\ u[k].time <= cutoff
<1>1. Len(u) \in Nat /\ DOMAIN u = 1 .. Len(u)
  BY DEF IsHistory, IsStream
<1>2. BookEvents(u) \in SUBSET (1 .. Len(u))
  BY <1>1 DEF BookEvents
<1>3. IsFiniteSet(BookEvents(u))
  <2>1. IsFiniteSet(1 .. Len(u))
    BY <1>1, PlacesBefore
  <2> QED BY <1>2, <2>1, FS_Subset
<1>4. BookEvents(u) # {}
  BY DEF IsHistory, HasHistory
<1>5. BookEvents(u) \in SUBSET Nat
  BY <1>2
<1>6. ASSUME NEW k \in BookEvents(u)
      PROVE  /\ BooksOf(u)[k] \in Books /\ Standing(BooksOf(u)[k]) /\ Mid2(BooksOf(u)[k]) \in Int
             /\ u[k].time \in Nat /\ u[k].time <= cutoff
  <2>1. k \in 1 .. Len(u) /\ k \in 0 .. Len(u)
    BY <1>1, <1>2
  <2>2. PICK book \in Books : book = BooksOf(u)[k]
    BY <2>1, BooksType DEF IsHistory
  <2>3. Standing(book)
    BY <2>2 DEF IsHistory, HasHistory, Replayable
  <2>4. BestOf(book, "bid") \in Nat \ {0} /\ BestOf(book, "ask") \in Nat \ {0}
    BY <2>3, BestFacts DEF PassiveSides
  <2>5. Mid2(book) \in Int
    BY <2>4 DEF Mid2
  <2> QED BY <2>1, <2>2, <2>3, <2>5 DEF IsHistory, IsStream, IsEvent
<1> QED BY <1>1, <1>2, <1>3, <1>4, <1>5, <1>6

\* The way of the mid within a window.
LEMMA WayOfWindow ==
  ASSUME NEW u, NEW cutoff, IsHistory(u, cutoff), NEW i \in DOMAIN Windows,
         NEW start, start = cutoff - Windows[i],
         NEW x, x = Mid2(BooksOf(u)[Len(u)]), NEW y, y = Mid2(BooksOf(u)[PastOf(u, start)])
  PROVE  x \in Int /\ y \in Int /\ AbsoluteOf(x - y) <= RealizedMove(u, start)
<1>1. PICK B : B = BookEvents(u)
  OBVIOUS
<1>2. /\ Len(u) \in Nat /\ DOMAIN u = 1 .. Len(u) /\ B \in SUBSET (1 .. Len(u))
      /\ IsFiniteSet(B) /\ B # {} /\ B \in SUBSET Nat
      /\ \A k \in B : Mid2(BooksOf(u)[k]) \in Int /\ u[k].time \in Nat /\ u[k].time <= cutoff
  BY <1>1, HistoryBooks
<1>3. PICK s \in Int : s = start
  BY TimesConfigured DEF IsHistory
<1>4. PICK b : b = Max(B)
  OBVIOUS
<1>5. b \in B /\ (\A k \in B : k <= b) /\ BooksOf(u)[Len(u)] = BooksOf(u)[b]
  BY <1>1, <1>2, <1>4, LastBookEvent DEF IsHistory
<1>6. PICK before : before = {k \in B : u[k].time <= s}
  OBVIOUS
<1>7. before # {}
  <2>1. Min(B) \in B
    BY <1>2, MinOf
  <2>2. u[Min(B)].time <= cutoff - MaxWindow
    BY <1>1 DEF IsHistory, HasHistory
  <2>3. PICK t \in Nat : t = u[Min(B)].time
    BY <1>2, <2>1
  <2>4. t <= s
    <3>1. PICK c \in Nat : c = cutoff
      BY DEF IsHistory
    <3>2. PICK most \in Nat : most = MaxWindow
      BY TimesConfigured
    <3>3. PICK w \in Nat : w = Windows[i] /\ w <= most
      BY <3>2, TimesConfigured
    <3>4. s = c - w /\ t <= c - most
      BY <1>3, <2>2, <2>3, <3>1, <3>2, <3>3
    <3> QED BY <3>3, <3>4
  <2> QED BY <1>6, <2>1, <2>3, <2>4
<1>8. before \in SUBSET B /\ IsFiniteSet(before) /\ before \in SUBSET Int
  <2>1. before \in SUBSET B
    BY <1>6
  <2>2. IsFiniteSet(before)
    BY <1>2, <2>1, FS_Subset
  <2> QED BY <1>2, <2>1, <2>2
<1>9. PICK p : p = Max(before)
  OBVIOUS
<1>10. p \in before /\ \A k \in before : p >= k
  BY <1>7, <1>8, <1>9, MaxIn
<1>11. p \in B /\ p <= b /\ u[p].time <= s
  BY <1>5, <1>6, <1>8, <1>10
<1>12. PastOf(u, start) = p
  BY <1>1, <1>3, <1>6, <1>7, <1>9 DEF PastOf
<1>13. PICK m : m = [k \in B |-> Mid2(BooksOf(u)[k])]
  OBVIOUS
<1>14. (\A k \in B : m[k] \in Int) /\ x = m[b] /\ y = m[p]
  BY <1>2, <1>5, <1>11, <1>12, <1>13
<1>15. PICK f : f = [k \in B |-> AbsoluteOf(Mid2(BooksOf(u)[k]) - Mid2(BooksOf(u)[PreviousOf(u, k)]))]
  OBVIOUS
<1>16. StepsOf(m, f, B)
  <2>1. ASSUME NEW k \in B
        PROVE  f[k] = AbsoluteOf(m[k] - m[PlaceBefore(B, k)])
    <3>1. PreviousOf(u, k) = PlaceBefore(B, k)
      BY <1>1 DEF PreviousOf, PlaceBefore
    <3>2. PICK c : c = PlaceBefore(B, k)
      OBVIOUS
    <3>3. c \in B
      BY <1>2, <3>2, PlaceBeforeIn
    <3>4. m[c] = Mid2(BooksOf(u)[c]) /\ m[k] = Mid2(BooksOf(u)[k])
      BY <1>13, <3>3
    <3>5. f[k] = AbsoluteOf(Mid2(BooksOf(u)[k]) - Mid2(BooksOf(u)[c]))
      BY <1>15, <3>1, <3>2
    <3> QED BY <3>2, <3>4, <3>5
  <2> QED BY <2>1 DEF StepsOf
<1>17. Farther(m, f, B, p) = {}
  BY <1>2, <1>11, <1>14, <1>16, PathIsLonger
<1>18. AbsoluteOf(m[b] - m[p]) <= SumFunctionOnSet(f, Along(B, p, b))
  BY <1>5, <1>11, <1>17 DEF Farther
<1>19. Along(B, p, b) = {k \in B : s < u[k].time}
  <2>1. ASSUME NEW k \in B
        PROVE  (p < k /\ k <= b) <=> s < u[k].time
    <3>1. k \in Nat /\ p \in Nat /\ k <= b /\ u[k].time \in Nat /\ u[p].time \in Nat
      BY <1>2, <1>5, <1>11
    <3>2. s < u[k].time <=> k \notin before
      <4>1. PICK t \in Nat : t = u[k].time
        BY <3>1
      <4>2. s < t <=> ~ (t <= s)
        OBVIOUS
      <4> QED BY <1>6, <4>1, <4>2
    <3>3. k <= p => k \in before
      <4> SUFFICES ASSUME k <= p PROVE k \in before
        OBVIOUS
      <4>1. k \in 1 .. Len(u) /\ p \in 1 .. Len(u)
        BY <1>2, <1>11
      <4>2. u[k].time <= u[p].time
        BY <4>1 DEF IsHistory, InOrder
      <4>3. u[k].time <= s
        BY <1>11, <3>1, <4>2, Within, Zenon
      <4> QED BY <1>6, <4>3
    <3>4. k \in before => p >= k
      BY <1>10
    <3> QED BY <3>1, <3>2, <3>3, <3>4
  <2> QED BY <2>1 DEF Along
<1>20. RealizedMove(u, start) = SumFunctionOnSet(f, {k \in B : s < u[k].time})
  BY <1>1, <1>3, <1>15 DEF RealizedMove
<1> QED BY <1>5, <1>11, <1>14, <1>18, <1>19, <1>20

\* A longer window sees no less.
LEMMA WiderWindow ==
  ASSUME NEW u, NEW cutoff, IsHistory(u, cutoff), NEW a \in Int, NEW b \in Int, b <= a
  PROVE  /\ RealizedMove(u, a) <= RealizedMove(u, b)
         /\ Cardinality(TradesIn(u, a, cutoff)) <= Cardinality(TradesIn(u, b, cutoff))
<1>1. PICK B : B = BookEvents(u)
  OBVIOUS
<1>2. /\ Len(u) \in Nat /\ DOMAIN u = 1 .. Len(u) /\ B \in SUBSET (1 .. Len(u)) /\ IsFiniteSet(B)
      /\ \A k \in B : Mid2(BooksOf(u)[k]) \in Int /\ u[k].time \in Nat
  BY <1>1, HistoryBooks
<1>3. \A k \in 1 .. Len(u) : u[k].time \in Nat
  BY DEF IsHistory, IsStream, IsEvent
<1>4. ASSUME NEW t \in Nat, a < t PROVE b < t
  BY <1>4
<1>5. PICK f : f = [k \in B |-> AbsoluteOf(Mid2(BooksOf(u)[k]) - Mid2(BooksOf(u)[PreviousOf(u, k)]))]
  OBVIOUS
<1>6. \A k \in B : f[k] \in Nat
  <2> TAKE k \in B
  <2>1. PICK c : c = PlaceBefore(B, k)
    OBVIOUS
  <2>2. c \in B /\ PreviousOf(u, k) = c
    <3>1. c \in B
      BY <1>2, <2>1, PlaceBeforeIn
    <3> QED BY <1>1, <2>1, <3>1 DEF PreviousOf, PlaceBefore
  <2>3. PICK x \in Int : x = Mid2(BooksOf(u)[k])
    BY <1>2
  <2>4. PICK y \in Int : y = Mid2(BooksOf(u)[c])
    BY <1>2, <2>2
  <2>5. f[k] = AbsoluteOf(x - y) /\ x - y \in Int
    BY <1>5, <2>2, <2>3, <2>4
  <2> QED BY <2>5, AbsoluteFacts
<1>7. PICK S : S = {k \in B : b < u[k].time}
  OBVIOUS
<1>8. PICK T : T = {k \in B : a < u[k].time}
  OBVIOUS
<1>9. T \in SUBSET S /\ S \in SUBSET B
  BY <1>2, <1>4, <1>7, <1>8
<1>10. IsFiniteSet(S) /\ \A k \in S : f[k] \in Nat
  BY <1>2, <1>6, <1>9, FS_Subset
<1>11. SumFunctionOnSet(f, T) <= SumFunctionOnSet(f, S)
  BY <1>9, <1>10, SumOfSubset
<1>12. RealizedMove(u, a) <= RealizedMove(u, b)
  BY <1>1, <1>5, <1>7, <1>8, <1>11 DEF RealizedMove
<1>13. TradesIn(u, a, cutoff) \in SUBSET TradesIn(u, b, cutoff)
  BY <1>2, <1>3, <1>4 DEF TradesIn
<1>14. IsFiniteSet(TradesIn(u, b, cutoff))
  <2>1. IsFiniteSet(1 .. Len(u))
    BY <1>2, PlacesBefore
  <2>2. TradesIn(u, b, cutoff) \in SUBSET (1 .. Len(u))
    BY <1>2 DEF TradesIn
  <2> QED BY <2>1, <2>2, FS_Subset
<1>15. Cardinality(TradesIn(u, a, cutoff)) <= Cardinality(TradesIn(u, b, cutoff))
  BY <1>13, <1>14, FS_Subset
<1> QED BY <1>12, <1>15

LEMMA QuoteOfPast ==
  ASSUME NEW u, NEW cutoff, IsHistory(u, cutoff), NEW side
  PROVE  cutoff - QuoteSince(u, side) >= 0
<1>1. PICK B : B = BookEvents(u)
  OBVIOUS
<1>2. /\ B \in SUBSET Nat /\ B # {}
      /\ \A k \in B : u[k].time \in Nat /\ u[k].time <= cutoff
  BY <1>1, HistoryBooks
<1>3. PICK b : b = Max(B)
  OBVIOUS
<1>4. b \in B /\ (\A k \in B : k <= b) /\ BooksOf(u)[Len(u)] = BooksOf(u)[b]
  BY <1>1, <1>2, <1>3, LastBookEvent DEF IsHistory
<1>5. PICK T : T = {k \in B : \A j \in B : j >= k =>
                      BestOf(BooksOf(u)[j], side) = BestOf(BooksOf(u)[Len(u)], side)}
  OBVIOUS
<1>6. b \in T
  <2>1. ASSUME NEW j \in B, j >= b PROVE j = b
    <3>1. j \in Nat /\ b \in Nat /\ j <= b
      BY <1>2, <1>4
    <3> QED BY <2>1, <3>1
  <2> QED BY <1>4, <1>5, <2>1
<1>7. T \in SUBSET Nat
  BY <1>2, <1>5
<1>8. Min(T) \in B
  <2>1. Min(T) \in T
    BY <1>6, <1>7, MinOf
  <2> QED BY <1>5, <2>1
<1>9. QuoteSince(u, side) = u[Min(T)].time
  BY <1>1, <1>5 DEF QuoteSince
<1>10. PICK t \in Nat : t = QuoteSince(u, side)
  BY <1>2, <1>8, <1>9
<1>11. PICK c \in Nat : c = cutoff
  BY DEF IsHistory
<1>12. t <= c
  BY <1>2, <1>8, <1>9, <1>10, <1>11
<1>13. c - t >= 0
  BY <1>12
<1> QED BY <1>10, <1>11, <1>13

LEMMA FeaturesOnePath ==
  ASSUME NEW u, NEW cutoff, IsHistory(u, cutoff), NEW side \in PassiveSides,
         NEW f, f = Features(u, side, cutoff)
  PROVE  /\ \A i \in DOMAIN Windows : AbsoluteOf(f.move[i]) <= f.realized[i]
         /\ \A i, j \in DOMAIN Windows : i < j => f.realized[i] <= f.realized[j] /\ f.count[i] <= f.count[j]
         /\ f.quote_age >= 0
<1>1. /\ f.move = [i \in DOMAIN Windows |->
                     SideSign(side) * (Mid2(BooksOf(u)[Len(u)])
                                        - Mid2(BooksOf(u)[PastOf(u, cutoff - Windows[i])]))]
      /\ f.realized = [i \in DOMAIN Windows |-> RealizedMove(u, cutoff - Windows[i])]
      /\ f.count = [i \in DOMAIN Windows |-> Cardinality(TradesIn(u, cutoff - Windows[i], cutoff))]
      /\ f.quote_age = cutoff - QuoteSince(u, side)
  BY DEF Features
<1>2. ASSUME NEW i \in DOMAIN Windows
      PROVE  AbsoluteOf(f.move[i]) <= f.realized[i]
  <2>1. PICK start : start = cutoff - Windows[i]
    OBVIOUS
  <2>2. PICK x : x = Mid2(BooksOf(u)[Len(u)])
    OBVIOUS
  <2>3. PICK y : y = Mid2(BooksOf(u)[PastOf(u, start)])
    OBVIOUS
  <2>4. x \in Int /\ y \in Int /\ AbsoluteOf(x - y) <= RealizedMove(u, start)
    BY <2>1, <2>2, <2>3, WayOfWindow
  <2>5. f.move[i] = SideSign(side) * (x - y) /\ f.realized[i] = RealizedMove(u, start)
    BY <1>1, <2>1, <2>2, <2>3
  <2>6. PICK z \in Int : z = x - y
    BY <2>4
  <2>7. SideSign(side) * z = z \/ SideSign(side) * z = -z
    BY <2>6 DEF SideSign
  <2>8. AbsoluteOf(SideSign(side) * z) = AbsoluteOf(z)
    BY <2>6, <2>7, AbsoluteFacts
  <2> QED BY <2>4, <2>5, <2>6, <2>8
<1>3. ASSUME NEW i \in DOMAIN Windows, NEW j \in DOMAIN Windows, i < j
      PROVE  f.realized[i] <= f.realized[j] /\ f.count[i] <= f.count[j]
  <2>1. Windows[i] < Windows[j] /\ Windows[i] \in Nat /\ Windows[j] \in Nat
    BY <1>3, TimesConfigured
  <2>2. PICK a, b \in Int : a = cutoff - Windows[i] /\ b = cutoff - Windows[j] /\ b <= a
    BY <2>1 DEF IsHistory
  <2>3. /\ RealizedMove(u, a) <= RealizedMove(u, b)
        /\ Cardinality(TradesIn(u, a, cutoff)) <= Cardinality(TradesIn(u, b, cutoff))
    BY <2>2, WiderWindow
  <2> QED BY <1>1, <2>2, <2>3
<1>4. f.quote_age >= 0
  BY <1>1, QuoteOfPast
<1> QED BY <1>2, <1>3, <1>4

\* The features of a row are of a history that ends at its cutoff.
LEMMA RowFeatures ==
  ASSUME PredictionInv, NEW r \in dataset.rows, NEW point, point = r.feature.point
  PROVE  /\ point.time \in Nat /\ point.side \in PassiveSides
         /\ IsHistory(UsedFor(point), Cutoff(point))
         /\ r.feature.features = Features(UsedFor(point), point.side, Cutoff(point))
<1>1. PICK time \in DecisionTimes : \E q \in PointsAt(time) :
        /\ IsStream(stream) /\ InOrder(stream) /\ Accepts(stream)
        /\ \A p \in PointsAt(time) : Buildable(stream, p) /\ p.time = time /\ p.side \in PassiveSides
        /\ r = [feature |-> feature_row(stream, q),
                label |-> future_label(stream, feature_row(stream, q))]
        /\ time \in Nat
  BY RowsBuilt
<1>2. PICK q \in PointsAt(time) :
        r = [feature |-> feature_row(stream, q),
             label |-> future_label(stream, feature_row(stream, q))]
  BY <1>1
<1>3. PICK row : row = feature_row(stream, q)
  OBVIOUS
<1>4. /\ IsStream(stream) /\ InOrder(stream) /\ Accepts(stream) /\ Buildable(stream, q)
      /\ q.time \in Nat /\ q.side \in PassiveSides
  BY <1>1
<1>5. PICK n, d : RowBasis(q, n, d)
  BY <1>4, RowHasBasis
<1>6. /\ row.point = q /\ row.cutoff = Cutoff(q) /\ row.cutoff \in Nat
      /\ row.features = Features(UsedFor(q), q.side, Cutoff(q))
  BY <1>3, <1>4, <1>5, RowValues
<1>7. r.feature = row
  BY <1>2, <1>3
<1>8. point = q
  BY <1>6, <1>7
<1>9. PICK u : u = UsedFor(q)
  OBVIOUS
<1>10. /\ \A k \in 1 .. n - d : u[k].time <= Cutoff(q)
       /\ InOrder(u) /\ IsStream(u) /\ Len(u) = n - d
  BY <1>4, <1>5, <1>9, BasisInTime
<1>11. HasHistory(u, Cutoff(q))
  BY <1>4, <1>9 DEF Buildable, UsedFor
<1>12. IsHistory(u, Cutoff(q))
  BY <1>6, <1>10, <1>11 DEF IsHistory
<1> QED BY <1>4, <1>6, <1>7, <1>8, <1>9, <1>12

LEMMA PathOfRows ==
  ASSUME PredictionInv
  PROVE  OnePath
<1>1. ASSUME NEW r \in dataset.rows, NEW f, f = r.feature.features
      PROVE  /\ \A i \in DOMAIN Windows : AbsoluteOf(f.move[i]) <= f.realized[i]
             /\ \A i, j \in DOMAIN Windows : i < j => f.realized[i] <= f.realized[j] /\ f.count[i] <= f.count[j]
             /\ f.quote_age >= 0
  <2>1. PICK point : point = r.feature.point
    OBVIOUS
  <2>2. /\ point.side \in PassiveSides /\ IsHistory(UsedFor(point), Cutoff(point))
        /\ f = Features(UsedFor(point), point.side, Cutoff(point))
    BY <1>1, <2>1, RowFeatures
  <2>3. PICK u : u = UsedFor(point)
    OBVIOUS
  <2>4. PICK cutoff : cutoff = Cutoff(point)
    OBVIOUS
  <2> QED BY <2>2, <2>3, <2>4, FeaturesOnePath
<1> QED BY <1>1 DEF OnePath

-----------------------------------------------------------------------------
(***************************************************************************)
(* Features: the two sides of one market.                                  *)
(***************************************************************************)

LEMMA OtherSides ==
  /\ \A side \in PassiveSides : /\ OtherSide(side) \in PassiveSides /\ OtherSide(OtherSide(side)) = side
                                /\ SideSign(side) \in {1, -1} /\ SideSign(OtherSide(side)) = -SideSign(side)
                                /\ (side = "bid") <=> ~ (OtherSide(side) = "bid")
  /\ \A side, other \in PassiveSides : side # other => other = OtherSide(side)
<1>1. OtherSide("bid") = "ask" /\ OtherSide("ask") = "bid" /\ "bid" # "ask"
  BY DEF OtherSide
<1>2. SideSign("bid") = 1 /\ SideSign("ask") = -1
  BY DEF SideSign
<1>3. ASSUME NEW side \in PassiveSides
      PROVE  /\ OtherSide(side) \in PassiveSides /\ OtherSide(OtherSide(side)) = side
             /\ SideSign(side) \in {1, -1} /\ SideSign(OtherSide(side)) = -SideSign(side)
             /\ (side = "bid") <=> ~ (OtherSide(side) = "bid")
  <2>1. CASE side = "bid"
    BY <1>1, <1>2, <2>1 DEF PassiveSides
  <2>2. CASE side = "ask"
    BY <1>1, <1>2, <2>2 DEF PassiveSides
  <2> QED BY <2>1, <2>2 DEF PassiveSides
<1>4. \A side, other \in PassiveSides : side # other => other = OtherSide(side)
  BY <1>1 DEF PassiveSides
<1> QED BY <1>3, <1>4

\* The best level is among the best levels, and holds lots.
LEMMA TopLotsPositive ==
  ASSUME NEW book \in Books, Standing(book), NEW side \in PassiveSides, NEW n \in Nat \ {0}
  PROVE  TopLots(book, side, n) \in Nat \ {0}
<1>1. PICK best : best = BestOf(book, side)
  OBVIOUS
<1>2. /\ best \in Quoted(book, side) /\ book[<<side, best>>] \in Nat \ {0}
      /\ \A q \in Quoted(book, side) : ~ Behind(side, q, best)
  BY <1>1, BestFacts
<1>3. PICK f : f = [p \in Prices |-> book[<<side, p>>]]
  OBVIOUS
<1>4. PICK S : S = {p \in Quoted(book, side) :
                      Cardinality({q \in Quoted(book, side) : Behind(side, q, p)}) < n}
  OBVIOUS
<1>5. best \in S
  <2>1. {q \in Quoted(book, side) : Behind(side, q, best)} = {}
    BY <1>2
  <2>2. Cardinality({q \in Quoted(book, side) : Behind(side, q, best)}) = 0
    BY <2>1, FS_EmptySet
  <2> QED BY <1>2, <1>4, <2>2
<1>6. S \in SUBSET Prices /\ IsFiniteSet(S)
  <2>1. S \in SUBSET Prices
    BY <1>4 DEF Quoted
  <2>2. IsFiniteSet(Prices)
    BY MarketAssumption DEF validate
  <2> QED BY <2>1, <2>2, FS_Subset
<1>7. \A p \in S : f[p] \in Nat
  <2> TAKE p \in S
  <2>1. p \in Prices /\ <<side, p>> \in Levels
    BY <1>6 DEF Levels
  <2>2. book[<<side, p>>] \in Nat
    BY <2>1 DEF Books
  <2> QED BY <1>3, <2>1, <2>2
<1>8. SumFunctionOnSet(f, S) \in Nat /\ f[best] <= SumFunctionOnSet(f, S)
  BY <1>5, <1>6, <1>7, SumBoundsSummand
<1>9. f[best] \in Nat \ {0}
  BY <1>2, <1>3, <1>5, <1>6
<1>10. PICK total \in Nat : total = SumFunctionOnSet(f, S) /\ f[best] <= total
  BY <1>8
<1>11. total # 0
  BY <1>9, <1>10
<1>12. TopLots(book, side, n) = total
  BY <1>3, <1>4, <1>10 DEF TopLots
<1> QED BY <1>11, <1>12

\* Rounding towards zero treats both signs alike.
LEMMA RatioMirrors ==
  ASSUME NEW a \in Nat \ {0}, NEW b \in Nat \ {0}
  PROVE  /\ trunc_ratio(10000 * (a - b), a + b) = -trunc_ratio(10000 * (b - a), b + a)
         /\ trunc_ratio(10000 * (a - b), a + b) \in Int
<1>1. PICK z \in Int : z = 10000 * (a - b)
  OBVIOUS
<1>2. 10000 * (b - a) = -z
  BY <1>1
<1>3. PICK d \in Nat \ {0} : d = a + b /\ d = b + a
  OBVIOUS
<1>4. PICK m \in Nat : m = AbsoluteOf(z) /\ m = AbsoluteOf(-z)
  BY AbsoluteFacts
<1>5. PICK q \in Nat : q = m \div d
  BY <1>4
<1>6. trunc_ratio(z, d) = (IF z < 0 THEN -1 ELSE 1) * q
  BY <1>4, <1>5 DEF trunc_ratio
<1>7. trunc_ratio(-z, d) = (IF -z < 0 THEN -1 ELSE 1) * q
  BY <1>4, <1>5 DEF trunc_ratio
<1>8. z = 0 => q = 0
  <2> SUFFICES ASSUME z = 0 PROVE q = 0
    OBVIOUS
  <2>1. m = 0
    BY <1>4 DEF AbsoluteOf
  <2>2. 0 \div d = 0
    BY <1>3
  <2> QED BY <1>5, <2>1, <2>2
<1>9. trunc_ratio(z, d) = -trunc_ratio(-z, d) /\ trunc_ratio(z, d) \in Int
  <2>1. CASE z < 0
    <3>1. ~ (-z < 0)
      BY <2>1
    <3> QED BY <1>6, <1>7, <2>1, <3>1
  <2>2. CASE z = 0
    BY <1>6, <1>7, <1>8, <2>2
  <2>3. CASE z > 0
    <3>1. -z < 0 /\ ~ (z < 0)
      BY <2>3
    <3> QED BY <1>6, <1>7, <3>1
  <2> QED BY <2>1, <2>2, <2>3
<1> QED BY <1>1, <1>2, <1>3, <1>9

LEMMA ImbalanceMirrors ==
  ASSUME NEW book \in Books, Standing(book), NEW side \in PassiveSides, NEW n \in Nat \ {0}
  PROVE  Imbalance(book, side, n) = -Imbalance(book, OtherSide(side), n)
<1>1. OtherSide(side) \in PassiveSides /\ OtherSide(OtherSide(side)) = side
  BY OtherSides
<1>2. PICK a \in Nat \ {0} : a = TopLots(book, side, n)
  BY TopLotsPositive
<1>3. PICK b \in Nat \ {0} : b = TopLots(book, OtherSide(side), n)
  BY <1>1, TopLotsPositive
<1>4. Imbalance(book, side, n) = trunc_ratio(10000 * (a - b), a + b)
  BY <1>2, <1>3 DEF Imbalance
<1>5. Imbalance(book, OtherSide(side), n) = trunc_ratio(10000 * (b - a), b + a)
  BY <1>1, <1>2, <1>3 DEF Imbalance
<1> QED BY <1>4, <1>5, RatioMirrors

LEMMA SumOfNegated ==
  ASSUME NEW S, IsFiniteSet(S), NEW f, NEW g, \A x \in S : f[x] \in Int /\ g[x] = -f[x]
  PROVE  SumFunctionOnSet(f, S) \in Int /\ SumFunctionOnSet(g, S) = -SumFunctionOnSet(f, S)
<1> DEFINE Bad == {T \in SUBSET S : SumFunctionOnSet(g, T) # -SumFunctionOnSet(f, T)}
<1>1. \A T \in SUBSET S : IsFiniteSet(T) /\ SumFunctionOnSet(f, T) \in Int
  <2> TAKE T \in SUBSET S
  <2>1. IsFiniteSet(T) /\ \A x \in T : f[x] \in Int
    BY FS_Subset
  <2> QED BY <2>1, SumIsInt
<1>2. ASSUME Bad # {}
      PROVE  FALSE
  <2>1. PICK T \in Bad : \A x \in T : T \ {x} \notin Bad
    <3>1. \A T \in Bad : IsFiniteSet(T)
      BY <1>1
    <3> HIDE DEF Bad
    <3> QED BY <1>2, <3>1, MinimalSet
  <2>2. T \in SUBSET S /\ SumFunctionOnSet(g, T) # -SumFunctionOnSet(f, T)
    BY <2>1
  <2>3. T # {}
    <3>1. SumFunctionOnSet(g, {}) = 0 /\ SumFunctionOnSet(f, {}) = 0
      BY SumOfNone
    <3> QED BY <2>2, <3>1
  <2>4. PICK a \in T : TRUE
    BY <2>3
  <2>5. IsFiniteSet(T) /\ \A x \in T : f[x] \in Int /\ g[x] \in Int /\ g[x] = -f[x]
    BY <1>1, <2>2
  <2>6. PICK R \in SUBSET S : R = T \ {a}
    BY <2>2
  <2>7. SumFunctionOnSet(f, T) = f[a] + SumFunctionOnSet(f, R)
    BY <2>4, <2>5, <2>6, SumWithout
  <2>8. SumFunctionOnSet(g, T) = g[a] + SumFunctionOnSet(g, R)
    BY <2>4, <2>5, <2>6, SumWithout
  <2>9. SumFunctionOnSet(g, R) = -SumFunctionOnSet(f, R)
    BY <2>1, <2>4, <2>6
  <2>10. PICK x, y \in Int : x = f[a] /\ y = SumFunctionOnSet(f, R)
    BY <1>1, <2>4, <2>5, <2>6
  <2>11. SumFunctionOnSet(f, T) = x + y /\ SumFunctionOnSet(g, T) = -x + -y
    BY <2>4, <2>5, <2>7, <2>8, <2>9, <2>10
  <2>12. -x + -y = -(x + y)
    BY <2>10
  <2> QED BY <2>2, <2>11, <2>12
<1>3. S \notin Bad
  BY <1>2
<1> QED BY <1>1, <1>3

LEMMA FlowMirrors ==
  ASSUME NEW u, IsStream(u), NEW trades \in SUBSET {k \in 1 .. Len(u) : u[k].kind = "trade"},
         NEW side \in PassiveSides
  PROVE  TowardQuote(u, trades, side) = -TowardQuote(u, trades, OtherSide(side))
<1>1. PICK f : f = [k \in trades |-> IF u[k].maker = (side = "bid") THEN u[k].lots ELSE -u[k].lots]
  OBVIOUS
<1>2. PICK g : g = [k \in trades |-> IF u[k].maker = (OtherSide(side) = "bid") THEN u[k].lots
                                     ELSE -u[k].lots]
  OBVIOUS
<1>3. IsFiniteSet(trades)
  <2>1. IsFiniteSet(1 .. Len(u)) /\ trades \in SUBSET (1 .. Len(u))
    BY PlacesBefore DEF IsStream
  <2> QED BY <2>1, FS_Subset
<1>4. ASSUME NEW k \in trades
      PROVE  g[k] \in Int /\ f[k] = -g[k]
  <2>1. u[k].maker \in BOOLEAN /\ u[k].lots \in Nat
    BY DEF IsStream, IsEvent
  <2>2. PICK lots \in Nat : lots = u[k].lots
    BY <2>1
  <2>3. (side = "bid") <=> ~ (OtherSide(side) = "bid")
    BY OtherSides
  <2>4. u[k].maker = (side = "bid") <=> ~ (u[k].maker = (OtherSide(side) = "bid"))
    BY <2>1, <2>3, Zenon
  <2>5. f[k] = IF u[k].maker = (side = "bid") THEN lots ELSE -lots
    BY <1>1, <2>2
  <2>6. g[k] = IF u[k].maker = (OtherSide(side) = "bid") THEN lots ELSE -lots
    BY <1>2, <2>2
  <2>7. (f[k] = lots /\ g[k] = -lots) \/ (f[k] = -lots /\ g[k] = lots)
    BY <2>4, <2>5, <2>6, Zenon
  <2>8. lots \in Int /\ -lots \in Int /\ -(-lots) = lots
    BY <2>2
  <2> QED BY <2>7, <2>8
<1>5. SumFunctionOnSet(f, trades) = -SumFunctionOnSet(g, trades)
  BY <1>3, <1>4, SumOfNegated
<1>6. TowardQuote(u, trades, side) = SumFunctionOnSet(f, trades)
  BY <1>1 DEF TowardQuote
<1>7. TowardQuote(u, trades, OtherSide(side)) = SumFunctionOnSet(g, trades)
  BY <1>2 DEF TowardQuote
<1> QED BY <1>5, <1>6, <1>7

\* The features of the two sides.
SidesOpposed(f, g) ==
  /\ f.spread = g.spread /\ f.realized = g.realized /\ f.same_top = g.opposite_top
  /\ \A i \in DOMAIN f.imbalance : f.imbalance[i] = -g.imbalance[i]
  /\ \A i \in DOMAIN Windows : f.move[i] = -g.move[i] /\ f.flow[i] = -g.flow[i]

LEMMA FeaturesMirror ==
  ASSUME NEW u, NEW cutoff, IsHistory(u, cutoff), NEW side \in PassiveSides,
         NEW f, f = Features(u, side, cutoff), NEW g, g = Features(u, OtherSide(side), cutoff)
  PROVE  SidesOpposed(f, g)
<1>1. PICK other \in PassiveSides : other = OtherSide(side) /\ OtherSide(other) = side
  BY OtherSides
<1>2. PICK book : book = BooksOf(u)[Len(u)]
  OBVIOUS
<1>3. book \in Books /\ Standing(book)
  <2>1. PICK b : b = Max(BookEvents(u))
    OBVIOUS
  <2>2. b \in BookEvents(u) /\ book = BooksOf(u)[b]
    BY <1>2, <2>1, HistoryBooks, LastBookEvent DEF IsHistory
  <2> QED BY <2>2, HistoryBooks
<1>4. f.spread = g.spread /\ f.realized = g.realized
  BY DEF Features
<1>5. f.same_top = g.opposite_top
  BY <1>1 DEF Features
<1>6. ASSUME NEW i \in DOMAIN f.imbalance
      PROVE  f.imbalance[i] = -g.imbalance[i]
  <2>1. /\ f.imbalance = <<Imbalance(book, side, 1), Imbalance(book, side, TopLevels)>>
        /\ g.imbalance = <<Imbalance(book, other, 1), Imbalance(book, other, TopLevels)>>
    BY <1>1, <1>2 DEF Features
  <2>2. i = 1 \/ i = 2
    BY <2>1
  <2>3. 1 \in Nat \ {0} /\ TopLevels \in Nat \ {0}
    BY TimesConfigured
  <2>4. /\ Imbalance(book, side, 1) = -Imbalance(book, other, 1)
        /\ Imbalance(book, side, TopLevels) = -Imbalance(book, other, TopLevels)
    BY <1>1, <1>3, <2>3, ImbalanceMirrors
  <2>5. f.imbalance[1] = -g.imbalance[1] /\ f.imbalance[2] = -g.imbalance[2]
    BY <2>1, <2>4
  <2> QED BY <2>2, <2>5
<1>7. ASSUME NEW i \in DOMAIN Windows
      PROVE  f.move[i] = -g.move[i] /\ f.flow[i] = -g.flow[i]
  <2>1. PICK start : start = cutoff - Windows[i]
    OBVIOUS
  <2>2. PICK trades : trades = TradesIn(u, start, cutoff)
    OBVIOUS
  <2>3. PICK y : y = Mid2(BooksOf(u)[PastOf(u, start)])
    OBVIOUS
  <2>4. PICK x : x = Mid2(book)
    OBVIOUS
  <2>5. x \in Int /\ y \in Int
    BY <1>2, <2>1, <2>3, <2>4, WayOfWindow
  <2>6. f.move[i] = SideSign(side) * (x - y) /\ g.move[i] = SideSign(other) * (x - y)
    BY <1>1, <1>2, <2>1, <2>3, <2>4 DEF Features
  <2>7. PICK z \in Int : z = x - y
    BY <2>5
  <2>8. SideSign(side) \in {1, -1} /\ SideSign(other) = -SideSign(side)
    BY <1>1, OtherSides
  <2>9. f.move[i] = -g.move[i]
    <3>1. CASE SideSign(side) = 1
      BY <2>6, <2>7, <2>8, <3>1
    <3>2. CASE SideSign(side) = -1
      BY <2>6, <2>7, <2>8, <3>2
    <3> QED BY <2>8, <3>1, <3>2
  <2>10. /\ f.flow[i] = TowardQuote(u, trades, side)
         /\ g.flow[i] = TowardQuote(u, trades, other)
    BY <1>1, <2>1, <2>2 DEF Features
  <2>11. trades \in SUBSET {k \in 1 .. Len(u) : u[k].kind = "trade"}
    BY <2>2, HistoryBooks DEF TradesIn
  <2>12. TowardQuote(u, trades, side) = -TowardQuote(u, trades, other)
    BY <1>1, <2>11, FlowMirrors DEF IsHistory
  <2> QED BY <2>9, <2>10, <2>12
<1> QED BY <1>4, <1>5, <1>6, <1>7 DEF SidesOpposed

LEMMA RowsMirror ==
  ASSUME PredictionInv
  PROVE  SidesMirror
<1>1. ASSUME NEW r \in dataset.rows, NEW s \in dataset.rows,
             r.feature.point.time = s.feature.point.time, r.feature.point.side # s.feature.point.side
      PROVE  SidesOpposed(r.feature.features, s.feature.features)
  <2> DEFINE f == r.feature.features
             g == s.feature.features
  <2>1. PICK p : p = r.feature.point
    OBVIOUS
  <2>2. PICK q : q = s.feature.point
    OBVIOUS
  <2>3. /\ p.side \in PassiveSides /\ IsHistory(UsedFor(p), Cutoff(p))
        /\ f = Features(UsedFor(p), p.side, Cutoff(p))
    BY <1>1, <2>1, RowFeatures
  <2>4. q.side \in PassiveSides /\ g = Features(UsedFor(q), q.side, Cutoff(q))
    BY <1>1, <2>2, RowFeatures
  <2>5. p.time = q.time /\ p.side # q.side
    BY <1>1, <2>1, <2>2
  <2>6. Cutoff(q) = Cutoff(p)
    BY <2>5 DEF Cutoff
  <2>7. UsedFor(q) = UsedFor(p)
    <3>1. Known(stream, q) = Known(stream, p)
      BY <2>5, <2>6 DEF Known
    <3> QED BY <3>1 DEF UsedFor, Eligible
  <2>8. q.side = OtherSide(p.side)
    BY <2>3, <2>4, <2>5, OtherSides
  <2>9. PICK u : u = UsedFor(p)
    OBVIOUS
  <2>10. PICK cutoff : cutoff = Cutoff(p)
    OBVIOUS
  <2>11. PICK side \in PassiveSides : side = p.side
    BY <2>3
  <2>12. /\ IsHistory(u, cutoff) /\ f = Features(u, side, cutoff)
         /\ g = Features(u, OtherSide(side), cutoff)
    BY <2>3, <2>4, <2>6, <2>7, <2>8, <2>9, <2>10, <2>11
  <2> QED BY <2>12, FeaturesMirror
<1> QED BY <1>1, Zenon DEF SidesMirror, SidesOpposed

\* The features of a row are those of a market that the decision saw: nothing
\* behind them is later than it could know (builder.py, _feature_row), the
\* moves lie on one path of the mid, and the two sides of a decision mirror
\* each other.
THEOREM FeaturesAlwaysSound == Spec => []FeaturesSound
<1>1. PredictionInv => FeaturesSound
  BY Causal, PathOfRows, RowsMirror DEF FeaturesSound
<1> QED BY <1>1, PredictionAlways, PTL

-----------------------------------------------------------------------------
(***************************************************************************)
(* The tail summary: order statistics, and the mean of the worst share.    *)
(***************************************************************************)

\* The places whose value comes before that of a place.
BeforeIn(values, k) ==
  {j \in DOMAIN values : values[j] < values[k] \/ (values[j] = values[k] /\ j < k)}

\* A sequence has the values of another, at other places and in order.
Arranges(place, n, values, ordered) ==
  /\ \A m \in 1 .. n : place[m] \in 1 .. n /\ ordered[m] = values[place[m]]
  /\ \A i, j \in 1 .. n : place[i] = place[j] => i = j
  /\ {place[m] : m \in 1 .. n} = 1 .. n
  /\ DOMAIN ordered = 1 .. n
  /\ \A i, j \in 1 .. n : i <= j => ordered[i] <= ordered[j]

\* A sorted sequence has the same values at other places, none of them less
\* than the one before.
LEMMA AscendingFacts ==
  ASSUME NEW n \in Nat, NEW values, DOMAIN values = 1 .. n, \A k \in 1 .. n : values[k] \in Int
  PROVE  \E place : Arranges(place, n, values, Ascending(values))
<1>1. PICK D : D = 1 .. n
  OBVIOUS
<1>2. PICK R : R = {ab \in D \X D : values[ab[1]] < values[ab[2]]
                                     \/ (values[ab[1]] = values[ab[2]] /\ ab[1] < ab[2])}
  OBVIOUS
<1>3. IsFiniteSet(D) /\ Cardinality(D) = n
  BY <1>1, PlacesBefore
<1>4. \A a, b \in D : <<a, b>> \in R <=> a \in BeforeIn(values, b)
  BY <1>2, <1>1 DEF BeforeIn
<1>5. \A a \in D : <<a, a>> \notin R
  BY <1>2, <1>1
<1>6. \A a, b, c \in D : <<a, b>> \in R /\ <<b, c>> \in R => <<a, c>> \in R
  BY <1>2, <1>1
<1>7. \A a, b \in D : a # b => <<a, b>> \in R \/ <<b, a>> \in R
  BY <1>2, <1>1
<1>8. \A p \in D : {q \in D : <<q, p>> \in R} = BeforeIn(values, p)
  BY <1>4, <1>1 DEF BeforeIn
<1>9. \A p \in D : Cardinality(BeforeIn(values, p)) \in Nat /\ IsFiniteSet(BeforeIn(values, p))
  <2> TAKE p \in D
  <2>1. BeforeIn(values, p) \subseteq D
    BY <1>1 DEF BeforeIn
  <2> QED BY <1>3, <2>1, FS_Subset, FS_CardinalityType
<1>10. \A m \in D : \E p \in D : Cardinality(BeforeIn(values, p)) = m - 1
  <2> TAKE m \in D
  <2>1. PICK r \in 0 .. Cardinality(D) - 1 : r = m - 1
    BY <1>3, <1>1
  <2>5. IsFiniteSet(D)
    BY <1>3
  <2>6. Ordering(R, D)
    BY <1>5, <1>7, <1>6 DEF Ordering
  <2>7. PICK p \in D : RankBy(R, D, p) = r
    BY <2>5, <2>6, RankTaken
  <2> QED BY <1>8, <2>1, <2>7 DEF RankBy
<1>11. PICK place : place = [m \in D |-> CHOOSE k \in D : Cardinality(BeforeIn(values, k)) = m - 1]
  OBVIOUS
<1>12. \A m \in D : place[m] \in D /\ Cardinality(BeforeIn(values, place[m])) = m - 1
  <2> TAKE m \in D
  <2>1. place[m] = CHOOSE k \in D : Cardinality(BeforeIn(values, k)) = m - 1
    BY <1>11, Zenon
  <2>2. \E p \in D : Cardinality(BeforeIn(values, p)) = m - 1
    BY <1>10
  <2> QED BY <2>1, <2>2, Zenon
<1>13. Ascending(values) = [m \in D |-> values[CHOOSE k \in D : Cardinality(BeforeIn(values, k)) = m - 1]]
  BY <1>1 DEF Ascending, BeforeIn
<1>14. DOMAIN Ascending(values) = D /\ \A m \in D : Ascending(values)[m] = values[place[m]]
  BY <1>11, <1>13, Zenon
<1>15. \A i, j \in D : place[i] = place[j] => i = j
  <2> TAKE i, j \in D
  <2>1. i \in Int /\ j \in Int
    BY <1>1
  <2> QED BY <1>12, <2>1
<1>16. \A a, b \in D : a \in BeforeIn(values, b)
         => Cardinality(BeforeIn(values, a)) < Cardinality(BeforeIn(values, b))
  <2> SUFFICES ASSUME NEW a \in D, NEW b \in D, a \in BeforeIn(values, b)
               PROVE  Cardinality(BeforeIn(values, a)) < Cardinality(BeforeIn(values, b))
    OBVIOUS
  <2>1. a \notin BeforeIn(values, a)
    BY <1>4, <1>5, <1>6
  <2>2. \A q \in D : q \in BeforeIn(values, a) => q \in BeforeIn(values, b)
    BY <1>4, <1>5, <1>6
  <2>3. BeforeIn(values, a) \subseteq BeforeIn(values, b)
    BY <2>2, <1>1 DEF BeforeIn
  <2> QED BY <1>9, <2>1, <2>3, FS_Subset
<1>17. \A i, j \in D : i <= j => values[place[i]] <= values[place[j]]
  <2> SUFFICES ASSUME NEW i \in D, NEW j \in D, i <= j, ~(values[place[i]] <= values[place[j]])
               PROVE  FALSE
    OBVIOUS
  <2>1. place[i] \in D /\ place[j] \in D
    BY <1>12
  <2>2. values[place[j]] < values[place[i]]
    BY <2>1, <1>1
  <2>3. place[j] \in BeforeIn(values, place[i])
    BY <2>1, <2>2, <1>1 DEF BeforeIn
  <2>4. Cardinality(BeforeIn(values, place[j])) < Cardinality(BeforeIn(values, place[i]))
    BY <1>16, <2>1, <2>3
  <2>5. j - 1 < i - 1 /\ i \in Int /\ j \in Int
    BY <1>12, <2>4, <1>1
  <2> QED BY <2>5
<1>18. {place[m] : m \in D} = D
  <2>1. place \in [D -> D]
    BY <1>11, <1>12
  <2>2. place \in Injection(D, D)
    BY <1>15, <2>1 DEF Injection, IsInjective
  <2>3. place \in Surjection(D, D)
    BY <1>3, <2>2, FS_Injection
  <2> QED BY <1>12, <2>3 DEF Surjection
<1>19. \A i, j \in D : i <= j => Ascending(values)[i] <= Ascending(values)[j]
  BY <1>14, <1>17
<1>20. Arranges(place, n, values, Ascending(values))
  BY <1>12, <1>14, <1>15, <1>18, <1>19, <1>1 DEF Arranges
<1> QED BY <1>20

\* Sorting keeps the length.
LEMMA AscendingLength ==
  ASSUME NEW n \in Nat, NEW values, DOMAIN values = 1 .. n
  PROVE  Len(Ascending(values)) = n
<1>1. PICK ordered : ordered = Ascending(values)
  OBVIOUS
<1>2. ordered = [m \in 1 .. n |-> ordered[m]]
  <2>1. Ascending(values) = [m \in DOMAIN values |-> Ascending(values)[m]]
    BY DEF Ascending
  <2> QED BY <1>1, <2>1
<1> QED BY <1>1, <1>2

\* The members of a finite set of integers have one least.
LEMMA LeastOf ==
  ASSUME NEW S \in SUBSET Int, NEW x \in S, \A y \in S : x <= y
  PROVE  Min(S) = x
<1>1. Min(S) \in S /\ \A y \in S : Min(S) <= y
  <2>1. \E z \in S : \A y \in S : z <= y
    OBVIOUS
  <2> QED BY <2>1, Zenon DEF Min
<1>2. Min(S) <= x /\ x <= Min(S) /\ x \in Int /\ Min(S) \in Int
  BY <1>1
<1> QED BY <1>2

\* The products of a share and a count.
LEMMA ShareFacts ==
  ASSUME NEW n \in Nat \ {0}, NEW p \in 1 .. 99
  PROVE  /\ p * n \in Nat /\ (100 - p) * n \in Nat
         /\ 1 <= p * n /\ p * n <= 99 * n
         /\ 1 <= (100 - p) * n /\ (100 - p) * n <= 99 * n
         /\ p * n + (100 - p) * n = 100 * n
<1>1. \A q \in 1 .. 99 : q * n \in Nat /\ 1 <= q * n /\ q * n <= 99 * n
  OBVIOUS
<1>2. p \in 1 .. 99 /\ 100 - p \in 1 .. 99
  OBVIOUS
<1>3. p * n + (100 - p) * n = 100 * n
  OBVIOUS
<1> QED BY <1>1, <1>2, <1>3

\* The nearest rank of a share.
RankOf(p, n) == (p * n + 99) \div 100

\* A count that is rounded up.
LEMMA RoundedUp ==
  ASSUME NEW n \in Nat \ {0}, NEW x \in Nat, 1 <= x, x <= 99 * n
  PROVE  \E r \in 1 .. n : r = (x + 99) \div 100 /\ x <= 100 * r /\ 100 * (r - 1) < x
<1>1. PICK r : r = (x + 99) \div 100
  OBVIOUS
<1>2. r \in Int /\ 100 * r <= x + 99 /\ x + 99 < 100 * r + 100
  BY <1>1
<1> QED BY <1>1, <1>2

\* The losses that are not more than a value.
Upto(values, c) == {k \in DOMAIN values : values[k] <= c}

\* The value at the nearest rank is the least that enough values do not exceed.
LEMMA NearestRankIs ==
  ASSUME NEW n \in Nat \ {0}, NEW values \in [1 .. n -> Int], NEW p \in 1 .. 99
  PROVE  /\ \E r \in 1 .. n : r = RankOf(p, n)
              /\ NearestRank(Ascending(values), p) = Ascending(values)[r]
         /\ NearestRank(Ascending(values), p)
              = Min({c \in ToSet(values) : 100 * Cardinality(Upto(values, c)) >= p * Len(values)})
<1>1. DOMAIN values = 1 .. n /\ \A k \in 1 .. n : values[k] \in Int
  OBVIOUS
<1>2. PICK place : Arranges(place, n, values, Ascending(values))
  BY <1>1, AscendingFacts
<1>3. PICK ordered : ordered = Ascending(values)
  OBVIOUS
<1>4. /\ \A m \in 1 .. n : place[m] \in 1 .. n /\ ordered[m] = values[place[m]]
      /\ \A i, j \in 1 .. n : place[i] = place[j] => i = j
      /\ {place[m] : m \in 1 .. n} = 1 .. n
      /\ DOMAIN ordered = 1 .. n
      /\ \A i, j \in 1 .. n : i <= j => ordered[i] <= ordered[j]
  BY <1>2, <1>3 DEF Arranges
<1>5. Len(values) = n
  OBVIOUS
<1>6. Len(ordered) = n
  BY <1>1, <1>3, AscendingLength
<1>7. PICK r \in 1 .. n : r = RankOf(p, n) /\ p * n <= 100 * r /\ 100 * (r - 1) < p * n
  <2>1. PICK x \in Nat : x = p * n /\ 1 <= x /\ x <= 99 * n
    BY ShareFacts
  <2> QED BY <2>1, RoundedUp DEF RankOf
<1>8. NearestRank(ordered, p) = ordered[r]
  <2>1. Max({1, r}) = r
    <3>1. {1, r} \in SUBSET Int /\ r \in {1, r} /\ \A y \in {1, r} : r >= y
      OBVIOUS
    <3> QED BY <3>1, MaxOf
  <2> QED BY <1>6, <1>7, <2>1 DEF NearestRank, RankOf
<1>9. IsFiniteSet(1 .. n)
  BY PlacesBefore
<1>10. \A c \in Int : /\ Upto(values, c) \subseteq 1 .. n
                      /\ IsFiniteSet(Upto(values, c)) /\ Cardinality(Upto(values, c)) \in Nat
  <2> TAKE c \in Int
  <2>1. Upto(values, c) \subseteq 1 .. n
    BY <1>1 DEF Upto
  <2> QED BY <1>9, <2>1, FS_Subset, FS_CardinalityType
<1>11. ordered[r] \in ToSet(values) /\ ordered[r] \in Int
  BY <1>1, <1>4 DEF ToSet
<1>12. 100 * Cardinality(Upto(values, ordered[r])) >= p * n
  <2>1. PICK f : f = [m \in 1 .. r |-> place[m]]
    OBVIOUS
  <2>2. \A m \in 1 .. r : m \in 1 .. n /\ m <= r
    OBVIOUS
  <2>3. \A m \in 1 .. r : place[m] \in Upto(values, ordered[r])
    <3> TAKE m \in 1 .. r
    <3>1. ordered[m] <= ordered[r] /\ place[m] \in 1 .. n /\ values[place[m]] = ordered[m]
      BY <1>4, <2>2
    <3> QED BY <1>1, <3>1 DEF Upto
  <2>4. \A i, j \in 1 .. r : f[i] = f[j] => i = j
    BY <1>4, <2>1, <2>2
  <2>5. f \in [1 .. r -> Upto(values, ordered[r])]
    BY <2>1, <2>3
  <2>6. f \in Injection(1 .. r, Upto(values, ordered[r]))
    BY <2>4, <2>5 DEF Injection, IsInjective
  <2>7. Cardinality(1 .. r) <= Cardinality(Upto(values, ordered[r]))
    BY <1>10, <1>11, <2>6, FS_Injection
  <2>8. Cardinality(1 .. r) = r
    BY PlacesBefore
  <2>9. PICK u \in Nat : u = Cardinality(Upto(values, ordered[r]))
    BY <1>10, <1>11
  <2>10. PICK x \in Nat : x = p * n
    BY ShareFacts
  <2> QED BY <1>7, <2>7, <2>8, <2>9, <2>10
<1>13. ASSUME NEW c \in ToSet(values), 100 * Cardinality(Upto(values, c)) >= p * n
       PROVE  ordered[r] <= c
  <2>1. c \in Int
    BY <1>1 DEF ToSet
  <2> SUFFICES ASSUME c < ordered[r] PROVE FALSE
    BY <1>11, <2>1
  <2>2. PICK g : g = [k \in Upto(values, c) |-> CHOOSE m \in 1 .. n : place[m] = k]
    OBVIOUS
  <2>3. \A k \in Upto(values, c) : g[k] \in 1 .. n /\ place[g[k]] = k
    <3> TAKE k \in Upto(values, c)
    <3>1. k \in 1 .. n
      BY <1>10, <2>1
    <3>2. \E m \in 1 .. n : place[m] = k
      BY <1>4, <3>1
    <3>3. g[k] = CHOOSE m \in 1 .. n : place[m] = k
      BY <2>2, Zenon
    <3> QED BY <3>2, <3>3, Zenon
  <2>4. \A k \in Upto(values, c) : g[k] \in 1 .. r - 1
    <3> TAKE k \in Upto(values, c)
    <3>1. values[k] <= c /\ values[k] \in Int
      BY <1>1 DEF Upto
    <3>2. ordered[g[k]] = values[k] /\ g[k] \in 1 .. n
      BY <1>4, <2>3
    <3>3. ~(r <= g[k])
      <4> SUFFICES ASSUME r <= g[k] PROVE FALSE
        OBVIOUS
      <4>1. ordered[r] <= ordered[g[k]]
        BY <1>4, <3>2
      <4> QED BY <1>11, <2>1, <3>1, <3>2, <4>1
    <3> QED BY <3>2, <3>3
  <2>5. \A i, j \in Upto(values, c) : g[i] = g[j] => i = j
    BY <2>3
  <2>6. g \in [Upto(values, c) -> 1 .. r - 1]
    BY <2>2, <2>4
  <2>7. g \in Injection(Upto(values, c), 1 .. r - 1)
    BY <2>5, <2>6 DEF Injection, IsInjective
  <2>8. PICK t \in Nat : t = r - 1
    OBVIOUS
  <2>9. IsFiniteSet(1 .. t) /\ Cardinality(1 .. t) = t
    BY PlacesBefore
  <2>10. Cardinality(Upto(values, c)) <= t
    BY <2>7, <2>8, <2>9, FS_Injection
  <2>11. PICK u \in Nat : u = Cardinality(Upto(values, c))
    BY <1>10, <2>1
  <2>12. PICK x \in Nat : x = p * n
    BY ShareFacts
  <2>13. x <= 100 * u /\ u <= t /\ 100 * t < x
    BY <1>7, <1>13, <2>8, <2>10, <2>11, <2>12
  <2> QED BY <2>13
<1>14. PICK S : S = {c \in ToSet(values) : 100 * Cardinality(Upto(values, c)) >= p * n}
  OBVIOUS
<1>15. Min(S) = ordered[r]
  <2>1. S \in SUBSET Int
    BY <1>1, <1>14 DEF ToSet
  <2>2. ordered[r] \in S /\ \A y \in S : ordered[r] <= y
    BY <1>11, <1>12, <1>13, <1>14
  <2> QED BY <2>1, <2>2, LeastOf
<1> QED BY <1>3, <1>5, <1>7, <1>8, <1>14, <1>15

-----------------------------------------------------------------------------
(* The mean of the worst share.                                            *)

\* The weight of an episode, and what it leaves of the target.
WeightOf(left) == Min({100, left})
AfterLoss(t, loss) == [left |-> t.left - WeightOf(t.left), sum |-> t.sum + WeightOf(t.left) * loss]

\* The equation of what is left after the worst episodes.
TailRecursion(f, ordered, start, n) ==
  f = [k \in 0 .. n |->
         IF k = 0 THEN [left |-> start, sum |-> 0]
         ELSE AfterLoss(f[k - 1], ordered[Len(ordered) + 1 - k])]

\* There is such a function.
LEMMA TailExists ==
  ASSUME NEW ordered, NEW start, NEW n \in Nat
  PROVE  \E f : TailRecursion(f, ordered, start, n)
<1> DEFINE Good == {m \in Nat : \E f : TailRecursion(f, ordered, start, m)}
           Loss(k) == ordered[Len(ordered) + 1 - k]
           Zero == [left |-> start, sum |-> 0]
<1>1. 0 \in Good
  <2>1. TailRecursion([k \in 0 .. 0 |-> Zero], ordered, start, 0)
    BY DEF TailRecursion
  <2> QED BY <2>1
<1>2. \A m \in Nat : m \in Good => m + 1 \in Good
  <2> SUFFICES ASSUME NEW m \in Nat, m \in Good PROVE m + 1 \in Good
    OBVIOUS
  <2>1. PICK f : TailRecursion(f, ordered, start, m)
    OBVIOUS
  <2>2. PICK g : g = [k \in 0 .. m + 1 |->
                        IF k = m + 1 THEN AfterLoss(f[k - 1], Loss(k)) ELSE f[k]]
    OBVIOUS
  <2>3. \A k \in 0 .. m : f[k] = IF k = 0 THEN Zero ELSE AfterLoss(f[k - 1], Loss(k))
    BY <2>1, Zenon DEF TailRecursion
  <2> HIDE DEF Loss, Zero, Good
  <2>4. \A k \in 0 .. m : g[k] = f[k]
    BY <2>2
  <2>5. g[m + 1] = AfterLoss(f[m], Loss(m + 1))
    BY <2>2
  <2>6. \A k \in 0 .. m + 1 : g[k] = IF k = 0 THEN Zero ELSE AfterLoss(g[k - 1], Loss(k))
    <3> TAKE k \in 0 .. m + 1
    <3>1. CASE k = m + 1
      <4>1. k - 1 = m /\ m \in 0 .. m /\ k # 0
        BY <3>1
      <4>2. g[k - 1] = f[m] /\ g[k] = AfterLoss(f[m], Loss(k))
        BY <2>4, <2>5, <3>1, <4>1
      <4> QED BY <4>1, <4>2
    <3>2. CASE k = 0
      <4>1. 0 \in 0 .. m
        OBVIOUS
      <4> QED BY <2>3, <2>4, <3>2, <4>1
    <3>3. CASE k # 0 /\ k # m + 1
      <4>1. k \in 0 .. m /\ k - 1 \in 0 .. m
        BY <3>3
      <4>2. g[k] = f[k] /\ g[k - 1] = f[k - 1]
        BY <2>4, <4>1
      <4>3. f[k] = AfterLoss(f[k - 1], Loss(k))
        BY <2>3, <3>3, <4>1
      <4> QED BY <3>3, <4>2, <4>3
    <3> QED BY <3>1, <3>2, <3>3
  <2>7. g = [k \in 0 .. m + 1 |-> g[k]]
    BY <2>2
  <2>8. TailRecursion(g, ordered, start, m + 1)
    BY <2>6, <2>7 DEF TailRecursion, Loss, Zero
  <2> QED BY <2>8 DEF Good
<1> HIDE DEF Good
<1>3. Nat \subseteq Good
  BY <1>1, <1>2, NaturalInduction
<1> QED BY <1>3 DEF Good

\* The tail mean is the sum at the end of such a function.
IsTailMean(mean, f, ordered, n, start) ==
  /\ mean = f[n].sum
  /\ f[0] = [left |-> start, sum |-> 0]
  /\ \A k \in 1 .. n : f[k] = AfterLoss(f[k - 1], ordered[n + 1 - k])
LEMMA TailStep ==
  ASSUME NEW ordered, Len(ordered) \in Nat, NEW p
  PROVE  \E f : IsTailMean(fractional_worst_tail_mean(ordered, p), f, ordered, Len(ordered),
                          TailTarget(ordered, p))
<1> DEFINE n == Len(ordered)
           start == TailTarget(ordered, p)
<1>1. PICK f : f = CHOOSE g : TailRecursion(g, ordered, TailTarget(ordered, p), Len(ordered))
  OBVIOUS
<1>2. fractional_worst_tail_mean(ordered, p) = f[n].sum
  BY <1>1, Zenon DEF fractional_worst_tail_mean, TailRecursion, AfterLoss, WeightOf
<1>3. \E g : TailRecursion(g, ordered, start, n)
  BY TailExists
<1>4. TailRecursion(f, ordered, start, n)
  BY <1>1, <1>3, Zenon
<1>5. \A k \in 0 .. n : f[k] = IF k = 0 THEN [left |-> start, sum |-> 0]
                               ELSE AfterLoss(f[k - 1], ordered[Len(ordered) + 1 - k])
  BY <1>4, Zenon DEF TailRecursion
<1>6. 0 \in 0 .. n /\ \A k \in 1 .. n : k \in 0 .. n /\ k # 0
  OBVIOUS
<1>7. f[0] = [left |-> start, sum |-> 0]
  BY <1>5, <1>6
<1>8. \A k \in 1 .. n : f[k] = AfterLoss(f[k - 1], ordered[Len(ordered) + 1 - k])
  BY <1>5, <1>6
<1> QED BY <1>2, <1>7, <1>8 DEF IsTailMean

\* By how much a loss exceeds a threshold.
ExcessOver(loss, c) == IF loss > c THEN loss - c ELSE 0
ExcessOf(values, c) ==
  100 * SumFunctionOnSet([k \in DOMAIN values |-> values[k] - c], DOMAIN values \ Upto(values, c))
Exceeding(ordered, n, c) == [m \in 1 .. n |-> 100 * ExcessOver(ordered[n + 1 - m], c)]
IntsTo(ordered, n) == \A k \in 1 .. n : ordered[k] \in Int

\* The excess over a threshold is the same in whichever order it is added up.
LEMMA ExcessAddsUp ==
  ASSUME NEW n \in Nat \ {0}, NEW values \in [1 .. n -> Int], NEW place, NEW ordered,
         Arranges(place, n, values, ordered), NEW c \in Int
  PROVE  ExcessOf(values, c) = SumFunctionOnSet(Exceeding(ordered, n, c), 1 .. n)
<1>1. PICK excess : excess = Exceeding(ordered, n, c)
  OBVIOUS
<1>2. \A m \in 1 .. n : excess[m] = 100 * ExcessOver(ordered[n + 1 - m], c)
  BY <1>1 DEF Exceeding
<1>3. PICK D : D = 1 .. n
  OBVIOUS
<1>4. IsFiniteSet(D) /\ DOMAIN values = D /\ \A k \in D : values[k] \in Int
  BY <1>3, PlacesBefore
<1>5. PICK d : d = [k \in DOMAIN values |-> values[k] - c]
  OBVIOUS
<1>6. PICK x : x = [k \in D |-> ExcessOver(values[k], c)]
  OBVIOUS
<1>7. PICK R : R = DOMAIN values \ Upto(values, c)
  OBVIOUS
<1>8. R \in SUBSET D /\ IsFiniteSet(R)
  BY <1>4, <1>7, FS_Subset
<1>9. \A k \in D : /\ x[k] \in Int
                   /\ k \in R => d[k] = x[k]
                   /\ k \in D \ R => x[k] = 0
  BY <1>4, <1>5, <1>6, <1>7 DEF Upto, ExcessOver
<1>10. SumFunctionOnSet(d, R) = SumFunctionOnSet(x, R)
  BY <1>8, <1>9, SumOfEquals
<1>11. SumFunctionOnSet(x, D) = SumFunctionOnSet(x, R)
  <2>1. /\ IsFiniteSet(D) /\ R \in SUBSET D
        /\ \A k \in D : x[k] \in Int
        /\ \A k \in D \ R : x[k] = 0
    BY <1>4, <1>8, <1>9
  <2> QED BY ONLY <2>1, SumOfRest
<1>12. PICK q : q = [m \in D |-> place[n + 1 - m]]
  OBVIOUS
<1>13. \A m \in D : n + 1 - m \in D /\ n + 1 - (n + 1 - m) = m
  BY <1>3
<1>14. /\ \A m \in D : place[m] \in D /\ ordered[m] = values[place[m]]
       /\ \A i, j \in D : place[i] = place[j] => i = j
       /\ {place[m] : m \in D} = D
  BY <1>3 DEF Arranges
<1>15. PICK y : y = [m \in D |-> ExcessOver(ordered[n + 1 - m], c)]
  OBVIOUS
<1>16. \A m \in D : x[q[m]] \in Int /\ y[m] = x[q[m]]
  BY <1>6, <1>9, <1>12, <1>13, <1>14, <1>15
<1>17. \A i, j \in D : q[i] = q[j] => i = j
  <2> SUFFICES ASSUME NEW i \in D, NEW j \in D, q[i] = q[j] PROVE i = j
    OBVIOUS
  <2>1. n + 1 - i = n + 1 - j
    BY <1>12, <1>13, <1>14
  <2> QED BY <1>3, <2>1
<1>18. {q[m] : m \in D} = D
  <2>1. \A m \in D : q[m] \in D
    BY <1>12, <1>13, <1>14
  <2>2. \A k \in D : \E m \in D : q[m] = k
    <3> TAKE k \in D
    <3>1. PICK m \in D : place[m] = k
      BY <1>14
    <3>2. q[n + 1 - m] = k /\ n + 1 - m \in D
      BY <1>12, <1>13, <3>1
    <3> QED BY <3>2
  <2> QED BY <2>1, <2>2
<1>19. SumFunctionOnSet(y, D) = SumFunctionOnSet(x, D)
  <2>1. PICK image : image = {q[m] : m \in D}
    OBVIOUS
  <2>2. IsFiniteSet(D)
    BY <1>4
  <2>3. SumFunctionOnSet(y, D) = SumFunctionOnSet(x, image)
    BY ONLY <1>16, <1>17, <2>1, <2>2, SumOfImage
  <2> QED BY <1>18, <2>1, <2>3
<1>20. \A m \in D : y[m] \in Int /\ excess[m] = 100 * y[m]
  BY <1>3, <1>15, <1>16, <1>2
<1>21. SumFunctionOnSet(excess, D) = 100 * SumFunctionOnSet(y, D)
  BY <1>4, <1>20, SumOfMultiples
<1> QED BY <1>1, <1>3, <1>5, <1>7, <1>10, <1>11, <1>19, <1>21 DEF ExcessOf

\* The whole weight, or what is left.
LEMMA WeightIs ==
  ASSUME NEW left \in Nat
  PROVE  WeightOf(left) = IF left >= 100 THEN 100 ELSE left
<1>1. PICK S : S = {100, left}
  OBVIOUS
<1>2. PICK x : x = IF left >= 100 THEN 100 ELSE left
  OBVIOUS
<1>3. S \in SUBSET Int /\ x \in S /\ \A y \in S : x <= y
  BY <1>1, <1>2
<1>4. Min(S) = x
  BY <1>3, LeastOf
<1> QED BY <1>1, <1>2, <1>4 DEF WeightOf

\* What the worst episodes leave of the target.
LeftAfter(start, k) == IF 100 * k <= start THEN start - 100 * k ELSE 0

\* The weight of each of the worst episodes, and what there is after it.
TailWeights(f, w, ordered, n, start) ==
  /\ f[0] = [left |-> start, sum |-> 0]
  /\ \A k \in 1 .. n : /\ w[k] = WeightOf(LeftAfter(start, k - 1))
                       /\ f[k] = AfterLoss(f[k - 1], ordered[n + 1 - k])

LEMMA TailLeft ==
  ASSUME NEW n \in Nat \ {0}, NEW start \in Nat, NEW ordered, NEW w, NEW f,
         TailWeights(f, w, ordered, n, start)
  PROVE  \A k \in 0 .. n : f[k].left = LeftAfter(start, k)
<1> DEFINE Good == {k \in Nat : k <= n => f[k].left = LeftAfter(start, k)}
<1>1. 0 \in Good
  BY DEF TailWeights, LeftAfter
<1>2. \A k \in Nat : k \in Good => k + 1 \in Good
  <2> SUFFICES ASSUME NEW k \in Nat, k \in Good, k + 1 <= n
               PROVE  f[k + 1].left = LeftAfter(start, k + 1)
    OBVIOUS
  <2>1. k + 1 \in 1 .. n /\ (k + 1) - 1 = k /\ k <= n
    OBVIOUS
  <2>2. f[k + 1] = AfterLoss(f[k], ordered[n + 1 - (k + 1)])
    BY <2>1 DEF TailWeights
  <2>3. f[k + 1].left = f[k].left - WeightOf(f[k].left)
    BY <2>2 DEF AfterLoss
  <2>4. f[k].left = LeftAfter(start, k) /\ LeftAfter(start, k) \in Nat
    BY <2>1 DEF LeftAfter
  <2>5. PICK l \in Nat : l = f[k].left
    BY <2>4
  <2>6. f[k + 1].left = l - (IF l >= 100 THEN 100 ELSE l)
    BY <2>3, <2>5, WeightIs
  <2>7. l = IF 100 * k <= start THEN start - 100 * k ELSE 0
    BY <2>4, <2>5 DEF LeftAfter
  <2> QED BY <2>6, <2>7 DEF LeftAfter
<1> HIDE DEF Good
<1>3. Nat \subseteq Good
  BY <1>1, <1>2, NaturalInduction
<1> QED BY <1>3 DEF Good

\* The differences from a threshold, each with its weight.
Weighted(w, ordered, n, c) == [k \in 1 .. n |-> w[k] * (ordered[n + 1 - k] - c)]

\* The weighted sum is a threshold's worth of the target, and the weighted
\* differences from that threshold.
LEMMA TailAddsUp ==
  ASSUME NEW n \in Nat \ {0}, NEW start \in Nat, start <= 100 * n, NEW ordered, NEW w, NEW f,
         TailWeights(f, w, ordered, n, start), IntsTo(ordered, n), NEW c \in Int
  PROVE  f[n].sum = c * start + SumFunctionOnSet(Weighted(w, ordered, n, c), 1 .. n)
<1>1. PICK d : d = Weighted(w, ordered, n, c)
  OBVIOUS
<1>2. \A k \in 1 .. n : d[k] = w[k] * (ordered[n + 1 - k] - c)
  BY <1>1 DEF Weighted
<1> DEFINE Good == {k \in Nat : k <= n =>
                      f[k].sum = c * (start - f[k].left) + SumFunctionOnSet(d, 1 .. k)}
<1>3. \A k \in 0 .. n : f[k].left = LeftAfter(start, k) /\ f[k].left \in Nat
  <2>1. \A k \in 0 .. n : LeftAfter(start, k) \in Nat
    BY DEF LeftAfter
  <2> QED BY <2>1, TailLeft
<1>4. \A k \in 1 .. n : w[k] \in Int /\ ordered[n + 1 - k] \in Int /\ d[k] \in Int
  <2> TAKE k \in 1 .. n
  <2>1. k - 1 \in 0 .. n /\ n + 1 - k \in 1 .. n
    OBVIOUS
  <2>2. w[k] = WeightOf(f[k - 1].left) /\ f[k - 1].left \in Nat
    BY <1>3, <2>1 DEF TailWeights
  <2>3. w[k] \in Int
    BY <2>2, WeightIs
  <2>4. PICK o \in Int : o = ordered[n + 1 - k]
    BY <2>1 DEF IntsTo
  <2>5. PICK e \in Int : e = w[k]
    BY <2>3
  <2>6. d[k] = e * (o - c) /\ e * (o - c) \in Int
    BY <1>2, <2>4, <2>5
  <2> QED BY <2>3, <2>4, <2>6
<1>5. 0 \in Good
  <2>1. f[0].sum = 0 /\ f[0].left = start
    BY DEF TailWeights
  <2>2. 1 .. 0 = {} /\ SumFunctionOnSet(d, {}) = 0
    BY SumOfNone
  <2>3. c * (start - start) + 0 = 0
    OBVIOUS
  <2>4. f[0].sum = c * (start - f[0].left) + SumFunctionOnSet(d, 1 .. 0)
    BY <2>1, <2>2, <2>3
  <2> QED BY <2>4
<1>6. \A k \in Nat : k \in Good => k + 1 \in Good
  <2> SUFFICES ASSUME NEW k \in Nat, k \in Good, k + 1 <= n
               PROVE  f[k + 1].sum = c * (start - f[k + 1].left) + SumFunctionOnSet(d, 1 .. k + 1)
    OBVIOUS
  <2>1. k + 1 \in 1 .. n /\ (k + 1) - 1 = k /\ k \in 0 .. n /\ k <= n
    OBVIOUS
  <2>2. f[k].sum = c * (start - f[k].left) + SumFunctionOnSet(d, 1 .. k)
    BY <2>1
  <2>3. f[k + 1] = AfterLoss(f[k], ordered[n + 1 - (k + 1)]) /\ w[k + 1] = WeightOf(f[k].left)
    BY <1>3, <2>1 DEF TailWeights
  <2>4. PICK o \in Int : o = ordered[n + 1 - (k + 1)]
    BY <1>4, <2>1
  <2>5. PICK e \in Int : e = w[k + 1]
    BY <1>4, <2>1
  <2>6. PICK l \in Int : l = f[k].left
    BY <1>3, <2>1
  <2>7. f[k + 1].sum = f[k].sum + e * o /\ f[k + 1].left = l - e
    BY <2>3, <2>4, <2>5, <2>6 DEF AfterLoss
  <2>8. d[k + 1] = e * (o - c)
    BY <1>2, <2>1, <2>4, <2>5
  <2>9. PICK S : S = 1 .. k
    OBVIOUS
  <2>10. IsFiniteSet(S) /\ 1 .. k + 1 = S \cup {k + 1} /\ k + 1 \notin S
    BY <2>9, PlacesBefore
  <2>11. \A x \in S \cup {k + 1} : d[x] \in Int
    BY <1>4, <2>1, <2>9
  <2>12. SumFunctionOnSet(d, S \cup {k + 1}) = d[k + 1] + SumFunctionOnSet(d, S)
    BY ONLY <2>10, <2>11, SumWith
  <2>13. PICK t \in Int : t = SumFunctionOnSet(d, S)
    <3>1. \A x \in S : d[x] \in Int
      BY <2>11
    <3> QED BY <2>10, <3>1, SumIsInt
  <2>14. /\ f[k].sum = c * (start - l) + t
         /\ SumFunctionOnSet(d, 1 .. k + 1) = e * (o - c) + t
    BY <2>2, <2>6, <2>8, <2>9, <2>10, <2>12, <2>13
  <2>15. c * (start - l) + t + e * o = c * (start - (l - e)) + (e * (o - c) + t)
    OBVIOUS
  <2> QED BY <2>7, <2>14, <2>15
<1> HIDE DEF Good
<1>7. Nat \subseteq Good
  BY <1>5, <1>6, NaturalInduction
<1>8. f[n].sum = c * (start - f[n].left) + SumFunctionOnSet(d, 1 .. n)
  BY <1>7 DEF Good
<1>9. f[n].left = 0
  <2>1. n \in 0 .. n
    OBVIOUS
  <2> QED BY <1>3, <2>1 DEF LeftAfter
<1> QED BY <1>1, <1>8, <1>9

\* The target ends within the episode of a rank.
AtShare(start, q) == start <= 100 * q /\ 100 * (q - 1) < start

\* The episodes that the tail counts whole, in part and not at all.
LEMMA WeightsOf ==
  ASSUME NEW n \in Nat \ {0}, NEW start \in Nat, NEW ordered, NEW w, NEW f,
         TailWeights(f, w, ordered, n, start),
         NEW q \in 1 .. n, AtShare(start, q)
  PROVE  \A k \in 1 .. n : /\ w[k] \in 0 .. 100
                           /\ k < q => w[k] = 100
                           /\ k > q => w[k] = 0
<1> TAKE k \in 1 .. n
<1>1. PICK l : l = LeftAfter(start, k - 1)
  OBVIOUS
<1>2. l = IF 100 * (k - 1) <= start THEN start - 100 * (k - 1) ELSE 0
  BY <1>1 DEF LeftAfter
<1>3. l \in Nat
  BY <1>2
<1>4. w[k] = IF l >= 100 THEN 100 ELSE l
  BY <1>1, <1>3, WeightIs DEF TailWeights
<1> QED BY <1>2, <1>3, <1>4 DEF AtShare

\* A weight of at most the whole takes at most the excess from a difference.
LEMMA WeightedBelow ==
  ASSUME NEW e \in 0 .. 100, NEW o \in Int, NEW c \in Int
  PROVE  e * (o - c) <= 100 * ExcessOver(o, c)
<1>1. PICK z \in Int : z = o - c
  OBVIOUS
<1>2. PICK u \in 0 .. 100 : u = 100 - e
  OBVIOUS
<1>3. e * z + u * z = 100 * z
  BY <1>2
<1>4. CASE z >= 0
  <2>1. u * z >= 0
    BY <1>4
  <2> QED BY <1>1, <1>3, <1>4, <2>1 DEF ExcessOver
<1>5. CASE z < 0
  <2>1. PICK v \in Nat : v = -z
    BY <1>5
  <2>2. e * v >= 0 /\ e * z = -(e * v)
    BY <2>1
  <2> QED BY <1>1, <1>5, <2>2 DEF ExcessOver
<1> QED BY <1>4, <1>5

\* The mean of the worst share is the least, over thresholds, of the threshold
\* and the excess over it, between the quantile and the maximum.
IsWorstMean(mean, values, start, quantile, maximum) ==
  /\ mean = Min({c * start + ExcessOf(values, c) : c \in ToSet(values)})
  /\ quantile * start <= mean
  /\ mean <= maximum * start
LEMMA WorstMeanIs ==
  ASSUME NEW n \in Nat \ {0}, NEW values \in [1 .. n -> Int], NEW p \in 1 .. 99,
         NEW ordered, ordered = Ascending(values),
         NEW mean, mean = fractional_worst_tail_mean(ordered, p),
         NEW start, start = TailTarget(values, p),
         NEW r \in 1 .. n, r = RankOf(p, n)
  PROVE  IsWorstMean(mean, values, start, ordered[r], ordered[n])
<1>1. PICK D : D = 1 .. n
  OBVIOUS
<1>2. DOMAIN values = D /\ Len(values) = n /\ \A k \in D : values[k] \in Int
  BY <1>1
<1>3. PICK place : Arranges(place, n, values, ordered)
  BY <1>1, <1>2, AscendingFacts
<1>4. /\ \A m \in D : place[m] \in D /\ ordered[m] = values[place[m]] /\ ordered[m] \in Int
      /\ \A i, j \in D : i <= j => ordered[i] <= ordered[j]
  <2>1. /\ \A m \in 1 .. n : place[m] \in 1 .. n /\ ordered[m] = values[place[m]]
        /\ \A i, j \in 1 .. n : i <= j => ordered[i] <= ordered[j]
    BY <1>3 DEF Arranges
  <2>2. \A m \in D : place[m] \in D /\ ordered[m] = values[place[m]]
    BY <1>1, <2>1
  <2>3. \A m \in D : ordered[m] \in Int
    BY <1>2, <2>2
  <2> QED BY <1>1, <2>1, <2>2, <2>3
<1>5. Len(ordered) = n
  BY <1>1, <1>2, AscendingLength
<1>6. /\ start = TailTarget(ordered, p) /\ start \in Nat
      /\ 1 <= start /\ start <= 99 * n /\ p * n + start = 100 * n /\ p * n \in Nat
  <2>1. start = (100 - p) * n /\ TailTarget(ordered, p) = (100 - p) * n
    BY <1>2, <1>5 DEF TailTarget
  <2> QED BY <2>1, ShareFacts
<1>7. PICK q \in D : start <= 100 * q /\ 100 * (q - 1) < start
  BY <1>1, <1>6, RoundedUp
<1>8. r <= n + 1 - q
  <2>1. PICK x \in Nat : x = p * n
    BY <1>6
  <2>2. 100 * r <= x + 99
    BY <2>1 DEF RankOf
  <2> QED BY <1>1, <1>6, <1>7, <2>1, <2>2
<1>9. PICK f : /\ mean = f[n].sum
               /\ f[0] = [left |-> start, sum |-> 0]
               /\ \A k \in D : f[k] = AfterLoss(f[k - 1], ordered[n + 1 - k])
  <2>1. Len(ordered) \in Nat
    BY <1>5
  <2>2. PICK f : IsTailMean(fractional_worst_tail_mean(ordered, p), f, ordered, Len(ordered),
                            TailTarget(ordered, p))
    BY ONLY <2>1, TailStep
  <2>3. IsTailMean(mean, f, ordered, n, start)
    BY <1>5, <1>6, <2>2
  <2> QED BY <1>1, <2>3 DEF IsTailMean
<1>10. PICK w : w = [k \in D |-> WeightOf(LeftAfter(start, k - 1))]
  OBVIOUS
<1>11. TailWeights(f, w, ordered, n, start)
  BY <1>1, <1>9, <1>10 DEF TailWeights
<1>12. \A k \in D : /\ w[k] \in 0 .. 100
                    /\ k < q => w[k] = 100
                    /\ k > q => w[k] = 0
  <2>1. q \in 1 .. n /\ start \in Nat /\ AtShare(start, q)
    BY <1>1, <1>6, <1>7 DEF AtShare
  <2>2. \A k \in 1 .. n : /\ w[k] \in 0 .. 100
                          /\ k < q => w[k] = 100
                          /\ k > q => w[k] = 0
    BY <1>11, <2>1, WeightsOf
  <2> QED BY <1>1, <2>2
<1>13. IsFiniteSet(D) /\ \A k \in D : n + 1 - k \in D /\ ordered[n + 1 - k] \in Int
  BY <1>1, <1>4, PlacesBefore
<1> DEFINE Diff(c) == Weighted(w, ordered, n, c)
           Over(c) == Exceeding(ordered, n, c)
<1>14. \A c : \A k \in D : /\ Diff(c)[k] = w[k] * (ordered[n + 1 - k] - c)
                           /\ Over(c)[k] = 100 * ExcessOver(ordered[n + 1 - k], c)
  BY <1>1 DEF Weighted, Exceeding
<1>15. ASSUME NEW c \in Int
       PROVE  /\ mean = c * start + SumFunctionOnSet(Diff(c), D)
              /\ ExcessOf(values, c) = SumFunctionOnSet(Over(c), D)
              /\ SumFunctionOnSet(Diff(c), D) \in Int /\ SumFunctionOnSet(Over(c), D) \in Int
              /\ SumFunctionOnSet(Diff(c), D) <= SumFunctionOnSet(Over(c), D)
  <2>1. PICK d : d = Diff(c)
    OBVIOUS
  <2>2. PICK x : x = Over(c)
    OBVIOUS
  <2>3. \A k \in D : /\ d[k] = w[k] * (ordered[n + 1 - k] - c)
                     /\ x[k] = 100 * ExcessOver(ordered[n + 1 - k], c)
    BY <1>14, <2>1, <2>2
  <2>4. \A k \in D : d[k] \in Int /\ x[k] \in Int /\ d[k] <= x[k]
    <3> TAKE k \in D
    <3>1. PICK o \in Int : o = ordered[n + 1 - k]
      BY <1>13
    <3>2. PICK e \in 0 .. 100 : e = w[k]
      BY <1>12
    <3>3. PICK y : y = e * (o - c)
      OBVIOUS
    <3>4. PICK z : z = 100 * ExcessOver(o, c)
      OBVIOUS
    <3>5. y \in Int /\ z \in Int
      BY <3>3, <3>4 DEF ExcessOver
    <3>6. y <= z
      BY <3>3, <3>4, WeightedBelow
    <3>7. d[k] = y /\ x[k] = z
      BY <2>3, <3>1, <3>2, <3>3, <3>4
    <3> QED BY <3>5, <3>6, <3>7
  <2>5. f[n].sum = c * start + SumFunctionOnSet(Diff(c), D)
    <3>1. start <= 100 * n /\ IntsTo(ordered, n)
      BY <1>1, <1>4, <1>6 DEF IntsTo
    <3>2. start \in Nat
      BY <1>6
    <3>3. f[n].sum = c * start + SumFunctionOnSet(Weighted(w, ordered, n, c), 1 .. n)
      BY <1>11, <3>1, <3>2, TailAddsUp
    <3> QED BY <1>1, <3>3
  <2>6. ExcessOf(values, c) = SumFunctionOnSet(Over(c), D)
    BY <1>1, <1>3, ExcessAddsUp
  <2>7. SumFunctionOnSet(d, D) \in Int /\ SumFunctionOnSet(x, D) \in Int
    BY <1>13, <2>4, SumIsInt
  <2>8. SumFunctionOnSet(d, D) <= SumFunctionOnSet(x, D)
    BY <1>13, <2>4, SumOfSmaller
  <2> QED BY <1>9, <2>1, <2>2, <2>5, <2>6, <2>7, <2>8
<1> HIDE DEF Diff, Over
<1>16. PICK c \in Int : c = ordered[n + 1 - q] /\ c \in ToSet(values)
  <2>1. PICK j \in D : j = n + 1 - q
    BY <1>13
  <2>2. ordered[j] \in Int /\ ordered[j] = values[place[j]] /\ place[j] \in DOMAIN values
    BY <1>2, <1>4
  <2>3. ordered[j] \in ToSet(values)
    BY <2>2, Zenon DEF ToSet
  <2> QED BY <2>1, <2>2, <2>3
<1>17. \A k \in D : Diff(c)[k] = Over(c)[k]
  <2> TAKE k \in D
  <2>1. PICK o \in Int : o = ordered[n + 1 - k]
    BY <1>13
  <2>2. PICK e \in 0 .. 100 : e = w[k]
    BY <1>12
  <2>3. Diff(c)[k] = e * (o - c) /\ Over(c)[k] = 100 * ExcessOver(o, c)
    BY <1>14, <2>1, <2>2
  <2>4. CASE k < q
    <3>1. n + 1 - q <= n + 1 - k
      BY <1>1, <2>4
    <3>2. c <= o
      BY <1>4, <1>13, <1>16, <2>1, <3>1
    <3>3. e = 100
      BY <1>12, <2>2, <2>4
    <3> QED BY <2>3, <3>2, <3>3 DEF ExcessOver
  <2>5. CASE k = q
    <3>1. o = c
      BY <1>16, <2>1, <2>5
    <3>2. e * (c - c) = 0
      OBVIOUS
    <3> QED BY <2>3, <3>1, <3>2 DEF ExcessOver
  <2>6. CASE k > q
    <3>1. n + 1 - k <= n + 1 - q
      BY <1>1, <2>6
    <3>2. o <= c
      BY <1>4, <1>13, <1>16, <2>1, <3>1
    <3>3. e = 0 /\ 0 * (o - c) = 0
      BY <1>12, <2>2, <2>6
    <3> QED BY <2>3, <3>2, <3>3 DEF ExcessOver
  <2> QED BY <1>1, <2>4, <2>5, <2>6
<1>18. mean = c * start + ExcessOf(values, c)
  <2>1. SumFunctionOnSet(Diff(c), D) = SumFunctionOnSet(Over(c), D)
    BY <1>13, <1>17, SumOfEquals
  <2> QED BY <1>15, <2>1
<1>19. ordered[r] * start <= mean
  <2>1. PICK v \in Int : v = ordered[r]
    BY <1>1, <1>4
  <2>2. \A k \in D : Diff(v)[k] \in Nat
    <3> TAKE k \in D
    <3>1. PICK o \in Int : o = ordered[n + 1 - k]
      BY <1>13
    <3>2. PICK e \in 0 .. 100 : e = w[k]
      BY <1>12
    <3>3. Diff(v)[k] = e * (o - v)
      BY <1>14, <3>1, <3>2
    <3>4. CASE k <= q
      <4>1. r <= n + 1 - k
        BY <1>1, <1>8, <3>4
      <4>2. v <= o
        BY <1>1, <1>4, <1>13, <2>1, <3>1, <4>1
      <4>3. PICK z \in Nat : z = o - v
        BY <4>2
      <4>4. e * z \in Nat
        OBVIOUS
      <4> QED BY <3>3, <4>3, <4>4
    <3>5. CASE k > q
      <4>1. e = 0 /\ 0 * (o - v) = 0
        BY <1>12, <3>2, <3>5
      <4> QED BY <3>3, <4>1
    <3> QED BY <1>1, <3>4, <3>5
  <2>3. SumFunctionOnSet(Diff(v), D) \in Nat
    BY <1>13, <2>2, SumBoundsSummand
  <2>4. PICK y \in Int : y = v * start
    BY <1>6
  <2>5. mean = y + SumFunctionOnSet(Diff(v), D)
    BY <1>15, <2>4
  <2> QED BY <2>1, <2>3, <2>4, <2>5
<1>20. mean <= ordered[n] * start
  <2>1. PICK v \in Int : v = ordered[n]
    BY <1>1, <1>4
  <2>2. \A k \in D : Over(v)[k] = 0
    <3> TAKE k \in D
    <3>1. n \in D /\ n + 1 - k <= n
      BY <1>1
    <3>2. PICK o \in Int : o = ordered[n + 1 - k] /\ o <= v
      BY <1>4, <1>13, <2>1, <3>1
    <3>3. Over(v)[k] = 100 * ExcessOver(o, v)
      BY <1>14, <3>2
    <3> QED BY <3>2, <3>3 DEF ExcessOver
  <2>3. SumFunctionOnSet(Over(v), D) = 0
    BY <1>13, <2>2, SumOfZeros
  <2>4. PICK y \in Int : y = v * start
    BY <1>6
  <2>5. PICK x \in Int : x = SumFunctionOnSet(Diff(v), D)
    BY <1>15
  <2>6. mean = y + x /\ x <= 0
    BY <1>15, <2>3, <2>4, <2>5
  <2> QED BY <2>1, <2>4, <2>5, <2>6
<1>21. PICK S : S = {e * start + ExcessOf(values, e) : e \in ToSet(values)}
  OBVIOUS
<1>22. \A e \in ToSet(values) : e * start + ExcessOf(values, e) \in Int /\ mean <= e * start + ExcessOf(values, e)
  <2> TAKE e \in ToSet(values)
  <2>1. e \in Int
    BY <1>2 DEF ToSet
  <2>2. PICK y \in Int : y = e * start
    BY <1>6, <2>1
  <2>3. PICK x \in Int : x = SumFunctionOnSet(Diff(e), D)
    BY <1>15, <2>1
  <2>4. PICK z \in Int : z = ExcessOf(values, e)
    BY <1>15, <2>1
  <2>5. mean = y + x /\ x <= z
    BY <1>15, <2>1, <2>2, <2>3, <2>4
  <2> QED BY <2>2, <2>3, <2>4, <2>5
<1>23. Min(S) = mean
  <2>1. S \in SUBSET Int /\ \A y \in S : mean <= y
    BY <1>21, <1>22
  <2>2. mean \in S
    BY <1>16, <1>18, <1>21
  <2> QED BY <2>1, <2>2, LeastOf
<1> QED BY <1>19, <1>20, <1>21, <1>23 DEF IsWorstMean

\* What is known of an episode when the tail is summarized.
TailEpisodes == [loss : TailLosses, complete : BOOLEAN, audited : BOOLEAN]
TailInv ==
  /\ tail \in Seq(TailEpisodes)
  /\ tailRisk = NoTail \/ tailRisk = summarize_tail_risk(tail)

LEMMA TailInvAlways == Spec => []TailInv
<1>1. Init => TailInv
  BY DEF Init, MetricsInit, TailInv
<1>2. ASSUME TailInv, UNCHANGED <<tail, tailRisk>>
      PROVE  TailInv'
  <2>1. tail' = tail /\ tailRisk' = tailRisk
    BY <1>2
  <2>2. summarize_tail_risk(tail)' = summarize_tail_risk(tail)
    BY <2>1
  <2> QED BY <1>2, <2>1, <2>2 DEF TailInv
<1>3. ASSUME TailInv, OfferEpisode
      PROVE  TailInv'
  BY <1>3 DEF TailInv, OfferEpisode, TailEpisodes
<1>4. ASSUME TailInv, SummarizeTail
      PROVE  TailInv'
  <2>1. tail' = tail /\ tailRisk' = summarize_tail_risk(tail)
    BY <1>4 DEF SummarizeTail
  <2>2. summarize_tail_risk(tail)' = summarize_tail_risk(tail)
    BY <2>1
  <2> QED BY <1>4, <2>1, <2>2 DEF TailInv
<1>5. TailInv /\ [Next]_vars => TailInv'
  <2> SUFFICES ASSUME TailInv, [Next]_vars PROVE TailInv'
    OBVIOUS
  <2>1. UNCHANGED <<tail, tailRisk>> \/ OfferEpisode \/ SummarizeTail
    BY DEF Next, vars, Predict, Forecast, Reinforce, Imitate, Stress, Measure, metricsVars,
           MetricsNext, OpenEpisode, RecordFill, RecordMarkout, Calculate
  <2> QED BY <1>2, <1>3, <1>4, <2>1
<1> QED BY <1>1, <1>5, PTL DEF Spec

\* The parts of TailSound for one probability.
TailSoundAt(values, p) ==
  LET target == TailTarget(values, p) IN
  /\ tailRisk.var[p] = Min({c \in ToSet(values) :
                              100 * Cardinality(Upto(values, c)) >= p * Len(values)})
  /\ tailRisk.cvar[p] = Min({c * target + ExcessOf(values, c) : c \in ToSet(values)})
  /\ tailRisk.var[p] * target <= tailRisk.cvar[p]
  /\ tailRisk.cvar[p] <= tailRisk.maximum * target

LEMMA TailIsSound ==
  ASSUME TailInv
  PROVE  TailSound
<1> SUFFICES ASSUME tailRisk.status = "written"
             PROVE  TailSound
  BY DEF TailSound
<1>1. tailRisk = summarize_tail_risk(tail)
  BY DEF TailInv, NoTail
<1>2. PICK n \in Nat : n = Len(tail) /\ DOMAIN tail = 1 .. n
  BY DEF TailInv
<1> DEFINE values == [k \in DOMAIN tail |-> tail[k].loss]
<1>3. values = [k \in DOMAIN tail |-> tail[k].loss]
  OBVIOUS
<1> HIDE DEF values
<1>4. PICK ordered : ordered = Ascending(values)
  OBVIOUS
<1>5. /\ n # 0 /\ \A k \in 1 .. n : tail[k].complete
      /\ tailRisk = [status |-> "written", minimum |-> ordered[1], maximum |-> ordered[n],
                     var |-> [p \in Probabilities |-> NearestRank(ordered, p)],
                     cvar |-> [p \in Probabilities |-> fractional_worst_tail_mean(ordered, p)]]
  <2>1. RefusedTail.status # "written"
    BY DEF RefusedTail
  <2>2. tailRisk # RefusedTail
    BY <2>1
  <2>3. ~(n = 0 \/ \E k \in 1 .. n : ~tail[k].audited \/ ~tail[k].complete)
    BY <1>1, <1>2, <2>2 DEF summarize_tail_risk
  <2> QED BY <1>1, <1>2, <1>3, <1>4, <2>3 DEF summarize_tail_risk
<1>6. values \in [1 .. n -> Int]
  <2>1. \A k \in 1 .. n : tail[k].loss \in Int
    <3> TAKE k \in 1 .. n
    <3>1. tail[k] \in TailEpisodes
      BY <1>2 DEF TailInv
    <3>2. TailLosses \subseteq Int
      BY MetricsAssumption
    <3> QED BY <3>1, <3>2 DEF TailEpisodes
  <2> QED BY <1>2, <1>3, <2>1
<1>7. ASSUME NEW p \in Probabilities
      PROVE  TailSoundAt(values, p)
  <2>1. p \in 1 .. 99 /\ n \in Nat \ {0}
    BY <1>5, MetricsAssumption
  <2>2. PICK r \in 1 .. n : r = RankOf(p, n) /\ NearestRank(ordered, p) = ordered[r]
    BY <1>4, <1>6, <2>1, NearestRankIs
  <2>3. NearestRank(ordered, p)
          = Min({c \in ToSet(values) : 100 * Cardinality(Upto(values, c)) >= p * Len(values)})
    BY <1>4, <1>6, <2>1, NearestRankIs
  <2>4. PICK mean : mean = fractional_worst_tail_mean(ordered, p)
    OBVIOUS
  <2>5. PICK target : target = TailTarget(values, p)
    OBVIOUS
  <2>6. IsWorstMean(mean, values, target, ordered[r], ordered[n])
    BY <1>4, <1>6, <2>1, <2>2, <2>4, <2>5, WorstMeanIs
  <2>7. /\ tailRisk.var[p] = ordered[r] /\ tailRisk.var[p] = NearestRank(ordered, p)
        /\ tailRisk.cvar[p] = mean /\ tailRisk.maximum = ordered[n]
    BY <1>5, <2>2, <2>4
  <2> QED BY <2>3, <2>5, <2>6, <2>7 DEF TailSoundAt, IsWorstMean
<1>8. \A k \in DOMAIN tail : tail[k].complete
  BY <1>2, <1>5
<1> QED BY <1>7, <1>8, Zenon DEF TailSound, TailSoundAt, Upto, ExcessOf, values

\* The quantile of the losses is the least that enough episodes do not exceed,
\* and the mean of the worst share, the last episode counted in part
\* (aggregate.cpp), is the least of the threshold and the excess over it.
THEOREM TailAlwaysSound == Spec => []TailSound
<1>1. TailInv => TailSound
  BY TailIsSound
<1> QED BY <1>1, TailInvAlways, PTL
===============================================================================
