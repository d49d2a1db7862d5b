------------------------------ MODULE ExecutionEnv ------------------------------
(***************************************************************************)
(* The synthetic execution environment of the reinforcement-learning step  *)
(* and the policies that are run in it (rl/ppo.py).  An environment is one *)
(* record, its methods are operators.                                      *)
(*                                                                         *)
(* Market noise is a choice from Markets.  A cost is the tuple of what its *)
(* formula reads, so that two costs are equal whatever the coefficients    *)
(* are exactly when they were computed from the same quantities.           *)
(***************************************************************************)
EXTENDS Integers, Sequences, FiniteSets

CONSTANTS
  ParentLots,   \* parent_lots
  Steps,        \* steps_per_episode
  Markets       \* quotes, depths, momentum and classes of the observation

\* validate_config: what an episode needs, with fewer decisions and lots.  The
\* depths of a MarketState are at least one.
EpisodeContract ==
  /\ ParentLots \in Nat \ {0} /\ Steps \in Nat /\ Steps >= 2
  /\ \A m \in Markets : {"bid", "ask", "bidDepth", "askDepth", "momentum",
                         "spread", "imbalance", "volatility"} \subseteq DOMAIN m
  /\ \A m \in Markets : m.bidDepth \in Nat \ {0} /\ m.askDepth \in Nat \ {0}
ASSUME EnvAssumption == EpisodeContract

Labels == <<"wait", "passive_25", "passive_50", "aggressive_25", "aggressive_50", "aggressive_100">>
Actions == 1 .. Len(Labels)
Index(label) == CHOOSE a \in Actions : Labels[a] = label

Aggressive(label) == label \in {"aggressive_25", "aggressive_50", "aggressive_100"}
Passive(label) == label \in {"passive_25", "passive_50"}
Percent(label) ==
  CASE label \in {"passive_25", "aggressive_25"} -> 25
    [] label \in {"passive_50", "aggressive_50"} -> 50
    [] label = "aggressive_100" -> 100

SmallerOf(a, b) == IF a < b THEN a ELSE b
GreaterOf(a, b) == IF a > b THEN a ELSE b

NoCost == << >>
NoRow == [before |-> ParentLots]

\* reset.  draws counts what has been read from the random stream of the seed.
NewEnv(market) ==
  [step |-> 0, remaining |-> ParentLots, executed |-> 0, market |-> market, draws |-> 2,
   done |-> FALSE, invalid |-> 0, row |-> NoRow]

NoEnv == [step |-> 0, draws |-> 0, done |-> TRUE]

-----------------------------------------------------------------------------
\* valid_action_mask: in the last decision only aggressive orders are left.
Mask(env) ==
  IF env.remaining <= 0 THEN {Index("wait")}
  ELSE IF env.step >= Steps - 1 THEN {a \in Actions : Aggressive(Labels[a])}
  ELSE Actions

\* _quantity_for_action: the fraction rounded up, at least one lot.
quantity_for_action_bug(env, label) ==
  IF label = "wait" THEN 0
  ELSE (env.remaining * Percent(label)) \div 100 + 1

quantity_for_action(env, label) ==
  IF label = "wait" THEN 0
  ELSE SmallerOf(env.remaining, GreaterOf(1, (env.remaining * Percent(label) + 99) \div 100))

\* _passive_fill: noise decides, up to 65% of the depth.
passive_fills(env, requested) ==
  0 .. SmallerOf(requested, GreaterOf(1, (env.market.bidDepth * 65) \div 100))

\* _cost_for_fill
cost_for_fill(fill, price, depth, momentum, aggressive) ==
  IF fill <= 0 THEN NoCost
  ELSE <<fill, price, GreaterOf(1, depth), GreaterOf(0, momentum), aggressive>>

\* The impact-pressed ask at which an aggressive order trades.
PressedAsk(fill, market) == <<market.ask, fill, GreaterOf(1, market.askDepth)>>

\* step: the row that is logged for an action, its fills, and the market that
\* it leads to.  What is left at the horizon is bought in that market.
Row(env, a, label, aggressive, passive, market) ==
  LET after == env.remaining - aggressive - passive
      terminal == IF env.step + 1 >= Steps /\ after > 0 THEN after ELSE 0
  IN [before |-> env.remaining, after |-> after - terminal,
      label |-> Labels[a], effective |-> label, invalid |-> a \notin Mask(env),
      aggressive |-> aggressive, passive |-> passive,
      price |-> CASE Aggressive(label) -> PressedAsk(aggressive, env.market)
                  [] Passive(label)    -> <<env.market.bid>>
                  [] OTHER             -> << >>,
      depth |-> CASE Aggressive(label) -> env.market.askDepth
                  [] Passive(label)    -> env.market.bidDepth
                  [] OTHER             -> 1,
      momentum |-> env.market.momentum,
      terminal |-> terminal,
      terminalPrice |-> IF terminal > 0 THEN PressedAsk(terminal, market) ELSE << >>,
      terminalDepth |-> IF terminal > 0 THEN market.askDepth ELSE 1,
      terminalMomentum |-> IF terminal > 0 THEN market.momentum ELSE 0,
      reward |-> <<IF Passive(label)
                     THEN cost_for_fill(passive, <<env.market.bid>>, env.market.bidDepth,
                                        env.market.momentum, FALSE)
                     ELSE cost_for_fill(aggressive, PressedAsk(aggressive, env.market),
                                        env.market.askDepth, env.market.momentum, TRUE),
                   env.remaining, a \notin Mask(env),
                   cost_for_fill(terminal, PressedAsk(terminal, market), market.askDepth,
                                 market.momentum, TRUE)>>]

\* The environments that a step can lead to.
step(env, a) ==
  LET label == IF a \in Mask(env) THEN Labels[a] ELSE "wait"
      requested == quantity_for_action(env, label)
      After(aggressive, passive, market) ==
        LET row == Row(env, a, label, aggressive, passive, market)
        IN [step |-> env.step + 1, remaining |-> row.after,
            executed |-> env.executed + aggressive + passive + row.terminal,
            draws |-> env.draws + (IF Passive(label) THEN 2 ELSE 0) + 5,
            market |-> market, row |-> row,
            done |-> row.after = 0 \/ env.step + 1 >= Steps,
            invalid |-> env.invalid + IF row.invalid THEN 1 ELSE 0]
  IN {After(IF Aggressive(label) THEN requested ELSE 0, passive, market) :
        passive \in (IF Passive(label) THEN passive_fills(env, requested) ELSE {0}),
        market \in Markets}

\* reconstruct_reward: what the log row alone says of the reward.
reconstruct_reward(row) ==
  <<cost_for_fill(row.aggressive + row.passive, row.price, row.depth, row.momentum, row.aggressive > 0),
    row.before, row.invalid,
    cost_for_fill(row.terminal, row.terminalPrice, row.terminalDepth, row.terminalMomentum, TRUE)>>

-----------------------------------------------------------------------------
(* Policies: functions of an observation, which is that of an environment,  *)
(* and of the valid actions.  Fractions of time and inventory are compared *)
(* exactly, after multiplication with their denominators.                  *)

\* time_remaining_fraction, as a share of Steps - 1.
TimeLeft(seen) == GreaterOf(0, Steps - 1 - seen.step)

\* immediate_policy: the whole remainder, or the last action that is valid.
immediate_policy(mask) ==
  IF Index("aggressive_100") \in mask THEN Index("aggressive_100")
  ELSE CHOOSE a \in mask : \A b \in mask : b <= a

OrImmediate(mask, label) == IF Index(label) \in mask THEN Index(label) ELSE immediate_policy(mask)

wait_policy(mask) == OrImmediate(mask, "wait")

\* twap_policy: urgency is inventory over time, time at least 0.05.
twap_policy(seen, mask) ==
  LET inventory == 1000 * seen.remaining * (Steps - 1)
      time == ParentLots * GreaterOf(5 * (Steps - 1), 100 * TimeLeft(seen))
  IN OrImmediate(mask, CASE 10 * inventory > 120 * time -> "aggressive_50"
                         [] 10 * inventory > 70 * time /\ 10 * inventory <= 120 * time -> "aggressive_25"
                         [] OTHER -> "passive_25")

\* liquidity_aware_policy: spread, imbalance and volatility in hundredths.
liquidity_aware_policy(seen, mask) ==
  LET hundredths == 100 * seen.remaining * (Steps - 1)
      late == 100 * TimeLeft(seen) < 25 * (Steps - 1)
      behind == hundredths > ParentLots * (100 * TimeLeft(seen) + 35 * (Steps - 1))
      urgent == late \/ behind
      m == seen.market
      leaning == (m.spread <= 40 /\ m.imbalance < -15) \/ m.volatility > 35
  IN OrImmediate(mask,
       CASE urgent /\ hundredths < 65 * ParentLots * (Steps - 1)  -> "aggressive_50"
         [] urgent /\ hundredths >= 65 * ParentLots * (Steps - 1) -> "aggressive_100"
         [] ~urgent /\ leaning                                    -> "aggressive_25"
         [] ~urgent /\ ~leaning /\ m.imbalance > 10               -> "passive_50"
         [] OTHER                                                 -> "passive_25")

\* What a policy may choose.  A trained one and the random one choose from
\* the mask; an arbitrary caller of step does not look at it.
ActionsOf(policy, seen, mask) ==
  CASE policy = "immediate" -> {immediate_policy(mask)}
    [] policy = "twap"      -> {twap_policy(seen, mask)}
    [] policy = "liquidity" -> {liquidity_aware_policy(seen, mask)}
    [] policy = "wait"      -> {wait_policy(mask)}
    [] policy = "unmasked"  -> Actions
    [] OTHER                -> mask
=============================================================================
