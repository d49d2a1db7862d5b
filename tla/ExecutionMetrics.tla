---------------------------- MODULE ExecutionMetrics ----------------------------
(***************************************************************************)
(* Execution metrics: the calculator makes a report of the ledger of an    *)
(* episode (metrics/calculator.cpp), audits admit it, admitted episodes    *)
(* make a tail summary (metrics/aggregate.cpp), and a verifier in another  *)
(* language reconstructs both from what was written (metrics/verify.py).   *)
(*                                                                         *)
(* Times count from the parent's start.  Rates are pairs of numerator and  *)
(* denominator, probabilities are in hundredths, and the tail mean is      *)
(* represented by its sum of weighted losses, in hundredths.               *)
(***************************************************************************)
EXTENDS Integers, Sequences, FiniteSets, FiniteSetsExt, SequencesExt

CONSTANTS
  ParentTotal,      \* lots of the parent order
  ArrivalPrice, Deadline,
  QuoteScale,       \* quote atoms of a lot at one tick, as a fraction
  AtomLimit,        \* largest number of quote atoms
  FillRecords,      \* what an execution may be recorded as
  MarkoutRecords,
  TimingRecords,    \* sequences of decision timings
  Activities,       \* counts of actions, and the measurement of the run
  MaxFills, MaxMarkouts,
  TailLosses,       \* shortfalls of the tail's episodes
  Probabilities,    \* of quantile and tail mean
  TailSize          \* episodes of a tail summary

ASSUME MetricsAssumption ==
  /\ {ParentTotal, ArrivalPrice, Deadline, AtomLimit, TailSize} \subseteq Nat \ {0}
  /\ QuoteScale \in (Nat \ {0}) \X (Nat \ {0})
  /\ Probabilities \subseteq 1 .. 99
  /\ TailLosses \subseteq Int

VARIABLES
  ledger,    \* of the episode, as it is recorded
  metrics,   \* the report of the calculator, once there is one
  tail,      \* episodes offered to the tail summary
  tailRisk   \* the tail summary
metricsVars == <<ledger, metrics, tail, tailRisk>>

NoLedger == [side |-> "none"]
NoEpisode == [status |-> "none"]
RefusedEpisode == [status |-> "refused"]
NoTail == [status |-> "none"]
RefusedTail == [status |-> "refused"]

Buying(side) == IF side = "buy" THEN 1 ELSE -1
InRange(atoms) == -AtomLimit <= atoms /\ atoms <= AtomLimit

-----------------------------------------------------------------------------
(* Exact accounting.                                                       *)

NoAtoms == -1
NotMeasured == -1

\* exact_quote_notional: nothing is rounded, and nothing leaves the range.
exact_quote_notional(price, lots) ==
  LET product == price * lots * QuoteScale[1]
  IN IF product % QuoteScale[2] # 0 \/ product \div QuoteScale[2] > AtomLimit THEN NoAtoms
     ELSE product \div QuoteScale[2]

NotionalOf(f) == exact_quote_notional(f.price, f.lots)

\* Sums over the first records of a sequence, or those of a kind.
LotsOf(fills, indices) == MapThenSumSet(LAMBDA k : fills[k].lots, indices)
NotionalSum(fills, indices) == MapThenSumSet(LAMBDA k : NotionalOf(fills[k]), indices)
FeesOf(fills, indices) == MapThenSumSet(LAMBDA k : fills[k].fee, indices)
TerminalFills(fills) == {k \in DOMAIN fills : fills[k].terminal}
WithRole(fills, role) == {k \in DOMAIN fills : fills[k].role = role}

\* directional_cost: positive is worse, for either side.
directional_cost(side, execution, benchmark, fees) ==
  Buying(side) * (execution - benchmark) + fees

\* The calculator sorts the executions by time, and then by identifier.
Earlier(f, g) == f.time < g.time \/ (f.time = g.time /\ f.id < g.id)
Sorted(fills) == SortSeq(fills, Earlier)

\* The inventory after each execution, and at the deadline.
\* A slip: the deadline gets a point only when nothing was executed after it.
Trajectory_bug(fills) ==
  LET Left(k) == ParentTotal - LotsOf(fills, 1 .. k)
      points == <<<<0, ParentTotal>>>> \o [k \in DOMAIN fills |-> <<fills[k].time, Left(k)>>]
  IN IF points[Len(points)][1] < Deadline THEN Append(points, <<Deadline, Left(Len(fills))>>)
     ELSE points

Trajectory(fills) ==
  LET Left(k) == ParentTotal - LotsOf(fills, 1 .. k)
      late == {k \in DOMAIN fills : fills[k].time > Deadline}
      early == SelectSeq(fills, LAMBDA f : f.time <= Deadline)
      before == <<<<0, ParentTotal>>>> \o [k \in DOMAIN early |-> <<early[k].time, Left(k)>>]
      deadline == IF late # {} \/ before[Len(before)][1] < Deadline
                    THEN <<<<Deadline, Left(Len(early))>>>> ELSE << >>
  IN before \o deadline
       \o [k \in 1 .. Cardinality(late) |-> <<fills[Len(early) + k].time, Left(Len(early) + k)>>]

\* Values in ascending order: each in the place that as many precede.
Ascending(values) ==
  LET Before(k) == {j \in DOMAIN values : values[j] < values[k] \/ (values[j] = values[k] /\ j < k)}
  IN [n \in DOMAIN values |->
        values[CHOOSE k \in DOMAIN values : Cardinality(Before(k)) = n - 1]]

\* summarize_latency, by nearest rank.
NearestRank(ordered, p) == ordered[Max({1, (p * Len(ordered) + 99) \div 100})]
summarize_latency(values) ==
  LET ordered == Ascending(values)
  IN IF values = << >> THEN [count |-> 0]
     ELSE [count |-> Len(values), minimum |-> ordered[1], maximum |-> ordered[Len(values)],
           sum |-> MapThenSumSet(LAMBDA k : values[k], DOMAIN values),
           ranks |-> [p \in {50, 95, 99} |-> NearestRank(ordered, p)]]

-----------------------------------------------------------------------------
(* The calculator.                                                         *)

\* A record that is left out is an error of the whole episode.
FillsValid(fills) ==
  LET sorted == Sorted(fills) IN
  /\ Cardinality({f.id : f \in ToSet(fills)}) = Len(fills)
  /\ LotsOf(fills, DOMAIN fills) <= ParentTotal
  /\ \A k \in DOMAIN sorted : sorted[k].terminal =>
       k = Len(sorted) /\ LotsOf(fills, DOMAIN fills) = ParentTotal
  /\ \A k \in DOMAIN sorted :
       /\ NotionalOf(sorted[k]) # NoAtoms
       /\ InRange(NotionalSum(sorted, 1 .. k)) /\ InRange(FeesOf(sorted, 1 .. k))

\* The execution that a markout is of.
FillOf(fills, m) == CHOOSE f \in ToSet(fills) : f.id = m.id
MarkoutCost(side, fills, m) ==
  LET f == FillOf(fills, m)
  IN Buying(side) * (NotionalOf(f) - exact_quote_notional(m.price, f.lots))

MarkoutsValid(fills, markouts) ==
  /\ \A k \in DOMAIN markouts :
       /\ \E f \in ToSet(fills) : f.id = markouts[k].id /\ markouts[k].time = f.time + markouts[k].horizon
       /\ exact_quote_notional(markouts[k].price, FillOf(fills, markouts[k]).lots) # NoAtoms
  /\ \A j, k \in DOMAIN markouts : j # k =>
       <<markouts[j].id, markouts[j].horizon>> # <<markouts[k].id, markouts[k].horizon>>

TimingsValid(timings, activity) ==
  /\ \A k \in DOMAIN timings :
       LET t == timings[k] IN
       /\ t.cutoff <= t.start /\ t.start <= t.end
       /\ t.inference # NotMeasured => t.inference <= t.end - t.start
       /\ t.dispatch # NotMeasured => t.dispatch >= t.end
  /\ timings # << >> => activity.decisions = Len(timings)
  /\ activity.events > 0 <=> activity.wall > 0

\* adverse_selection: cost and lots of every horizon.
AdverseSelection(side, fills, markouts) ==
  [h \in {m.horizon : m \in ToSet(markouts)} |->
     LET of == {m \in ToSet(markouts) : m.horizon = h}
         lots == MapThenSumSet(LAMBDA m : FillOf(fills, m).lots, of)
     IN [lots |-> lots, cost |-> MapThenSumSet(LAMBDA m : MarkoutCost(side, fills, m), of),
         rate |-> <<MapThenSumSet(LAMBDA m : MarkoutCost(side, fills, m), of),
                    exact_quote_notional(ArrivalPrice, lots)>>]]

\* The cash of an execution, from signed_cash_effect.
CashSum(side, fills) ==
  MapThenSumSet(LAMBDA k : -Buying(side) * NotionalOf(fills[k]), DOMAIN fills)

\* calculate_episode_metrics, of a ledger that it accepts.
EpisodeMetrics(l) ==
  LET fills == Sorted(l.fills)
      all == DOMAIN fills
      filled == LotsOf(fills, all)
      complete == filled = ParentTotal
      benchmark == exact_quote_notional(ArrivalPrice, ParentTotal)
      shortfall == directional_cost(l.side, NotionalSum(fills, all), benchmark, FeesOf(fills, all))
      terminal == TerminalFills(fills)
      lots == LotsOf(fills, terminal)
      Latency(of(_), measured(_)) ==
        LET timed == SelectSeq(l.timings, measured)
        IN summarize_latency([k \in DOMAIN timed |-> of(timed[k])])
  IN [status |-> "written", filled |-> filled, complete |-> complete,
      notional |-> NotionalSum(fills, all), fees |-> FeesOf(fills, all),
      gross |-> CashSum(l.side, fills), net |-> CashSum(l.side, fills) - FeesOf(fills, all),
      \* a shortfall is withheld until every lot is accounted for
      shortfall |-> IF complete THEN <<shortfall, benchmark>> ELSE << >>,
      terminalLots |-> lots,
      terminalCost |-> IF terminal = {} THEN 0
                       ELSE directional_cost(l.side, NotionalSum(fills, terminal),
                                             exact_quote_notional(ArrivalPrice, lots),
                                             FeesOf(fills, terminal)),
      liquidity |-> [role \in {"maker", "taker", "unknown"} |-> LotsOf(fills, WithRole(fills, role))],
      first |-> IF fills = << >> THEN -1 ELSE fills[1].time,
      completed |-> IF complete THEN fills[Len(fills)].time ELSE -1,
      inventory |-> Trajectory(fills),
      adverse |-> AdverseSelection(l.side, fills, l.markouts),
      controller |-> Latency(LAMBDA t : t.end - t.start, LAMBDA t : TRUE),
      staleness |-> Latency(LAMBDA t : t.start - t.cutoff, LAMBDA t : TRUE),
      inference |-> Latency(LAMBDA t : t.inference, LAMBDA t : t.inference # NotMeasured),
      dispatch |-> Latency(LAMBDA t : t.dispatch - t.end, LAMBDA t : t.dispatch # NotMeasured),
      cancelRatio |-> IF l.activity.submits = 0 THEN << >>
                      ELSE <<l.activity.cancels, l.activity.submits>>,
      throughput |-> IF l.activity.events = 0 THEN << >>
                     ELSE <<l.activity.events, l.activity.wall>>]

calculate_episode_metrics(l) ==
  IF /\ FillsValid(l.fills) /\ MarkoutsValid(l.fills, l.markouts)
     /\ TimingsValid(l.timings, l.activity)
     /\ exact_quote_notional(ArrivalPrice, ParentTotal) # NoAtoms
     /\ LET m == EpisodeMetrics(l) IN
        /\ InRange(m.net) /\ (m.complete => InRange(m.shortfall[1])) /\ InRange(m.terminalCost)
        /\ m.terminalLots > 0 => exact_quote_notional(ArrivalPrice, m.terminalLots) # NoAtoms
        /\ \A h \in DOMAIN m.adverse : InRange(m.adverse[h].cost) /\ m.adverse[h].rate[2] # NoAtoms
    THEN EpisodeMetrics(l)
    ELSE RefusedEpisode

-----------------------------------------------------------------------------
(* The audit of the same program, which takes the ledger as it is listed,  *)
(* and does not look at markouts, timings or the points in between.        *)

AuditPasses(l, m) ==
  LET fills == l.fills
      all == DOMAIN fills
      filled == LotsOf(fills, all)
      notional == NotionalSum(fills, all)
      fees == FeesOf(fills, all)
      benchmark == exact_quote_notional(ArrivalPrice, ParentTotal)
      lots == LotsOf(fills, TerminalFills(fills))
      path == m.inventory
  IN /\ Cardinality({fills[k].id : k \in all}) = Len(fills) /\ filled <= ParentTotal
     /\ \A k \in all : NotionalOf(fills[k]) # NoAtoms /\ InRange(FeesOf(fills, 1 .. k))
     /\ <<m.filled, m.complete>> = <<filled, filled = ParentTotal>>
     /\ <<m.notional, m.gross, m.fees>> = <<notional, -Buying(l.side) * notional, fees>>
     /\ m.net = -Buying(l.side) * notional - fees
     /\ \A role \in {"maker", "taker", "unknown"} :
          m.liquidity[role] = LotsOf(fills, WithRole(fills, role))
     /\ m.terminalLots = lots
     /\ m.shortfall = IF filled = ParentTotal
                        THEN <<directional_cost(l.side, notional, benchmark, fees), benchmark>>
                        ELSE << >>
     /\ m.terminalCost =
          IF lots = 0 THEN 0
          ELSE directional_cost(l.side, NotionalSum(fills, TerminalFills(fills)),
                                exact_quote_notional(ArrivalPrice, lots),
                                FeesOf(fills, TerminalFills(fills)))
     /\ path[1] = <<0, ParentTotal>> /\ path[Len(path)][2] = ParentTotal - filled
     /\ \A k \in 2 .. Len(path) : path[k - 1][1] <= path[k][1] /\ path[k - 1][2] >= path[k][2]
     /\ l.activity.events > 0 => m.throughput = <<l.activity.events, l.activity.wall>>
     /\ l.activity.submits > 0 => m.cancelRatio = <<l.activity.cancels, l.activity.submits>>

-----------------------------------------------------------------------------
(* The verifier of the written evidence, one row of the ledger at a time.  *)

FirstRow == [ok |-> TRUE, ids |-> {}, time |-> 0, filled |-> 0, notional |-> 0, fees |-> 0,
             terminal |-> [lots |-> 0, notional |-> 0, fees |-> 0],
             roles |-> [role \in {"maker", "taker", "unknown"} |-> 0],
             path |-> <<<<0, ParentTotal>>>>, ended |-> FALSE]

VerifyRow(v, f) ==
  LET left == ParentTotal - v.filled
      value == NotionalOf(f)
      ends == ~v.ended /\ f.time > Deadline
      deadline == IF ends THEN <<<<Deadline, left>>>> ELSE << >>
  IN IF \/ f.id \in v.ids \/ f.time < v.time \/ f.lots > left \/ value = NoAtoms \/ ~v.ok
       THEN [v EXCEPT !.ok = FALSE]
       ELSE [v EXCEPT !.ids = @ \cup {f.id}, !.time = f.time,
                      !.filled = @ + f.lots, !.notional = @ + value, !.fees = @ + f.fee,
                      !.terminal = IF ~f.terminal THEN @
                                   ELSE [lots |-> @.lots + f.lots, notional |-> @.notional + value,
                                         fees |-> @.fees + f.fee],
                      !.roles[f.role] = @ + f.lots, !.ended = @ \/ ends,
                      !.path = @ \o deadline \o <<<<f.time, left - f.lots>>>>]

\* _verify_detailed_ledger: an episode of the evidence is complete.
TotalsVerified(l, m) ==
  LET v == FoldLeft(VerifyRow, FirstRow, l.fills)
      path == IF ~v.ended /\ v.path[Len(v.path)][1] < Deadline
                THEN Append(v.path, <<Deadline, ParentTotal - v.filled>>) ELSE v.path
      benchmark == exact_quote_notional(ArrivalPrice, ParentTotal)
  IN /\ l.fills # << >> /\ v.ok /\ v.filled = ParentTotal /\ m.complete
     /\ <<m.filled, m.notional, m.fees>> = <<v.filled, v.notional, v.fees>>
     /\ m.gross = (IF l.side = "buy" THEN -v.notional ELSE v.notional) /\ m.net = m.gross - v.fees
     /\ m.shortfall = <<directional_cost(l.side, v.notional, benchmark, v.fees), benchmark>>
     /\ m.terminalLots = v.terminal.lots
     /\ m.terminalCost =
          IF v.terminal.lots = 0 THEN 0
          ELSE directional_cost(l.side, v.terminal.notional,
                                exact_quote_notional(ArrivalPrice, v.terminal.lots), v.terminal.fees)
     /\ m.liquidity = v.roles /\ m.inventory = path

MarkoutsVerified(l, m) ==
  LET horizons == {mark.horizon : mark \in ToSet(l.markouts)}
      Marks(h) == {k \in DOMAIN l.markouts : l.markouts[k].horizon = h}
  IN /\ MarkoutsValid(l.fills, l.markouts)
     /\ DOMAIN m.adverse = horizons
     /\ \A h \in horizons :
          LET lots == MapThenSumSet(LAMBDA k : FillOf(l.fills, l.markouts[k]).lots, Marks(h))
              cost == MapThenSumSet(LAMBDA k : MarkoutCost(l.side, l.fills, l.markouts[k]), Marks(h))
          IN m.adverse[h] = [lots |-> lots, cost |-> cost,
                             rate |-> <<cost, exact_quote_notional(ArrivalPrice, lots)>>]

ActivityVerified(l, m) ==
  LET Values(of(_)) == [k \in DOMAIN l.timings |-> of(l.timings[k])]
      inferred == SelectSeq(Values(LAMBDA t : t.inference), LAMBDA x : x # NotMeasured)
      dispatched == SelectSeq(l.timings, LAMBDA t : t.dispatch # NotMeasured)
  IN /\ l.activity.submits > 0 <=> m.cancelRatio # << >>
     /\ l.activity.submits > 0 => m.cancelRatio = <<l.activity.cancels, l.activity.submits>>
     /\ l.activity.events > 0 => m.throughput = <<l.activity.events, l.activity.wall>>
     /\ \A t \in ToSet(l.timings) : t.end >= t.start /\ t.start >= t.cutoff
     /\ \A t \in ToSet(dispatched) : t.dispatch >= t.end
     /\ m.controller = summarize_latency(Values(LAMBDA t : t.end - t.start))
     /\ m.staleness = summarize_latency(Values(LAMBDA t : t.start - t.cutoff))
     /\ m.inference = summarize_latency(inferred)
     /\ m.dispatch = summarize_latency([k \in DOMAIN dispatched |->
                                           dispatched[k].dispatch - dispatched[k].end])

verify_detailed_ledger(l, m) == TotalsVerified(l, m) /\ MarkoutsVerified(l, m) /\ ActivityVerified(l, m)

-----------------------------------------------------------------------------
(* The tail summary: a share of the worst episodes, the last in part.      *)

TailTarget(losses, p) == (100 - p) * Len(losses)

\* A slip: the tail is rounded up to whole episodes.
fractional_worst_tail_mean_bug(ordered, p) ==
  LET whole == (TailTarget(ordered, p) + 99) \div 100
  IN 100 * MapThenSumSet(LAMBDA k : ordered[k], Len(ordered) - whole + 1 .. Len(ordered))

\* What is left of the target, and the sum, after each of the worst episodes.
fractional_worst_tail_mean(ordered, p) ==
  LET n == Len(ordered)
      sofar[k \in 0 .. n] ==
        IF k = 0 THEN [left |-> TailTarget(ordered, p), sum |-> 0]
        ELSE LET weight == Min({100, sofar[k - 1].left})
             IN [left |-> sofar[k - 1].left - weight,
                 sum |-> sofar[k - 1].sum + weight * ordered[n + 1 - k]]
  IN sofar[n].sum

summarize_tail_risk(episodes) ==
  LET losses == Ascending([k \in DOMAIN episodes |-> episodes[k].loss])
      count == Len(episodes)
  IN IF count = 0 \/ \E k \in 1 .. count : ~episodes[k].audited \/ ~episodes[k].complete
       THEN RefusedTail
     ELSE [status |-> "written", minimum |-> losses[1], maximum |-> losses[count],
           var |-> [p \in Probabilities |-> NearestRank(losses, p)],
           cvar |-> [p \in Probabilities |-> fractional_worst_tail_mean(losses, p)]]

-----------------------------------------------------------------------------
(* An episode is recorded and then measured; or a tail is summarized.      *)

MetricsInit == ledger = NoLedger /\ metrics = NoEpisode /\ tail = << >> /\ tailRisk = NoTail

OpenEpisode ==
  /\ ledger = NoLedger /\ tail = << >> /\ tailRisk = NoTail
  /\ \E side \in {"buy", "sell"}, timings \in TimingRecords, activity \in Activities :
       ledger' = [side |-> side, fills |-> << >>, markouts |-> << >>,
                  timings |-> timings, activity |-> activity]
  /\ UNCHANGED <<metrics, tail, tailRisk>>

RecordFill ==
  /\ ledger # NoLedger /\ metrics = NoEpisode
  /\ Len(ledger.fills) < MaxFills /\ ledger.markouts = << >>
  /\ \E f \in FillRecords : ledger' = [ledger EXCEPT !.fills = Append(@, f)]
  /\ UNCHANGED <<metrics, tail, tailRisk>>

RecordMarkout ==
  /\ ledger # NoLedger /\ metrics = NoEpisode /\ Len(ledger.markouts) < MaxMarkouts
  /\ \E m \in MarkoutRecords : ledger' = [ledger EXCEPT !.markouts = Append(@, m)]
  /\ UNCHANGED <<metrics, tail, tailRisk>>

Calculate ==
  /\ ledger # NoLedger /\ metrics = NoEpisode
  /\ metrics' = calculate_episode_metrics(ledger)
  /\ UNCHANGED <<ledger, tail, tailRisk>>

OfferEpisode ==
  /\ ledger = NoLedger /\ tailRisk = NoTail /\ Len(tail) < TailSize
  /\ \E loss \in TailLosses, complete, audited \in BOOLEAN :
       tail' = Append(tail, [loss |-> loss, complete |-> complete, audited |-> audited])
  /\ UNCHANGED <<ledger, metrics, tailRisk>>

SummarizeTail ==
  /\ ledger = NoLedger /\ tailRisk = NoTail
  /\ tailRisk' = summarize_tail_risk(tail)
  /\ UNCHANGED <<ledger, metrics, tail>>

MetricsNext ==
  OpenEpisode \/ RecordFill \/ RecordMarkout \/ Calculate \/ OfferEpisode \/ SummarizeTail

-----------------------------------------------------------------------------
(* What the lots that are left at a time should be, from the ledger alone. *)
LeftAt(l, time) ==
  ParentTotal - LotsOf(l.fills, {k \in DOMAIN l.fills : l.fills[k].time <= time})

Listed(l) == \A j, k \in DOMAIN l.fills : j < k => Earlier(l.fills[j], l.fills[k])

\* The same episode of the other side, with every price reflected at arrival.
Mirrored(l) ==
  [l EXCEPT !.side = IF @ = "buy" THEN "sell" ELSE "buy",
            !.fills = [k \in DOMAIN @ |-> [@[k] EXCEPT !.price = 2 * ArrivalPrice - @]],
            !.markouts = [k \in DOMAIN @ |-> [@[k] EXCEPT !.price = 2 * ArrivalPrice - @]]]

(* A report agrees with three other readings of its ledger.  The audit     *)
(* passes it, and so does the verifier when the episode is complete and    *)
(* its ledger is listed in order.  The inventory shown at any time, the    *)
(* deadline included, is what the executions up to that time have left.    *)
(* What the cash lacks of the arrival benchmark is the shortfall, and the  *)
(* mirrored episode of the other side has the same costs.                  *)
MetricsExact ==
  metrics.status = "written" =>
    /\ AuditPasses(ledger, metrics)
    /\ metrics.complete /\ Listed(ledger) => verify_detailed_ledger(ledger, metrics)
    /\ \E k \in DOMAIN metrics.inventory : metrics.inventory[k][1] = Deadline
    /\ \A k \in DOMAIN metrics.inventory :
         k = Len(metrics.inventory) \/ metrics.inventory[k + 1][1] > metrics.inventory[k][1] =>
           metrics.inventory[k][2] = LeftAt(ledger, metrics.inventory[k][1])
    /\ metrics.complete =>
         metrics.net + Buying(ledger.side) * metrics.shortfall[2] + metrics.shortfall[1] = 0
    /\ LET other == calculate_episode_metrics(Mirrored(ledger)) IN
         other.status = "written" =>
           /\ other.shortfall = metrics.shortfall /\ other.terminalCost = metrics.terminalCost
           /\ other.adverse = metrics.adverse /\ other.inventory = metrics.inventory

(* The quantile of a tail summary is the least loss that enough episodes   *)
(* do not exceed, and the mean of the tail is the least, over thresholds,  *)
(* of the threshold and the mean excess over it (so never below the        *)
(* quantile, nor above the maximum); nothing incomplete is in a summary.   *)
TailSound ==
  tailRisk.status = "written" =>
    LET losses == [k \in DOMAIN tail |-> tail[k].loss] IN
    /\ \A k \in DOMAIN tail : tail[k].complete
    /\ \A p \in Probabilities :
         LET target == TailTarget(losses, p)
             Upto(c) == {k \in DOMAIN losses : losses[k] <= c}
             Excess(c) == 100 * SumFunctionOnSet([k \in DOMAIN losses |-> losses[k] - c],
                                                 DOMAIN losses \ Upto(c))
         IN /\ tailRisk.var[p] = Min({c \in ToSet(losses) :
                                        100 * Cardinality(Upto(c)) >= p * Len(losses)})
            /\ tailRisk.cvar[p] = Min({c * target + Excess(c) : c \in ToSet(losses)})
            /\ tailRisk.var[p] * target <= tailRisk.cvar[p]
            /\ tailRisk.cvar[p] <= tailRisk.maximum * target
=============================================================================
