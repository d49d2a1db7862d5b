------------------------------ MODULE MCResearch ------------------------------
(***************************************************************************)
(* Instances of the research studies.                                      *)
(***************************************************************************)
EXTENDS ResearchStudies

\* Two lookback windows, which are also the label horizons.
MCWindows == <<1, 2>>

\* A book of two levels a side.
MCSnapshots ==
  {[level \in {"bid", "ask"} \X (1 .. 4) |->
      CASE level = <<"bid", 2>> -> 2
        [] level = <<"ask", 3>> -> 3
        [] level \in {<<"bid", 1>>, <<"ask", 4>>} -> 1
        [] OTHER -> 0]}

\* A depletion or a reduction of the best bid, the loss of the best ask, and a
\* change after which bid and ask have met.
MCChanges ==
  {<<"bid", 2>> :> 0, <<"bid", 2>> :> 1, <<"ask", 3>> :> 0,
   <<"bid", 3>> :> 1 @@ <<"ask", 3>> :> 0}
MCTrades == {[price |-> 1, lots |-> 1, maker |-> TRUE], [price |-> 3, lots |-> 2, maker |-> FALSE]}

MCSplit == [train |-> 1, validation |-> 1, calibration |-> 1, engineering_holdout |-> 2]

\* All rows late, rows by side in both ways, a calibration day of one class,
\* and a holdout unlike the days before it.
MCRows == [day : 0 .. 4, symbol : {"BTC"}, side : {"bid", "ask"}, index : 0 .. 1]
MCDepletedBy ==
  {[r \in MCRows |-> 2],
   [r \in MCRows |-> IF r.side = "bid" THEN 1 ELSE 3],
   [r \in MCRows |-> IF r.side = "bid" THEN 3 ELSE 1],
   [r \in MCRows |-> IF r.side = "bid" \/ r.day = 2 THEN 1 ELSE 3],
   [r \in MCRows |-> IF r.day = 4 \/ r.side = "ask" THEN 3 ELSE 2]}

\* Two candidates: hidden units and alpha.
MCGrid == {<<2, 1>>, <<3, 1>>}

\* A deep and rising market, and a thin one.
TwoMarkets ==
  {[bid |-> 99, ask |-> 101, bidDepth |-> 4, askDepth |-> 3, momentum |-> 1,
    spread |-> 20, imbalance |-> 14, volatility |-> 10],
   [bid |-> 97, ask |-> 103, bidDepth |-> 1, askDepth |-> 2, momentum |-> -2,
    spread |-> 60, imbalance |-> -33, volatility |-> 50]}

\* The reference case, and late and lost observations.
MCCases ==
  [central_reference |-> [dimension |-> "central", delay |-> 0, drops |-> FALSE],
   data_delay_1 |-> [dimension |-> "data_quality", delay |-> 1, drops |-> FALSE],
   data_drop_30pct |-> [dimension |-> "data_quality", delay |-> 0, drops |-> TRUE]]

\* Executions at one time in both orders of identifier, at the deadline and
\* after it, of every role; one is listed twice, and one is worth half an atom.
Fill(id, time, price, lots, fee, role, terminal) ==
  [id |-> id, time |-> time, price |-> price, lots |-> lots, fee |-> fee, role |-> role,
   terminal |-> terminal]
MCFills ==
  {Fill(1, 2, 10, 1, 1, "maker", FALSE), Fill(2, 2, 12, 1, -1, "taker", FALSE),
   Fill(2, 4, 10, 1, 0, "unknown", FALSE), Fill(3, 6, 14, 1, 2, "taker", TRUE),
   Fill(3, 6, 14, 2, 1, "taker", TRUE), Fill(4, 1, 11, 1, 0, "maker", FALSE),
   Fill(4, 5, 8, 2, 0, "maker", FALSE)}
MCMarkouts ==
  {[id |-> 1, horizon |-> 1, time |-> 3, price |-> 8],
   [id |-> 2, horizon |-> 1, time |-> 3, price |-> 14],
   [id |-> 3, horizon |-> 2, time |-> 8, price |-> 10]}

\* One decision, and two of which one was neither inferred nor dispatched.
Timing(cutoff, start, end, inference, dispatch) ==
  [cutoff |-> cutoff, start |-> start, end |-> end, inference |-> inference, dispatch |-> dispatch]
MCTimings ==
  {<<Timing(0, 1, 3, 2, 4)>>, <<Timing(0, 1, 3, 2, 4), Timing(3, 3, 4, NotMeasured, NotMeasured)>>}
MCActivities ==
  {[decisions |-> 1, submits |-> 2, cancels |-> 1, events |-> 0, wall |-> 0],
   [decisions |-> 2, submits |-> 0, cancels |-> 1, events |-> 3, wall |-> 2]}

MCScale == <<1, 2>>
=============================================================================
