# A formal model of the execution core and its research pipeline

TLA+ modules, TLC configurations and TLAPS proofs for
`robust-ml-optimal-execution`. The repository is a C++20 market core (matching
engine, simulation kernel, execution policy, metrics) and a Python pipeline
around it that captures market data, validates and replays it, trains policies
and judges them. The model covers what depends on *order*: what the exchange
does with a book and when participants learn of it, whether books and ledgers
that are kept elsewhere agree with the exchange's, what a capture keeps
through gaps and crashes, and which data reaches which step of a study.

Paths below are relative to the repository; Python paths leave out
`python/robust_execution/`.

## 1. The system

### 1.1 Components

| Component | State it keeps | Operations | Model |
|---|---|---|---|
| Matching engine, `cpp/src/exchange` | two ordered maps of price levels with FIFO lists, five order indices, four counters | `submit`, `cancel`, `replace`, queries, `validate_invariants` | `MatchingEngine`, `PriceTimeMarket`, `MatchingEngine_proofs` |
| Simulation kernel, `cpp/src/simulation` | task queue, virtual time, three counters, known event ids, delivered events, failures, an engine | `schedule_*`, `run_until`, `run_all`, `process_exchange` | `SimulationKernel`, `KernelSession`, `KernelSession_proofs` |
| Execution state, `cpp/src/policy/state.cpp` | child orders, parent ledger, ids already applied, terminal flags | `register_action`, `apply_delivered_event`, `apply_engine_failure`, `mark_terminal_completion_pending` | `ExecutionState`, `ExecutionSystem_proofs`, `ExecutionLedger_proofs` |
| Action validator, dispatch, terminal planner, `cpp/src/policy/{action,dispatch,terminal}.cpp`, and the loop of `cpp/apps/re_policy_demo.cpp` | attempts of the planner, decision time, cursor into delivered events | `validate`, `dispatch_validated_action`, `plan`; run, ingest, decide | `ExecutionSystem`, `ExecutionSystem_proofs`, `ExecutionLedger_proofs` |
| Execution metrics, `cpp/src/metrics`, `metrics` | an episode's ledger and report | `calculate`, `audit`, `aggregate`, the Python verifier | `ExecutionMetrics`, `ResearchStudies_proofs` |
| Market data capture, `data_capture` | a depth synchroniser and a snapshot task per symbol, an open segment, a manifest | `push_depth`, `install_snapshot`, `run`, `write`, `close`, `verify_capture_manifest` | `DepthSynchronizer`, `CaptureRun`, `CaptureRun_proofs` |
| Data validation, canonical data, historical tables, `data_validation`, `canonical_data`, `historical_replay` | files of one stage, read by the next | `validate_capture_data`, `build_canonical_dataset`, `build_historical_replay`, their verifiers | `DataValidation`, `CanonicalData`, `HistoricalReplay`, `DataPipeline`, `DataPipeline_proofs` |
| Prediction data, `prediction/builder.py` | a stream of events, a dataset | features and labels of a decision | `PredictionData` |
| Forecast models, `prediction/{simple,temporal}_models.py` | rows by segment, candidates, a model, its calibrator | select, stop early, refit, calibrate, report | `ForecastTraining` |
| Reinforcement learning study, `rl` | environment, rollout, seeds | `step`, `_collect_rollout`, `_gae`, `evaluate_policy` | `ExecutionEnv`, `PolicyTraining`, `ResearchStudies_proofs` |
| Imitation study, `imitation` | model, threshold, correction rows | select, choose threshold, roll out, correct, evaluate | `ImitationStudy`, `ResearchStudies_proofs` |
| Robustness matrix and statistics, `robustness`, `statistics` | cells of cases and policies, rankings, resamples | stress episodes, ranking, bootstrap, Holm | `StressStudy`, `ResearchStudies_proofs` |
| Policy observation and accounting arithmetic | trailing market history | `ingest`, `build` | not modelled |
| C++ historical replay and queue models, `cpp/src/historical` | cursor, connection epoch, book; three queue positions per order | `advance`, `observe_*` | not modelled |
| Strategies, `cpp/src/strategies` | schedules, planned lots | `decide` | any permitted action stands for them |
| Synthetic generator, `cpp/src/synthetic` | intensities, own live orders | `run` | its commands are the "other participants" |
| Event model and audit, logical random numbers, hashing, simulator validation gate, build information, demos | none, or tests only | pure functions | not modelled |
| Queue model verification, specification, performance, analysis, command line (Python) | none | checks and drivers | not modelled |

### 1.2 How they interact

```
 strategy / terminal planner                 other participants
        |  action                                   | command
        v                                           v
   validator -> dispatch  --schedule_*-->  simulation kernel (virtual time)
        ^          |                          | ExchangeReceive, ExchangeProcess
        |          | register_action          v
   execution state <--- delivered events --- ObserverAvailable <--- matching engine
        ^                                     |
        +--------- apply_engine_failure <---- failures()
        |
        +--> episode ledger --> calculator --> audit, verifier, tail summary

 exchange --websocket--> collector --segments, snapshots, manifest--> validation
          --REST-------> (snapshot tasks)                                 | report
                                                                          v
    forecasts <-- prediction data <-- historical replay <-- canonical dataset
                                            environment --> PPO, imitation
                                                 +--> stress matrix --> inference
```

A command is decided on a snapshot, takes time to the exchange, is matched there
against a book that has moved on, and the answers take time back. The kernel
owns the engine and calls it synchronously; policy and kernel are joined only by
`schedule_*` calls, the vector `delivered_events()` and the vector `failures()`.
All C++ objects are used by one thread: what interleaves are *tasks in virtual
time*. The collector is one asyncio task with snapshot tasks beside it, which run
where it awaits. The stages of the pipeline and the studies are commands of their
own that meet only in files.

What is hard:

* a fill can be on its way when the next decision is made;
* several replies to one command share an availability time, and with a latency
  range the replies to a later command can overtake those to an earlier one;
* a cancel or replace can lose against a fill, and is then answered by no event;
* counters are 64-bit and exhausting one throws in the middle of an operation;
* the hard completion of a parent order is a sequence of cancels, an aggressive
  order and a fallback, each of which waits for replies;
* the feed repeats, skips and corrupts; a snapshot arrives after events that are
  already past it, or after its task was given up; the process may die between
  any two steps that make a capture durable;
* three stages decide what may be research data, each on the answer of the one
  before, and two clocks (exchange and receive time) order the same events;
* a model is made of a scaler, weights and a calibrator (or a threshold) that are
  fitted one after the other to segments which must not reach into what they are
  judged on, and stay valid only until the model is changed;
* policies are compared on *paired* episodes, which rests on the order of draws.

### 1.3 What makes each part correct

* Engine: the book is never crossed, each level is a FIFO queue, the indices
  describe the same orders, lots are neither lost nor invented, fill-or-kill is
  atomic, post-only passive, ended orders stay ended, identifiers are never
  reissued, and calls return. In one sentence: it *is* a price-time market.
* Kernel: nobody observes an event before its time or out of order, replies keep
  their order of emission, no accepted command disappears or is processed twice.
* Execution state and policy: whatever is in flight, ledger and children end up
  exactly where the exchange has them, the parent is never overfilled, a completed
  parent is flat, and every parent completes.
* Metrics: the calculator, its audit, the Python verifier and the ledger itself
  agree on every number; the tail mean counts the right share.
* Capture: a synchronised book is the exchange's, every other book has its snapshot
  on the way, what verifies is complete, and a run ends.
* Pipeline: a valid day has lost nothing, conversion is exact, only admitted days
  become research data, replayed observations are of the exchange's book.
* Studies: features are causal and labels of the future, nothing is fitted to what
  it is judged on, selection is optimal, returns stay inside their episode,
  hand-over thresholds belong to the model that acts, inference is consistent.

`PROJECT.json` lists the hazards, each at its line, with the properties that
cover it.

## 2. The modules

```
PriceTimeMarket  <--INSTANCE--  MatchingEngine  <--  MCMatchingEngine
                                      ^
                                      +--  MatchingEngine_proofs

SimulationKernel  <--  KernelSession  <--  KernelSession_proofs
        ^
        +--------------  ExecutionSystem  <--  MCExecutionSystem
ExecutionState  <-------------+  ^
                                 +--  ExecutionSystem_proofs  <--  ExecutionLedger_proofs

DepthSynchronizer  <--  CaptureRun  <--  MCCaptureRun, CaptureRun_proofs
        ^
        +---  DataValidation  <--  CanonicalData  <--  HistoricalReplay  <--  DataPipeline

DataPipeline  <--  MCDataPipeline, DataPipeline_proofs

ExecutionEnv  <--  PolicyTraining, StressStudy
PredictionData, ForecastTraining, PolicyTraining, ImitationStudy, StressStudy,
ExecutionMetrics  <--  ResearchStudies  <--  MCResearch, ResearchStudies_proofs

SumTheorems  <--  MatchingEngine_proofs, CaptureRun_proofs, KernelSession_proofs,
                  ExecutionSystem_proofs, DataPipeline_proofs, ResearchStudies_proofs
```

(An arrow without a word is EXTENDS; the module at its tip is extended.)
Operators and variables keep the names of the functions and members where
they have one; the actions of callers, loops and the outside world are capitalised.
A definition whose name ends in `_bug` is a plausible slip in the definition that
follows it. No specification uses it; it is there to check that the properties
would notice.

### 2.1 MatchingEngine and PriceTimeMarket

State: `levels`, `queue` and `total` are `bids_`/`asks_` (which prices have a level, the
list of each level, its cached quantity); `active_by_exchange`,
`active_by_client`, `exchange_by_client`, `orders_by_exchange` and `all_client_ids`
are the indices; the four `next_*` variables are the counters, with 0 for
exhausted as in the code. `incoming` is the local order of a call that is being
matched.

| Action | Code |
|---|---|
| `Submit` | `submit` up to the call of `match_incoming`: validation, identifier capacity, fill-or-kill and post-only tests, level capacity, acceptance |
| `Replace` | `replace` up to the same point, including the removal of the old order |
| `Cancel` | `cancel`, whole |
| `MatchOne` | one iteration of `match_level` |
| `FinishFilled`, `FinishRest`, `FinishCancelled` | what happens to the order after the loop, `rest_in_book` included |

Splitting a call into its iterations lets `MatchingProgresses` speak of the loop's
termination, `AllocationNeverThrows` of every allocation inside it, and
`BookUncrossed` of the book in the middle of it. No command is accepted while
`incoming` is set, so the split does not add behaviour: the engine is
single-threaded. A refused command changes nothing and is a stuttering step;
`SubmitOutcome`, `ReplaceOutcome` and `locate_active` give the codes in the order
in which the code tests for them.

Left out: parent and decision ids, timestamps (a command with invalid ones has
`wellFormed = FALSE`), the canonical state string, and `validate_invariants`,
which only reads. Its invariants are the properties of the model.

`PriceTimeMarket` is the abstract promise: a set of resting orders, one aggressor
at a time, "best price first, then the earlier order". It has no levels, queues,
indices or totals. `MatchingEngine!ImplementsMarket` states the refinement:
`resting` is the set of active orders and `aggressor` the order in `incoming`.
The market's priority is by exchange id, whereas the engine keeps a separate
priority sequence and list positions; that these agree is part of what the run shows.

### 2.2 SimulationKernel and KernelSession

`SimulationKernel` has the kernel object as one record and each member function as
an operator on it. An exception leaves with what the function has changed so far
and sets `thrown`, because the C++ object stays usable after it. `IsTop` is the
priority queue's order: time, stage, canonical sequence, task id. Latencies are
choices from sets; stages between which nothing can happen are merged.

`KernelSession` is the most general user: it schedules commands, timers and market
events (which bring their own ids and sequences) at times of its choosing, and
runs the kernel up to some time; the engine answers a command with up to
`MaxReplies` replies or a failure. `accepted`, `processed` and `lost` are history
variables.

### 2.3 ExecutionState and ExecutionSystem

`ExecutionState` translates the state's member functions: `register_action`, the seven
event handlers behind `apply_delivered_event`, `apply_engine_failure`. Issues are
collected in a set. Prices, cash and fees are left out.

`ExecutionSystem` composes it with the kernel, and adds:

| Action | Code |
|---|---|
| `DispatchTask` | one task of `run_until(clock)`; commands meet the exchange |
| `ApplyDelivered` | one iteration of the loop that ingests delivered events |
| `RouteFailure` | `apply_engine_failure` for a recorded failure, when the reply would have arrived |
| `Decide` | a strategy's action that `validate_*` accepts, through `dispatch_validated_action` |
| `PlanTerminal` | the plan of the terminal controller, by kind, and what the loop does with it |
| `OtherParticipant` | somebody else's command, through the same kernel |
| `AdvanceClock` | the next decision time |

The exchange here is `MatchingEngine` with everything but the parent's own orders
forgotten: how many lots a command trades, in how many matches (at most two), is a
choice, and so is a refusal for a reason that lies in the rest of the book. Orders
keep the fields that replies carry. But for the bound of two matches the choice only adds
behaviour, so the safety properties that hold here hold with the real book. The violation runs need no
unusual choice: one trade with a resting order is enough in both.

`RoutesFailures` says whether the loop hands failures to the execution state. In
the repository only tests call `apply_engine_failure`; the demo's loop does not,
and the runs check both.

Left out: limit prices and their placement rules, decision ids, cash and fees,
and the fee, cancel-rejection and replace-rejection handlers, whose events the
kernel never emits.

### 2.4 DepthSynchronizer and CaptureRun

`DepthSynchronizer` is `data_capture/sequence.py`: one record per symbol (state,
book, last update, buffered events, the reported intervals) and an operator per
method. The exchange is a constant, `Truth`: its book after every update. An event
brings the levels that any of its updates changed, a snapshot is the book at some
update. An event whose levels the book refuses has `bookable = FALSE`.

`CaptureRun` is one `BinanceRawCollector.run`. `pc` names where the run is; other
tasks run only where it awaits (`opening`, `receive`, `backoff`).

| Action | Code |
|---|---|
| `Begin`, `Connect`, `LoopEnds`, `SocketOpens`, `SocketFails`, `Retry` | the connection loop with its limits and its backoff |
| `LoopStops`, `InstallSnapshot`, `TaskRaises`, `Drain`, `Wait`, `Timeout` | one turn of the receive loop: limits, finished snapshot tasks, buffered events, the next message |
| `DepthMessage`, `MalformedDepth`, `OtherMessage`, `ServerShutdown`, `Undecodable` | what a message does: it is written first and then booked; a gap or a malformed event starts a new snapshot |
| `AppendFails`, `DaySealFails`, `BrokenWriter` | disk errors, which the transport handler takes for lost connections |
| `SnapshotArrives`, `SnapshotFails`, `OrphanArrives` | a snapshot task; the last is that of a task that was given up, whose thread writes the file all the same |
| `SealLast`, `WriteManifest`, `WriteDigest` | the `finally` block |
| `Tick`, `Crash` | time; the process ends anywhere, and what is durable by then may be any prefix of what a seal does |

`Verifies` is `verify_capture_manifest` on what is on disk. Left out: texts of errors,
byte counts, the fsync policy. The websocket and the REST service are external.

### 2.5 DataValidation, CanonicalData, HistoricalReplay and DataPipeline

The first three are batch transformations, and are operators: `Issues`, `Decision` and
`validate_capture_data` for the validator, `deduplicate`, `build_rows`, `snapshot_rows` and
`build_canonical_dataset` for the builder, `Unfit`, the staged order and the
delivery for the replay, each with its verifier. The builder's sort of the staged events is the
function that gives each the rank of its key (`InOrder`): no two keys are equal. A record keeps its connection,
index, both times, the day of its segment, and whether its envelope is intact. That
validation replays a snapshot against the events in file order, with the
synchroniser's own rules, is modelled with `DepthSynchronizer`. Loops over records are
recursive functions of the number of records done (`Installed` repeats `ApplyNext`,
`deduplicate` repeats `Keep`); `ElementsAt` picks the records of one connection or kind.

`DataPipeline` records a capture message by message and then runs the stages, each
with any days and any tier asked for, as the command line does. `UnitsExact` and
`ObservationsFaithful` compare with `Truth`.

Columnar storage, digests of bytes and the many field checks of an envelope are one
decision each (`intact`).

### 2.6 The studies and the metrics

| Module | State | Actions |
|---|---|---|
| `PredictionData` | `stream`, `dataset` | the next event of a source with both of its times; a build, whose rows are features and labels of both sides of every decision, or a refusal |
| `ForecastTraining` | rows, `training` of one candidate, `candidates`, `final_model`, `holdout` | generate, one epoch with any losses (diverged ones included), early stop, select, refit, calibrate, forecast, report |
| `ExecutionEnv` | one environment (record) | `Mask`, `step` with its reward and its log row; `draws` counts what was read from the episode's random stream |
| `PolicyTraining` | `batch`, `model`, `results` by seed and split | rollouts, the backward pass, updates, evaluation of trained and baseline policies |
| `ImitationStudy` | `fitted`, `selection`, `threshold`, `rollout` | candidates, threshold, rollouts with hand-over, correction round, evaluations |
| `StressStudy` | `cell`, `history`, `lost`, `paths`, `resample` | episodes with late and lost observations, ranking, block length, Holm's adjustment, block resamples |
| `ExecutionMetrics` | `ledger`, `metrics`, `tail`, `tailRisk` | the ledger record by record; `calculate` with its refusals; the tail summary. Audit and verifier are operators of their own, translated from their own code |
| `ResearchStudies` | `study` | one study from its start: they share no state |

What is numerical is a choice from a small set: losses, scores, forecasts, the cost of
an episode, p-values, the market a step moves to. What an optimiser or a network
computes cannot be checked this way; what the program *does* with any such number can.
Times, prices and money are small integers, with costs multiplied out so that nothing is
rounded that the code does not round.

## 3. What is checked

`tlc -workers 2 -config <cfg> <module>` in this directory; every run takes less than
five minutes.

| Run (configuration, distinct states) | Question | Answer |
|---|---|---|
| `engine_terms` (`MCEngineTerms`, 166 thousand) | Do level totals, lot conservation, fill-or-kill and post-only survive every valid command, every refused combination of terms and ill-formed command at one quantity, and every quantity of a plain limit order, on levels at their limits? Does every call end? | yes |
| `engine_depth` (`MCEngineDepth`, 155 thousand) | Is the engine a price-time market through sweeps, cancels and replaces in the middle of queues, and when identifiers run out? | yes |
| `kernel_session` (`MCKernelSession`, 1.5 million) | Are events observed in order, replies in emission order, commands processed first-in-first-out, each exactly once, whatever throws? | yes |
| `system_fixed` (`MCSystemFixed`, 555 thousand) | Fixed latencies, submits and cancels: are ledger and children exact and the parent never overfilled? | yes |
| `system_replace` (`MCSystemReplace`, 222 thousand) | With replacements: is a live order ever forgotten, is anything refused before an overfill? Do commands resolve and parents complete? | no, no, and yes |
| `capture` (`MCCapture`, 1.4 million) | Are books, intervals, snapshots and manifests right through gaps, late snapshots, faults and crashes, and does a run end? | yes |
| `pipeline` (`MCPipeline`, 275 thousand) | From a capture to replayed observations: is anything lost, doubled, rounded, or admitted that should not be? | no |
| `research` (`MCResearch`, 843 thousand) | Is each study right whatever its numbers are, and do the metrics agree with their audit? | yes |
| `stale_replace` (`MCSystemStaleReplace`) | Is the ledger exact with replacements? | **no** (F1) |
| `unrouted_failure` (`MCSystemUnrouted`) | Do commands resolve when the loop reads delivered events only? | **no** (F2) |
| `pipeline_delayed` (`MCPipelineDelayed`) | Are observations the exchange's book with a processing delay? | **no** (F3) |
| `unpaired_paths` (`MCResearchUnpaired`) | Do two policies on one seed see one market? | **no** (F4) |

A property is often the conjunction of named parts that answer one question:

| Property | Parts |
|---|---|
| `TermsKept` | `FillOrKillAtomic`, `PassiveAndAggressive` |
| `BookConsistent` | `BookUncrossed`, `LevelsFifo`, `IndicesAgree` |
| `HistoryFinal` | `TerminalForever`, `IdentifiersUnique` |
| `QueueSound` | `TypeOK` of the kernel (nothing is due in the past), `CommandsAccounted`, `EventIdsUnique` |
| `DeliveryOrdered` | `DeliveredInOrder`, `RepliesInOrder`, `FirstInFirstOut` |
| `ChildrenTracked` | `TypeOK`, `FillsNeverRefused`, `ChildrenAgree` |
| `ParentRespected` | `NeverOverfilled`, `CompletedMeansFlat`, `OneDecisionInFlight` |
| `ExactUnlessOverfill` | `OverfillRefusedFirst`; `LedgerExact` and `ChildrenAgree` while nothing is refused |
| `BooksSound`, `SnapshotsAccounted`, `VerificationExact` | `BookFaithful` and `IntervalsForward`; `SnapshotWhenNeeded` and `SnapshotsListed`; `VerifiedIsExact` and `FinishedRunVerifies` |
| `CanonicalExact` | `DeduplicationExact`, `UnitsExact` |
| `FeaturesSound`, `LabelsSound` | `FeaturesCausal`, `OnePath` and `SidesMirror`; `LabelsMeetTarget` and `NoResetInside` |
| `FittedAsDeclared`, `SelectionSound`, `ReportSound` | `NoLeakage` and `CardIsTrue`; `SelectedIsBest` and `CalibrationFits`; `ReportAddsUp` and `ProxyDecidesWell` |
| `EpisodesExact`, `TrainingSound` | `LotsConserved`, `RewardReconstructs` and `StudyActionsValid`; `ReturnsOwnEpisode` and `EverySeedReported` |
| `FallbackSound` | `HandoverHelps`, `ThresholdReliable`, `ThresholdFresh`, `SelectionBest` |
| `StressedSound`, `InferenceSound` | `DegradedPoliciesValid` and `DeliveredIsPast`; `RankingsAddUp`, `HolmStepDown`, `BootstrapUniform` and `DominatedNeverWins` |

`MetricsExact` relates a report to four other readings of its ledger: the audit, the Python
verifier, a direct count of what is left at every time, and the mirrored episode of the
other side. `TailSound` defines the tail mean in another way than the code: as the least,
over thresholds, of the threshold plus the mean excess.

### 3.1 Findings

* **F1, `cpp/src/policy/state.cpp:174`.** A replacement is sized by the residual of
  the snapshot it was decided on. If the order it replaces has been filled partly in
  between, the replacement is for more than what is left: the parent is overfilled
  at the exchange, the last fill is dropped with `parent_overfill`, and the child
  stays live in the state although it is filled. `NoForgottenOrder` and
  `ExactUnlessOverfill` bound the damage: no order that may trade is forgotten, and nothing goes
  wrong before that fill. More may go wrong after it: with three lots, a child whose first fill
  was dropped refuses the next one for its cumulative quantity. An issue that has been noted
  stays (theorem `IssuesStay`), so a run that ends without one has an exact ledger.
* **F2, `cpp/src/simulation/kernel_exchange.cpp:194`.** `docs/simulation/DESIGN_DECISIONS.md`
  says that terminal cancel and replace failures are published. They are only
  recorded in `failures()`, which nothing outside the tests reads into the
  execution state, so the child keeps `cancel_pending` for good.
* **F3, `historical_replay/builder.py:301`.** A connection's reset is staged at its
  receive time, all other events a processing delay later. What the old connection
  received just before the reset is replayed after it, onto the cleared book, and
  marks that partial book as synchronised. Without a delay (`pipeline`)
  `ObservationsFaithful` holds.
* **F4, `rl/ppo.py:337`.** `_passive_fill` draws from the random generator that the
  market is drawn from, and only passive actions do. From the first passive order on,
  two policies on one seed see different markets; the statistics documentation pairs
  them as one path.

Other things met while modelling, which no run of their own shows:

* Latencies are drawn per command. With a latency *range* the fill that a later
  command causes can overtake the acknowledgement of the resting order, and
  `apply_order_ack` then resets what the fill has booked (`state.cpp:212`). The
  system runs have fixed latencies.
* The planner puts all live children into one cancel action, and the validator refuses
  more than `maximum_commands_per_decision` (`terminal.cpp:48`). With more live children
  than that, plan and refusal repeat and the hard completion never happens.
* A market event with the last sequence exhausts the kernel's counter, and one with a
  small sequence revives it (`kernel.cpp:111`).
* A capture in which a depth event lies wholly before the snapshot validates, as
  `docs/data/BINANCE_SPOT_FEED_CONTRACT.md` lets it, but the replay builder refuses it: its
  continuity test starts at the snapshot (`builder.py:381`). It errs on the safe side.
* A late event that had happened by the cutoff enters the labels' book but not the
  features' (`prediction/builder.py:293`); `LabelsMeetTarget` is stated for decisions
  at which everything that had happened was known (`InTime`). No property is
  about the other decisions.
* The card of the base rate names the final fit of the other families; `CardIsTrue`
  excepts it.
* A build that is refused leaves its directory, which blocks the next attempt, and a
  crash between the manifest and its digest leaves a capture that never verifies.
* The threshold search of the imitation study falls back to its last candidate when none
  is reliable, and `learning.py:503` writes completion and invalid rates as constants.
  No stress case combines delay and drops.
* The Python metrics verifier recomputes neither the time to completion nor averages,
  benchmarks or terminal costs. It refuses a ledger that lists executions of one time out
  of the order of their ids, which the calculator accepts; hence `Listed` in `MetricsExact`.
* The calculator adds fees in the order of time and the audit in the order of the ledger, so
  that close to the limits of 64 bits one could overflow where the other does not. The
  fees of the run are far from its limit.

### 3.2 Bounds, and why they are enough

* `engine_terms`: three orders, two prices, quantities 0 to 3 with a valid range of
  1 to 2, levels of at most three lots and two orders. Both kinds of level capacity
  are reached, each with an order that would just not fit, and every outcome of
  the validation occurs.
* `engine_depth`: four plain limit orders of one or two lots on two prices: queues of
  up to three orders, a taker that empties one level and goes on to the next, and
  removals at the front, in the middle and at the back of a queue. Five clients for four
  identifiers, so that order ids, priorities and executions (two per match) run out,
  the last while the book still holds orders that a taker could have met. Client ids
  are only compared for equality, hence the symmetry.
* `kernel_session`: three calls of any kind, times 0 to 3, counters to 8, each latency 0 or
  1. Three are the fewest calls with which two commands and a caller that interferes
  between two runs meet. Market events bring the ids and sequences 1 and 8,
  so they collide with the kernel's own and exhaust both counters.
  `FirstInFirstOut` would not hold in a longer session, because a revived counter (see
  above) takes four calls here and 2^64 events in practice.
* `system_*`: parents of two or three lots, fractions one half and all, one command of
  another participant, one unit of time to the exchange and one back. A decision, a
  crossing fill and the terminal sequence then all overlap. `system_replace` needs three lots:
  with two, no second fill of a child can follow one that was dropped. `EndTime` 3 or 4 leaves
  room for one or two decisions before the horizon. `TimeLimit` and `Limit` are large
  enough not to be reached: exhaustion is the subject of `kernel_session`.
* `capture`: one symbol (symbols share only the writer and the loop; the proofs are for any
  number), four updates in events that follow each other, overlap a snapshot, leave a gap or
  are refused, a snapshot before and one in the middle of them, two connections, two days of
  one tick, segments of two records and three messages: a segment fills, a day changes,
  both connections can fail, and a writer that one disk fault has broken meets another
  message. A crash can come anywhere.
* `pipeline`: three records over two connections and two days, one anomaly (a broken
  record, a foreign type, an event time after its receipt, a missing or a second snapshot). Repeats need
  two records and a gap three; a second anomaly adds a second reason for what is
  already refused. Quantities are multiples of the increment except in one update. A
  connection begins after the last receipt of the one before. At the very same nanosecond the two
  would be ordered by kind before connection, and `ObservationsFaithful` would not hold.
* `research`: three events are the fewest with a book, a change before the cutoff and one
  after it; two windows and horizons; a split of 1, 1, 1 and 2 days; three epochs with a
  patience of one, so that a run stops early and can still improve; episodes of three decisions
  over four lots; two seeds; rollouts of two episodes, so that one can leak into the next;
  resamples of five episodes in blocks of two or three, so that blocks wrap around and
  the last is cut; ledgers of up to three executions before, at and after the deadline.

The runs disable the deadlock check because these systems really stop: an engine whose
client ids are used up, a session with no calls left, a parent that has completed, a
capture or a study that is done.

### 3.3 Fairness

* `ExecutionSystem!FairSpec`: weak fairness of each step of the loop except the
  strategy's and the other participants'. The loop is a `for` or `while` that runs
  the kernel, ingests, asks the terminal controller and moves on. No strategy has
  to act, and no other participant has to trade, for a parent to complete.
* `CaptureRun!FairSpec`: weak fairness of time and of the collector's own steps
  (`LinkStep`, `LoopStep`, `FinalStep`). Every await on the network has a timeout, so it
  returns. Neither messages nor snapshots need ever arrive.
* The engine needs none: `MatchingProgresses` says that every pass of the loop takes lots
  from the order or is the last, which bounds the passes of a call by its lots.

## 4. What is proved

For all values of the constants that satisfy the named assumptions, by `tlapm` on each of
`MatchingEngine_proofs`, `KernelSession_proofs`, `ExecutionSystem_proofs`,
`ExecutionLedger_proofs`, `CaptureRun_proofs`, `DataPipeline_proofs`,
`ResearchStudies_proofs` and `SumTheorems`.

Many properties speak of sums and of loops over sequences, which are recursive functions.
The induction theorems of the library take an operator as a parameter, and none of the
provers can instantiate it. `SumTheorems` states induction over sets instead
(`LeastNatural`, `NaturalInduction`, `MinimalSet`: a non-empty collection of naturals or of
finite sets has a least member) and proves from it what a sum over a finite set does when
one summand is added, removed or changed. An induction is then an argument about the set
of the counterexamples, or of the numbers up to which a loop is right.

### 4.1 The matching engine

From `EngineAssumption` (positive prices, quantity limits in order, submits of the declared
type, and a `NoOrder` that is no order of the market or of a taker):

| Theorem | States |
|---|---|
| `TypeCorrect` | `Spec => []TypeOK` |
| `BookAlwaysConsistent` | `Spec => []BookConsistent`, from `NeverCrossed`, `PriceTimeQueues`, `IndicesNeverDisagree` |
| `LotsConserved` | `Spec => []QuantityConserved` |
| `PassiveOrdersRest` | `Spec => []PassiveAndAggressive` |
| `HistoryNeverRewritten` | `Spec => HistoryFinal`, from `TerminalIsFinal`, `IdentifiersNeverReused` |
| `LevelTotalsExact` | `Spec => []AggregateQuantity`: cached totals are sums over the queues |
| `LoopNeverExhausted` | `Spec => []AllocationNeverThrows` |
| `OrderTermsKept` | `Spec => []TermsKept`: with `FillOrKillAtomic` |
| `LoopEnds` | `Spec => MatchingProgresses` |
| `EngineImplementsMarket` | `Spec => ImplementsMarket`: the refinement of `PriceTimeMarket` |

The properties are not inductive on their own, and they need each other. That a level
is FIFO needs that a resting order is younger than everything in the book, which
needs that the order being matched is, which needs that the priority counter is ahead
of every record. That the indices agree after a removal needs that an order is in
exactly one queue at one place, which follows from strictly increasing priorities.
That the book stays uncrossed when an order rests needs that the matching loop ended
because nothing eligible was left. `IInv` is the conjunction of the parts:

* `ActiveSound`, `Located`, `ClientsSound`: nodes, queues, client indices and history agree;
* `HistorySound`: each record is `Open` (lots add up) or `Closed` (ended in a
  consistent way);
* `Fresh`: the counters are ahead of every identifier in use, or exhausted;
* `IncomingSound`: what holds of the order in the matching loop;
* `TypeOK`, `LevelsFifo`, `BookUncrossed`.

The proof has one lemma per action (`SubmitPreserves`, `CancelPreserves`, ...). Those
that take an order out of a level rest on `Detach` (what the removal of one node leaves of the
queues), those that put one in on the age of the order. The two properties of the history
follow from what one step does to it under `IInv`.

The second half of the module adds what needs arithmetic over the whole book. Its `LotsInv`
(theorem `LotsInvariance`) is `IInv` with:

* `TotalsSound`: a level's total is the sum of what the active orders show there;
* `RestFits`: there is room at its level for what is left of an order that may rest;
* `FokCovered`: what a fill-or-kill order can still reach covers what is left of it. The test
  at its acceptance sums cached totals, so this needs the totals to be exact;
* `LoopHasCapacity`: the counters have an identifier for every order that the taker may
  still meet. Each match that goes on removes an active order, so capacity and demand shrink
  together;
* `ArrivalOrder`: ids and priorities are in the same order. From it, the front of the
  best level is the market's "earlier order", which is what the refinement needs.

### 4.2 The kernel

From `KernelAssumption` (delays and times are natural numbers, at least one counter value)
and `SessionAssumption` (market events bring ids and sequences of the counters' width):

| Theorem | States |
|---|---|
| `KernelInvariance` | `Spec => []IInv` |
| `KernelTypes` | `Spec => []TypeOK`: nothing waits in the past |
| `QueueAlwaysSound` | `Spec => []QueueSound` |
| `ObservedInOrder` | `Spec => [](DeliveredInOrder /\ RepliesInOrder)` |
| `DeliveryAlwaysOrdered` | `Spec /\ [](kernel.next_sequence # 0) => []DeliveryOrdered` |

`IInv` says that an accepted command is in one place (`CommandsSound`: waiting, processed or
lost, and there once), that the replies to one command are due together in the order of their
sequences and follow those already delivered (`RepliesSound`), and that nothing due lies
before what was delivered (`KernelSound`). The third part of `DeliveryOrdered`, first in
first out among commands, has the hypothesis that the sequence counter is not exhausted,
because it is false without it: a market event with a small sequence revives an
exhausted counter (section 3.1), and a later command overtakes an earlier one. The other
two parts need no hypothesis (`ObservedInOrder`).

### 4.3 The execution system

From `StateAssumption` and `SystemAssumption` (finitely many client ids, positive quantities,
fractions of at most one; `NoChild` and `NoOrder` are no child and no order):

| Theorem | States |
|---|---|
| `SystemInvariance` | `Spec => []IInv` |
| `NoOrderForgotten` | `Spec => []NoForgottenOrder`: an order that may trade is pending or active in the execution state |

They hold for any latencies (ranges as well as fixed ones, so that messages overtake each
other), counters that run out, any number of other participants' commands, all three kinds
of commands, all roundings, and with failures applied or not. `NoForgottenOrder` is not
inductive: whether an event that ends a child in the state is right depends on the
exchange's order at the time when it is applied, which is later than when it was sent. `IInv`
therefore follows every message that is under way, that is, every command on its way to the
exchange (`Sent`), every event not yet applied (`Told`), and every failure not yet applied
(`Failed`):

* `OpeningAlone`: while the command that opens an order is under way, it is the only message
  about that client id, and the state holds the child for pending (`Fresh`). Client ids are not
  used twice, because the validator asks the state, which registers them on dispatch;
* `RefusalAlone`: a refused replacement leaves one trace of its new order, the failure;
* `TargetsAccepted`: a cancel or a replacement is of an order that the exchange has accepted, as
  the validator asks for its exchange id and `IdsGiven`: the state has one only of such an order;
* `EventsTrue`, `FailuresTrue`: an event or a failure that says an order is over, or was never
  opened, is true when it is sent and stays true, because an ended order never trades again and
  no message is under way that could open the refused one;
* `UnknownUntouched`: nothing exists and nothing is under way about a client id that the state
  does not know;
* `Shapes`: what each message carries.

The proof has one lemma per step. Those of the exchange (`SubmitProcessed`,
`CancelProcessed`, `ReplaceProcessed`, `TakeProcessed`) show of every outcome that its replies
are truthful about the exchange after it, and cite `ProcessKeeps`; those of the loop
(`PostedKeeps`) show that a decision adds messages about fresh clients or accepted orders
only; applying an event or a failure (`ApplyDeliveredKeeps`, `RouteFailureKeeps`) takes one
message away and changes its child as it says.

The rest of the module and `ExecutionLedger_proofs` prove what the ledger and the children are
worth (kernel calls and decisions in the one; failures, events, commands at the exchange and the
theorems in the other). Two things more are needed: `FixedReplies` (replies take one fixed time, so the events about an order arrive in
the order in which the exchange caused them; commands still take any time and overtake each
other), and `[](~kernel.thrown)`, because an exception ends the loop with replies unsent.
`OneAtATime` adds one live child at most, which the validator enforces, and a strategy that never
replaces.

| Theorem | From | States |
|---|---|---|
| `ExactUntilOverfill` | `FixedReplies` | `Spec /\ [](~kernel.thrown) => []ExactUnlessOverfill` |
| `IssuesStay` | | `Spec => [][state.issues \subseteq state'.issues]_vars` |
| `LedgerStaysExact` | `OneAtATime` | `Spec /\ [](~kernel.thrown) => []LedgerExact` |
| `OneChildTracked` | `OneAtATime` | `Spec /\ [](~kernel.thrown) => []ChildrenTracked` |
| `ParentBounds` | `OneAtATime` | `Spec /\ [](~kernel.thrown) => []ParentRespected` |

`LedgerExact` and `ChildrenAgree` speak of settled systems and say nothing while a message is under
way. The invariant `JInv` says it of every state: the state of a child *becomes* its order's once
the events on the way are applied.

* `ChildrenSound` (`Tracks`): every event on the way about a child tells of its order what held
  when it was sent: a fill carries the cumulative quantity after it, the next fill continues
  from there, and the last one reaches what the exchange has. A child is new with its
  acknowledgement on the way, follows its order, or is closed with nothing on the way. A child
  without an order waits for a command, a refusal or a failure;
* `ClockSound`, `NumbersSound`: virtual time and event identifiers order the events as the
  exchange caused them (`Precedes`). This is where `FixedReplies` is used;
* `ExecutionsSound`: executions on the way are distinct and not yet applied, so none is taken for
  a repetition;
* `CommandsSound`, `FailuresFit`, `EndsInTime`: commands and failures are about children that are
  marked for them, and an end the loop did not ask for arrives with the acknowledgement;
* `LedgerSound`: what is filled is what the children have booked (`Booked`, a sum over the
  clients), and the completion at the horizon, while it is on the way, is the only event left and
  exactly the residual.

An applied event is the earliest one about its child, and `FillContinues` shows that the state
books a fill in that place without an issue unless the parent has no room for it. `Tracking`
(`JInv` until an issue, and the first issue is an overfill) is then inductive, with `IInv`, under
`FixedReplies`. Under `OneAtATime`, so is `JInv /\ OneChild`: at most one child may still trade or
has a command about it, what it may still trade fits what is left of the parent, and nothing was
refused. A decision opens a child only when the validator counts none, and sizes it by the
residual; every other step leaves children as calm as they were (`Calms`), fills a child and the
parent by the same lots, or ends a child. The hypotheses are sharp: with replacements F1 overfills
the parent, and with two live children the validator, which counts acknowledged children only
and reserves nothing for them, admits two whose sizes add up to more than the parent.

### 4.4 The capture

From `SynchronizerAssumption` (the exchange's books have their type) and `CaptureAssumption`
(limits are natural numbers, days and segments not empty; `NoTask`, `PendingTask`, `NoWriter`
and `NoManifest` are none of what they stand beside):

| Theorem | States |
|---|---|
| `CaptureTypes` | `Spec => []TypeOK` |
| `BooksAlwaysSound` | `Spec => []BooksSound`, from `SynchronizedIsTruth`, `IntervalsRunForward` |
| `SnapshotsAlwaysAccounted` | `Spec => []SnapshotsAccounted`, from `SnapshotPending`, `EverySnapshotListed` |
| `VerificationAlwaysExact` | `Spec => []VerificationExact`, from `CountInvariance` |

They hold for any number of symbols, any feed, any number of connections and any exchange.
The key lemma is `ReplacedExact`: an event that overlaps the book's update leaves the
exchange's book at the event's last update, because a level that the event does not
bring is one that none of its updates has changed. From it, `Good` (typed, faithful, intervals
forward) is kept by every operation of a synchroniser. `IInv` is then: the types; every
synchroniser is `Good`; while the collector listens, a symbol is synchronised exactly if it
has no snapshot task; and the symbol whose buffer is being drained has none. The last two
depend on each other, because a drained event may start a task. `EverySnapshotListed` has an
invariant of its own, `Listing`, about what each place of the program has written and listed,
and `VerificationAlwaysExact` has `CountInv`: listed segments and the open one hold together
what was appended, which is also the collector's count as long as no disk fault left a record
uncounted, and a manifest is what is on disk, with nothing written after it.

### 4.5 From a capture to its replay

From `PipelineAssumption` and those of the stages (`ValidationAssumption`,
`CanonicalAssumption`, `ReplayAssumption`: what the loaders of the configurations accept):

| Theorem | States |
|---|---|
| `StagesInvariance` | `Spec => []IInv`: a capture is well formed, and report, dataset and replay are what their functions make of it |
| `AdmittedAlways` | `Spec => []OnlyAdmittedIsResearch` |
| `CanonicalAlwaysExact` | `Spec => []CanonicalExact` |
| `ValidAlwaysContinuous` | `Spec => []ValidMeansContinuous` |
| `TimesInvariance` | `Spec => []TInv`: what is captured is stored in the order of its reception, connection after connection |
| `ReplayAlwaysVerifies` | `Spec => []BuiltVerifies` |
| `ObservedWithoutDelay` | `Spec => []ObservationsFaithful`, if `Delay = 0` |

`IInv` is simple, because the stages are functions; what is hard is what these functions
compute for captures of any length. `CanonicalAlwaysExact` rests on `DeduplicateSound`, an
induction over the loop of `deduplicate`: every record of a selected day is kept, or is counted
as a repetition of one that is. `ValidAlwaysContinuous` rests on `InstalledCovers`, an
induction over the events that `install_snapshot` applies: as long as no event is refused,
the updates between the snapshot and the book's last one are covered without a gap.

The replay needs the times of the capture as well. `TInv` adds that records are stored in the
order of their reception and that a connection begins after everything received on the
earlier ones. `DatasetSound` carries this over to the rows of the dataset (`RowsSound`), whose
quantities are exact. No two staged events have one key (`StagedTypes`), so that ranking them
is sorting them (`InOrderFacts`). `PlayedSound` is then the invariant of the loop over the
events: what was delivered is causal and in order, and the newest time an observation
knows is not later than any event still to come, which is why a decision knows nothing of its
future. This holds for every delay.

What an observation shows is the invariant `Faithful` of the same loop. Without a delay the
connections lie one after the other in the order of the replay (`ConnectionsApart`), each begins
with its reset (`ResetFirst`), has its snapshot before its depth messages (`SnapshotBeforeDepth`:
continuity makes the first of them the bridge, `BridgeIsFirst`), and has these as they were received
(`DepthsAsReceived`). So the newest connection either waits, with no book but that of its
snapshot (`Waits`), or shows the exchange's book at its newest depth message (`Follows`), which
each further one continues (`DepthFollows`). `ConnectionsApart` is what a delay breaks: F3.

### 4.6 The studies

From the assumptions of the studies' modules (lots, decisions and seeds are positive,
scores and losses natural numbers, delays natural numbers, market depths positive, grids,
symbols and stress cases finite, forecasts percentages, p-values shares of 1000, tail
losses integers and probabilities hundredths, the bounds that the loaders of the configurations enforce, and events that pass
`PredictionMarketEvent.validate`):

| Theorem | States |
|---|---|
| `EpisodesAlwaysExact` | `Spec => []EpisodesExact` |
| `TrainingAlwaysSound` | `Spec => []TrainingSound` |
| `FallbackAlwaysSound` | `Spec => []FallbackSound` |
| `StressAlwaysSound` | `Spec => []StressedSound` |
| `FittedAlwaysAsDeclared` | `Spec => []FittedAsDeclared` |
| `SelectionAlwaysSound` | `Spec => []SelectionSound` |
| `ReportAlwaysSound` | `Spec => []ReportSound` |
| `InferenceAlwaysSound` | `Spec => []InferenceSound` |
| `LabelsAlwaysSound` | `Spec => []LabelsSound`, from `LabelsMeet`, `NoReset` |
| `FeaturesAlwaysSound` | `Spec => []FeaturesSound`, from `Causal`, `PathOfRows`, `RowsMirror` |
| `TailAlwaysSound` | `Spec => []TailSound`, from `NearestRankIs`, `WorstMeanIs` |

The invariant of an environment is `EnvSound`: an episode is `Open` (lots add up, steps are
left) or `Closed` (all is bought), and the log of its last step explains the reward. The mask
forces the whole remainder at the last decision, which is why an open episode has something
left to buy and a step to buy it in. `TrainingInv` adds `RolloutWhole` (every episode in a batch but
the running one ends in a step marked done, which is what keeps a return inside its episode)
and `SeedsInTurn`; `StressInv` and `ImitationInv` add what has been shown to a degraded policy, and
for which fit and rows a threshold was chosen.

`ForecastInv` says of every candidate, in training or done, what `TrainedSoFar` says of its
epochs: the losses are those of the validation rows, a network that has diverged stays
diverged, and the kept epoch is the first of the best. The order of candidates (finite
before infinite, then the two losses, then the key) is shown to be total, so that a selection
has one winner (`SelectionWins`), and the days of the segments to follow each other
(`SegmentsInOrder`), which is why nothing fitted has seen a later segment. That a segment
passed its validation is what gives the calibration both classes. The report's halves and
slices partition the holdout (`EveryForecastOnce`, where `OneBin` is the arithmetic of the
bins), and where a probability is the frequency, both the threshold rule and the constant
decisions are sums of two values (`SumOfTwoValues`), compared exactly (`CalibratedDecidesWell`).

`InferenceInv` only says what the study holds at each of its stages; the rest is about the
operators, for every number of cases, members of a family and episodes. The greatest candidate of
those ranked before is below the level exactly when all of them are (`AdjustedRejects`). The
resamples that show an episode at a place are those whose block starts that much before, so
that rotating this one start maps them onto those of any other episode (`BlocksUniform`).
Costs and then names order the policies strictly, so every rank is taken once (`EveryRank`)
and every case has one winner (`CountsAddUp`).

`PredictionInv` says that the stream consists of valid events and that a dataset is what a build
makes of it; the rest is about the build, for streams of any length. What a build accepts is
ordered by both times, so what a decision knows is a beginning of the stream (`KnownFirst`),
and so is what had happened at a time (`PastFirst`). Books depend on what came before only
(`BooksAgree`) and not at all on what came before a snapshot (`SinceLastSnapshot`): the book of a
row is the stream's book at the last known event (`RowHasBasis`), which is what makes its features
causal. For the labels, the book of the recursion is shown to be the one that the last writer
of every level left (`LastWriter`), and the first event that the code takes for a depletion to be
the first after which the quote is not what it was (`FirstDepletion`). For the features, the way
of the mid is never shorter than its move (`PathIsLonger`, an induction over the book events of a
window), and the two sides exchange their levels and the signs of what is directed: a ratio
rounded towards zero is odd (`RatioMirrors`), and defined because the best levels hold lots
(`TopLotsPositive`).

`TailInv` says that a summary is that of the episodes offered; the rest is about sorted
losses of any number. The value at the nearest rank has enough losses at or below it, and nothing
less has (`NearestRankIs`, by counting places). The weights of the worst episodes are whole up to
one place and nothing after it (`WeightsOf`), so the weighted sum is a threshold's worth of the target and
the weighted differences from it (`TailAddsUp`): no threshold's excess is less than those
(`WeightedBelow`), and at the loss where the share ends they are equal (`WorstMeanIs`). The quantile
lies within the share because what the two percentages leave adds up to the whole.

### 4.7 Only model-checked

* `MetricsExact`: it compares numbers that a sort, a search or a nested sum computes with a
  second definition of the same number. For every length this is mathematics of its own
  rather than a statement about the order of steps, and the runs enumerate the small cases.
* `PendingResolves`, `TerminalCompletes`, `RunEnds`, which rest on fairness: the prover has no
  rule for `ENABLED`.

## 5. Not modelled, and why

* **C++ historical replay and queue models.** Readers of the historical tables and
  bounds of a queue position. Their tables are modelled with the Python replay that writes
  them; the order of the three bounds is what a next model should state.
* **Policy observation.** Represented by the fields that the validator and the planner read,
  taken from the execution state at the decision.
* **Numbers.** The synthetic generator, strategies, optimisers and networks compute with
  floating point or random draws. Where strategies act on the market they do so through the
  validator or the kernel, and the model allows every action those accept; where a study
  uses a fitted number, the model allows every value of a small set. Out-of-distribution
  stresses of forecasts, inference benchmarks, autocorrelations and percentiles are left out.
* **The teacher of the imitation study** is an executable of its own (`cpp/apps/re_imitation_oracle.cpp`);
  its answers are choices.
* **Pure functions.** SHA-256, the logical random number generator, canonical strings and the
  checks of the event model are deterministic functions with known-answer tests.
* **Reports, demos, drivers, performance** keep no state of their own. The commands of the
  command line are the actions of `DataPipeline` and `ResearchStudies`.
* **Threads.** There are none in the C++ core; the collector's REST calls run in threads
  that only write a snapshot file, which `OrphanArrives` and `SnapshotArrives` do.
