# Specifications of the trading system

TLA+ models of the automated trading system in `src/`, the TLC configurations
that check them and the proofs TLAPS checks. Paths are relative to `src/`.

* [The system](#the-system) – components, state, operations, interactions
* [Modules](#modules) – which module models what, and how it corresponds to the code
* [Runs](#runs) – what each run asks, with its bounds
* [Fairness](#fairness)
* [Proofs](#proofs)
* [What the runs found](#what-the-runs-found)
* [Not modelled](#not-modelled)
* [Plan](#plan)

## The system

Containers (`docker-compose.yml`, restart policy "unless-stopped") around Redis,
PostgreSQL, ZeroMQ and the broker Capital.com.

| component | state | operations | what makes it correct |
|---|---|---|---|
| circuit breaker (`AccountSyncTask`, `RiskEnforcementTask`, `RiskService` in `api_server/`; the halt check of `trade_manager/trade_service.py`) | Redis `RISK_STATE`, `ACCOUNT_STATE`, `ACCOUNT_LATEST`, `CACHED_RISK_STATUS` | account sync, day/month reset, enforcement, resume, manual halt, limits, order check | a breach halts; a halt lasts until a resume or the next day; almost nothing is opened during one; baselines belong to their dates |
| orders and records (`trade_manager/`) | `open_positions` in memory, table `trades` | open, close, move stop, write the list of positions | a position and its row go through one lifecycle; rows follow the broker's decisions, and an undisturbed position has one |
| position sync (`AccountSyncTask`, `TradeService.cs`) | `CACHED_OPEN_TRADES` | record broker-side exits, overwrite the list, change limits | every exit is recorded; the list converges |
| trading engine (`trading_engine/`) | strategy instances, positions with extremes, bar history, two dirty flags | load strategies, read positions, ticks, bars, trailing stops | changes take effect; bars are traded once and in order; stops only improve |
| history preload (`HistoryPreloader.cpp`, worker in `order_executor.py`) | Redis request list, one answer list per request | request, answer, time-out | an answer is of its request; the engine starts warm |
| strategies and exits (`core_lib/`) | per instance: indicators, recent bars | `on_bar`, `run_batch`, trailing stop | the live and the batch rules agree |
| session keeper (`auth_manager/`) | two Redis tokens (10 min) | log in every 9 min | readers get the two tokens of one session, and always have one |
| market data streamer (`market_data_streamer/`) | WebSocket, subscriptions, threads | connect, subscribe, ping, forward, reconnect | subscriptions follow the configuration; it reconnects |
| kline history (`MarketDataService.cs`, `MarketDataSyncTask`, `HistoricalDataSeeder`) | table of candles | read with gaps filled, sync, seed | no candle lost or repeated |
| tick distribution (`MarketDataStreamer.cs`, hubs, `SystemService.cs`) | subscriptions, Redis settings | forward, change settings | changes reach their readers |
| panel (`frontend/`) | candle cache, configuration | merge ticks, load history, edit | the chart shows the newest data; edits do not undo each other |
| backtest (`backtest_engine/`) | locals of one run; table of trade costs | backtest, optimize, walk-forward, audit | no look-ahead; the measures agree with the trades; windows follow each other without a gap; live trades meet their nearest backtest trade |
| machine learning (`machine_learning/`, `ml_handler.py`) | dataset, model files, registry file | collect, train, promote, serve | a number is one version's and no version is lost, one version at most is in production, its file exists and is the promoted one |
| container monitor (`monitor_docker.ps1`) | failure counts | notify, recover | one notice per failure |
| controllers, Capital.com client, deployment | none | pass on | – |

Interactions: the engine publishes signals on Redis `TRADE_SIGNALS`; the trade
manager consumes them one at a time, checks `RISK_STATE`, calls the broker,
writes its row, then `CACHED_OPEN_TRADES`, and announces it; the engine's Redis
thread turns announcements into flags its main loop polls. The api server
writes the same list, and the risk hashes, from timers and HTTP requests. Ticks
and bars come from the streamer over ZeroMQ.

The research programs (`backtest_engine/run.py`, `machine_learning/run.py`) are
started by hand on the same database and files; the model they promote filters
the trade manager's signals.

What is hard: nothing is transactional. Hashes and lists are read, awaited over
and written back by several programs (stale verdicts, stale lists); pub/sub loses
messages; flags are cleared after the reads they announce; the broker
accepts an order first and decides on it later, its answers get lost, and nothing
looks at whether a confirm is a rejection; restarts forget what is in memory; files are
rewritten in place. The
`hazards` of `PROJECT.json` name them line by line.

## Modules

One Redis command, HTTP call or SQL transaction is one step. A program counter
(`pc`) and the locals of each sequential program make its position between two
of them explicit; all others may run there.

### `RiskControl`
Four programs on the risk hashes. `sync` is a pass of `AccountSyncTask`
(`SyncBegin` … `SyncResetMonth`, in the order of lines 45–104; `SyncAbort` is the
`catch`), `enforce` a pass of `RiskEnforcementTask` (three reads, the verdict, the
halt, the status), `Resume`, `ManualHalt`, `UpdateLimits` are `RiskService`'s
requests, each one `HashSet`. `tradeManager` is `_handle_open` between the halt
check and the order. A date is a day number and a month `DaysPerMonth` of them;
percentages are integers in 1/100 % with the rounding of `Math.Round`.
`opensSinceHalt` and `haltBase` are history variables.

### `OrderExecution` and `TradeLifecycle`
`TradeLifecycle` is what broker and table promise together: an order is executed or
refused, a position closed or its close refused, and a row follows, once, whatever
was decided. `OrderExecution` is the trade manager's listener
(`tm`), the position part of `AccountSyncTask` (`task`) and
`UpdatePositionLimitsAsync` (`request`) on the broker, the table and
`CACHED_OPEN_TRADES`. Answers get lost (`OpenAnswerLost`, `CloseAnswerLost`),
writes fail (`HandlerFails`, `TaskFails`), the process restarts (`Restart`), and
closings leave the 120 s transaction window (`TransactionExpires`).

The broker accepts an order or a close (`Orders`, `OrdersClose`: the POST and the DELETE
answer with a deal reference) and decides on it in a step of its own (`DecideOpen`,
`RejectClose`, `BrokerCloses`, also a stop or a target that comes before the decision).
`ConfirmOpen` and `ConfirmClose` are `get_position_confirm` and the code after it, which
never reads `dealStatus`: whatever is answered counts as executed. So a rejected
close is recorded as an exit, and a rejected order as an open row. Its confirm has no
affected deal, so line 94 of `trade_service.py` leaves the confirm's own `dealId` or the
deal reference, `RefOf[d]`, which is the identifier of no position: a CLOSE of it is an
error, and nothing ever closes the row. `ConfirmOpen` may also miss the affected deal
of an executed order, as a fault. `kept` is a history variable: the deals whose close
was rejected.

`RowsFollowDecisions` says how far this can go: a row or an exit that is not of an
execution is of a rejection or of an unnamed order, a deal has one row, and the two
kinds of row never stand for the same deal. `LifecycleRefined` says the module
implements `TradeLifecycle` with `record <- db` and `market <- Market`, in which an
undecided order does not exist yet and a position with an undecided close is open.

### `EngineStrategies`
The list of strategies from the operator's change (`SetList`, `PublishList`) to
the instances (`ReadList`, `CreateInstance`, `HistoryArrives` or
`HistoryTimesOut`, `Install`; an exception, `LoadFails`, keeps what was created),
and the bar stream (`BarEnds`, `BarMessage`, `ProcessBar`). `Deliver` is the Redis
thread. A strategy is abstracted to the number of bars it must have seen before
it may signal. `entries` and `repeated`, `disorder` record what happened.

### `EnginePositions`
The list of positions as the engine sees it and the trailing stops
(`IStrategy.hpp`), closed over the trade manager and the sync task that write
the list. `ReadPositions` parses the list as `sync_positions` does – a null stop,
which the api server writes for a missing one, ends the parsing – and
`InstallPositions` replaces the map and clears the flag. `Monitor` is the loop
over positions in `process_tick` (one price) and `process_bar` (a low and a
high). Every modelled position has an active strategy of its name. Prices are
integers and stops hundredths of them, so percentages are exact; floating-point
rounding is left out. The bound `MaxSignals` on waiting signals guards `Monitor`.
The trade manager is coarser than in `OrderExecution`, which has its failures.
`best` is a history variable.

### `BrokerSession`
The keeper (`run_keeper`, `login`, `save_to_redis`): `LoginSucceeds`, `SaveCst`,
`SaveToken`, a sleep; a failed login (`LoginFails`), one that never returns
(`LoginHangs`), the death of the process at any point (`KeeperDies`, also what a
Redis error does) and its restart. Time is a `Tick`, in which keys grow older and
timers run down; the keeper's own steps take none, a login at most `LoginTime`.
The reader is the trade manager: every request of `CapitalClient` gets the two
tokens one after the other (`ReadCst`, `ReadToken`) and is refused when they are
not of one session. What the answer decides is modelled too: `GetAccounts` and
`FinalSize` are `_get_final_size`. `failed` counts logins in a row up to
`Tolerated + 1`; `Sessions` need only be more than can be held at once.

### `BacktestEngine`, `Audit`, `WalkForward` and `Backtest`
`Backtest` is `backtest_engine/run.py`: the groups of `--params` are given to the
strategies (`ParamsOf`), then one of four modes runs.

* `BacktestEngine` is `run_backtest` and `BacktestAction`. What a strategy's
  `run_batch` returns is a list of rounds (signal, exit, side, price, stop line)
  out of `Batches`; the code's shift, ML filter, sizes and prices make them
  columns, vectorbt (`FromSignals`, external) makes columns trades. Metrics are the
  profit, the final value of the combined curve and the number of trades; a Monte
  Carlo simulation is any order of the trades. Money is in integers, fees are left
  out, and the crash when the last label has no data (`CrashOnFrequency`) is kept.
* `Audit` is `AuditAction`: costs of the missing days, the backtest, and the
  nearest trade for each live one.
* `WalkForward` is `optimize` and `run_wfo`. A combination of parameters earns a given
  amount in each bar (`gain`, all of it and its long half), so a return is a sum
  over a stretch of bars; window, training and test boundaries are those of
  lines 42–79, integer divisions included. Bars before the range are numbered
  from `-args.before`: the second run of a window starts there.

### `ModelLifecycle`
`collect_data`, runs of `train_model`, `promote_model` and the trade manager's
`MLInferenceHandler` on three files without a lock. A file is opened (and emptied)
in one step and written in another, so a death or a reader can come in between;
two writers of the registry may leave a torn one (`SaveWrite`). `load_all` raises
an exception for anything but a whole or a missing file, and its caller ends.
A model file is its day (`{strategy}_{date}.joblib`) and holds the number of its
training. `promoted` is a history variable, and so are `numbered` (every version ever
saved, by number and training), `stale` (the programs whose copy of the registry is
older than its last save) and `lossy` (one of them has saved). Nothing in the code
prevents that, and then a number is given twice and a version is lost (see the
divergences); `OnlyStaleSavesLose` says that nothing else does it.

### MC modules
`MCOrderExecution`, `MCEngineStrategies`, `MCEnginePositions`, `MCBrokerSession`,
`MCBacktest` and `MCModelLifecycle` give values to the constants. `MCRiskControl`
has `MCBounds` besides: the run explores orders on the first day without aborted
passes, and all days without orders; the product of the two would add no new
order of steps. `MCOrderExecution` has a view for the safety run, without the list in
Redis, the snapshots it is written from and the history `seen`: they change no other
variable, and only `TypeOK` speaks of them. `MCResearch` runs `Backtest` and `ModelLifecycle`, which share no
state, side by side, each from the other's start (`MCResearchBounds`); a third
training is explored without deaths. Operators of a component module that differ
from a neighbour by one mistake and are marked "Mutant" are not part of `Next`;
they document which mistakes the properties notice.

## Runs

All properties are in the component modules, under the comment that states them.

| run | asks | bounds, and why they suffice |
|---|---|---|
| `RiskControl_limits` | do baselines move with the dates, does a halt last its day, what gets through a halt? | 3 days in 2 months and 1 aborted pass: the least with a day change within a month and a change of month; 2 waiting signals and 2 requests on a day: a second order would show, and halt–resume–halt is reached |
| `RiskControl_live` | does a breach halt, does the status follow, is every day reset? | 2 days, 2 accounts, 1 request, 1 abort |
| `OrderExecution_safety` | does the table follow the broker's decisions, is the lifecycle refined? | 2 deals of one instrument (they compete for the map), each with its identifier of no position, any decisions, 2 faults, symmetric in the deals (no liveness is checked under symmetry) |
| `OrderExecution_repair` | are missed exits recorded, do the three writers of the list agree in the end? | 1 deal, 2 faults; `Outages = FALSE`: a closing is read before it leaves the transaction list |
| `EngineStrategies_bars` | bars in order and traded once, reported changes installed? | 2 strategies on a key, 2 bars (the second may be traded: `Warm = 2`), queue of 2 (so messages drop), 1 change, 1 fault |
| `EnginePositions_stops` | do signalled stops only improve? | 1 sold deal without a stop (null in one list, 0 in the other), prices 6, 8, 10 (two improvements and the crossing of a stop), both writers, 1 crash, 1 waiting signal |
| `BrokerSession_keys` | do the tokens outlive failed logins, are they of one session, do they come back? | expiry 6, refresh 2, retry and login 1, so that exactly one failure is tolerated with a tick to spare and a second lets the keys lapse; 1 fault; 6 sessions, one more than can be held at once |
| `Research` | are trades, metrics, matches, windows and parameters consistent, and the registry under overlapping programs? | 4 bars and every list of up to two rounds at two prices, 2 labels, both sizings, with and without a filter; ranges with a remainder, an empty training stretch, an empty test stretch, too small; 3 trainings by 2 overlapping trainers on 2 days, 2 deaths |
| `EngineStrategies_cold` | a statement the code does not keep | 1 strategy |
| `BrokerSession_sizing` | a statement the code does not keep | no fault |
| `Backtest_walk_forward` | a statement the code does not keep | `MCBacktest`'s ranges and gains |
| `ModelLifecycle_same_day` | a statement the code does not keep | 2 days |

`CHECK_DEADLOCK FALSE` except in the runs of `BrokerSession`, whose clock and
reader never stop: elsewhere the bounded counters and, with them, the programs
may come to rest. Three runs state a `CONSTRAINT` (`MCBounds`,
`MCResearchBounds`); none of them checks a liveness property.

## Fairness

* `WF` of `AccountSyncTask`, `RiskEnforcementTask`, the trade manager's listener
  and the engine's threads (`EngineStrategies`): endless loops with a bounded delay whose body catches
  exceptions; Docker restarts the processes.
* `SF` of `SyncFetch` and `TaskTransactions`: a pass may fail at its HTTP call, but not
  every pass does. Without it "the API is down for ever" would refute everything.
* `WF` of `PublishList`, `LimitsWriteCache`: the rest of an HTTP request.
* `BrokerSession`: `WF` of the clock, of Docker's restart and of the keeper's own
  steps (`run_keeper` is an endless loop); `SF` of `LoginSucceeds`: a login asked for
  again and again is answered some time. A hung login has no fairness, for
  nothing ends it: `KeysComeBack` excepts it.
* None for market moves, operators, signals, closings by the broker and faults.
  `EnginePositions` and the research programs have no liveness property.

## Proofs

Eight modules of proofs, checked to the last leaf, from the ASSUMEs of the modules
alone, for every number of days, accounts, deals, signals, requests, faults,
ticks, bars, strategies, prices, trades, labels, trainings and splits. The assumptions are types of
the constants, in `BrokerSession` that the expiry has room for `Tolerated` failed
logins (600 s for 540 s and the retries in the code), and in `EngineStrategies` that
an instance needs two bars before it may signal.

* **`RiskControl`**: `Typing`; `Invariance` of `IInv`; from it `OneOpenPerHalt`,
  `MonthFollows`, `MonthStaysBehind`; from the steps `HaltPersists`,
  `ManualHaltStays`, `BaselineFixed`. `AtMostOneOpenPerHalt` is not inductive: it needs
  `ClearedInv` (an order past its check has no open before it in this halt). The
  dates of the baselines need `SyncDates`, which relates the date a pass began with
  to the fields already written, for every control point of the pass.
* **`OrderExecution`**: `Typing`; `Invariance` of `IInv`; from it `TableFollows`,
  `MapIsRecorded`, `PositionsAreRecorded`, and `Refinement`: `Init` and every step map
  to an initial state, a step or a stutter of `TradeLifecycle`. All for any decisions
  of the broker. `HandlerInv` says what the broker has decided when the handler is
  between two calls (`InsertTrade` records a deal that is executed, or rejected and
  then under the other identifier, without a row so far; `RecordClose` writes the exit of
  a deal that is closed or whose close was rejected), `KeptInv` that a close is rejected
  of an executed deal only, `ListedInv` that each copy of the transaction list has
  closed deals only (`TaskRecordExit` writes exits of closed ones), `UnrecordedInv` at
  which point a row is still to come. The steps without rows share `BrokerAdvances`:
  what is executed or rejected stays so.
* **`BrokerSession`**: `TypeCorrect`; from the inductive `KInv`, `KeysLast` and `Torn`.
  That the keys are there is not inductive: `Last` says how much time they have left
  (`Left`) at each control point, which is the expiry less the refresh interval
  less what the failed logins so far have cost, plus what the timer has still to
  run; `Timers` bounds the timer. `Pairs` says whose tokens are in Redis while the
  keeper is between its two SETs.
* **`WalkForward`**: `WindowsFollow` and `EveryBar` over `WfoSpec`, for every number of
  bars and splits and every ratio; `Backtest` uses the lemmas under them. `WInv` ties the list of windows to the split
  reached; `Splits` and `Stretches` are the arithmetic of the boundaries
  (products and integer quotients, so they are split small).
* **`ModelLifecycle`**: `MlTypeCorrect`, `OneInProduction`, `FilesExist` from `LInv`, and
  `OnlyStaleSaves` from `LInv` and `SInv`. The registry's entry alone is not inductive, as a program that has
  read it writes its copy back later: `LInv` says of *every copy that may be written
  back* that it is `Sound` (numbers distinct, at most one version in production and the
  entry's production path is its path) and `Backed` (its versions have files), and of a
  training past its dump that its file is there. A file is never removed and versions
  name runs that have dumped, so a copy stays backed while others move. That the next
  number is new needs a largest number to exist, which `HasTop` states (appending to an
  entry with a largest number gives one with a largest number). `SInv`: until a stale
  copy is saved, the registry has all versions ever saved; a copy that is not stale
  has all of the registry's, and while its program writes it the file is still empty,
  so no other program has saved in between.
* **`EngineStrategies`**: `EsTypeCorrect`; from `SInv`, `EachBarInOrder` and
  `OneEntryPerBar`. `FeedInv`: a key's messages are sorted and none is ahead of the
  market. `SeenInv`: what an instance saw last is the last bar of the history, and
  while the loop polls no older bar is queued – loaded bars may be ahead of the queue,
  but the instances they were given to are replaced before the loop polls again.
  `WaitInv`: history is asked for only where there is none, so the instances it is fed
  to have seen nothing. `EntryInv`: a traded bar is not after the last one an instance
  that has seen any has got, so the instance would have to be given it again.
* **`EnginePositions`**: `EpTypeCorrect`; from `PInv`, `SignalledStopsImprove`. The local
  stop says nothing, as lists overwrite it; the extremes do. `BestInv`: the best stop
  signalled is no better than the position's extremes account for, and extremes only
  widen; `ParsedInv`: a list being parsed keeps them. `Signalled`: a stop is signalled
  only where the extremes, not the old stop, ask for it – otherwise the distance is 0,
  which is below any threshold.

* **`Backtest`** (with `BacktestEngine`, `Audit` and `WalkForward` in its four modes):
  `ResearchTypes`, `NoTradeLooksAhead`, `ProfitMatchesValue`, `ShufflesEndAlike`,
  `AuditMatchesNearest`, `ParamsReachTheirStrategy`, `WalkForwardFollows`,
  `WalkForwardCovers`, all over `Spec` from `IInv`.

  Sums, trades of a column and flattened columns are folds, and what a fold computes
  takes induction. The library's induction theorems take a predicate, which the provers
  cannot instantiate; `WFMin` takes a set. So `Least` (a set of numbers has a least
  element) gives `Induction` for sets, `FoldExists` that a fold's recursive function
  exists (by the number of elements), and `FoldLeftRuns` its values one element after
  the other. On these rest `TotalRuns` (a total is its running sum), `TotalChanged`
  (one amount more or less), `TotalJoined` (a concatenation) and `TotalReordered`: an
  order of the amounts does not change their total. The last is an induction over
  the length – the amount an order puts last is swapped with the last one, and what
  remains is an order of one amount fewer.

  `BInv` is the backtest's part of `IInv`: trades are `Proper` (after their signal, left
  before the next) once there are any, the metrics are those of the trades once
  measured, a simulation is one of these metrics. `FromSignalsProper` says that every
  round appends a proper trade or none, from the batches' rounds not overlapping.
  `ValueIsProfit`: at the last bar every trade has earned its result, so a column's value
  is the cash and its profit, and taking all cashes but one off leaves the profit of
  all. `Simulated`: the curve of any order ends at the cash and the total, and its
  largest fall is at least the whole one. `AInv`: the results are there only with the
  backtest they were compared with, which no other mode touches; `NearestFound` takes
  the least distance and then the first place that has it. `WTyped` adds to
  `WInv` that returns are numbers and windows stretches of bars.

Only model-checked: all liveness (fairness and ENABLED are beyond the prover) –
`BreachHalts`, `StatusFollowsHalt`, `DayIsReset`, `ExitsAreRecorded`, `OpenDealEntersList`,
`ClosedDealLeavesList`, `NoticeTakesEffect`, `KeysComeBack`. Every safety property of a
passing run has its theorem. The runs with expectation "violation" are traces, not proofs.

## What the runs found

Runs with expectation "violation"; the quotes and lines are in `PROJECT.json`.

| run | trace in a sentence |
|---|---|
| `EngineStrategies_cold` | loaded bars go to the instances being replaced |
| `BrokerSession_sizing` | a reader between the two SETs of the first login gets no answer, an equity of 0, and orders a percentage as lots |
| `Backtest_walk_forward` | the test of a window runs the default parameters, from the first bar of the table |
| `ModelLifecycle_same_day` | a second training of a day overwrites the file of the version in production, which the trade manager then loads |

### Further divergences

TLC refuted these as well while the models were written; they have no run of their
own. Each is stated over the module's variables, with the bounds that show it;
the first five are definitions at the end of their modules.

* *A manual halt suspends trading* (README.md:71, RiskController.cs:44): `ManualHaltSuspends`;
  1 day, 2 requests. `resume_override` outlives the halt it answered, so after a
  resume a manual halt of the same day does not stop the trade manager.
* *A halt is for losses of its day* (README.md:73): `HaltIsOfItsDay`; 2 days. A pass of
  the enforcement task that read before the reset writes its halt after it
  (RiskEnforcementTask.cs:38).
* *The stop trails* (PineL4.hpp:20): `StopTrails`; 1 bought deal. The threshold compares an
  absolute change with a multiple of the stop (IStrategy.hpp:173), so with 1.0001
  (PineL4.cpp:17) a stop once set hardly ever moves.
* *The engine sees announced positions* (trade_service.py:240): `AnnouncedIsSeen`; 2 deals,
  `ApiWrites = FALSE`. `positions_dirty_` is cleared after the list was read
  (EngineCore.cpp:118).
* *Orders are created and their records stored* (README.md:76): `RecordsTrailMarket`; no
  fault. A rejected order has a row, open for ever, that is announced to the engine and
  named by the map; a rejected close is recorded as an exit while the position stays
  open (trade_service.py:89, 129: `dealStatus` is not read). With 1 fault, an executed
  order whose confirm names no deal is recorded under an identifier of no position
  (line 94), and its exit never.
* *A resume lifts the halt* (README.md:72): `riskState.resume_override =>
  ~riskState.engine_halt_status`; 1 day, 1 request. A resume between the
  enforcement task's read and its write leaves both flags set; manual orders stay
  rejected and the resume button disabled until the next reset.
* *The month is reset* (README.md:73): `sync.pc = "idle" =>
  accountState.last_reset_month = MonthOf(accountState.last_reset_day)`; 2 days, 1 abort.
  `last_reset_day` is written before the month, so a pass cut short in between
  keeps last month's baseline for a day.
* *Orders are recorded* (README.md:76): `broker[d] = "open" /\ tm.pc = "idle" => db[d] #
  "absent"`; 1 fault. An order whose answer or confirmation is late is never
  recorded: the active sync only looks at rows.
* *Recorded positions are listed* (trade_service.py:240): `broker[d] = "open" /\ db[d] = "open"
  /\ tm.pc = "idle" => d \in cache`; no fault. The account sync overwrites the list.
* `ExitsAreRecorded` with `Outages = TRUE`, 1 fault: an exit that leaves the 120 s window
  is never recorded.
* *A switched list is traded* (README.md:79): `writer = "idle" /\ ~notice /\ ~dirty /\ engine.pc =
  "poll" => installed.number = published.number`; 1 change. `config_dirty_` is cleared
  after the list was read.
* *Extremes are maintained* (ConfigManager.cpp:66): a position that is open stays in the map
  with its extremes when a list is installed; `ApiWrites = TRUE`. A list fetched before
  the position was opened drops it, and the next one brings it back with the entry
  price. One consequence, two stale lists later, is that the stop at the broker gets
  worse; with `ApiWrites = FALSE` it only improves.
* *A closed position leaves the engine* (README.md:69): `broker[d].state = "closed" ~>
  ~positions[d].on` under fair threads. Broker-side exits are not announced.

Others were met while `src/` was read for the research programs. They follow from the
lines quoted, most by reading alone:

* `registry.py` uses `Any` without importing it: before Python 3.14 the import fails.
  `ModelLifecycle` models what the methods do once it is mended.
* *On-demand sync of costs* (audit_action.py:75): `costs = {}` in every state of `Audit`. A record's
  dict has the key "type" (models.py:144), the INSERT asks for `cost_type`
  (trade_repository.py:108), so no cost is ever stored, and the warning names a
  failed day while the sync ends as complete.
* *Re-fetch the whole range* (audit_action.py:84): only the missing days are fetched.
* An audit with an explicit `--cash` adds float and Decimal; its report cuts MINUTE_5 to
  MINUTE (audit_action.py:228, where backtest_action.py:116 joins the parts again),
  and both reports fail for an epic with an underscore. The backtest ends at 00:00
  of the last day, the live trades at 23:59:59. A live trade is matched whatever
  its side.
* *Split: time-aware* (base_trainer.py:96): the rows are in the order of the files, and collecting
  again appends them once more.
* A trade stopped on the bar of its entry disappears (vectorbt ignores an entry and an
  exit that meet). RISK sizes use the stop line of the bar of the entry, the ML
  features that bar's close: both are known only later.
* `optimize` runs the long half of a strategy only. Positional `--params` count all
  strategies, the named ones too.
* The run ends in an exception when the last label has no data (engine.py:149).
* *Auto-increment version number* (registry.py:67): `\A v, w \in numbered : v.num = w.num => v = w`;
  2 trainings, no death. Both load the registry before either saves, both get the same
  number, and the second save removes the first one's version. A promotion that loaded
  before a training saved removes the version as well, and the next training gets its
  number.
* A version cannot be promoted when another one's file of the same day is in production;
  a torn registry stays torn.

## Not modelled

* Not yet: the preload's queue and worker, the streamer, kline history, panel, container
  monitor, parts of orders, positions and engine (see the plan and the components
  of `PROJECT.json`).
* Out of a model checker's reach or without state of their own: indicator numerics and
  floating point, feature extraction and the fit (scikit-learn), vectorbt (external
  operators from how it is called), risk ratios (`metrics.py` 24–63 past the value),
  charts and report layout (`tv_chart.py`, `report_components.py`, `data_adapters.py`),
  controllers, declarative deployment files.
* Cost columns of trades and the panel's queries; the ML filter's decision, which is a
  choice.

## Plan

1. `RiskControl`: done, proved.
2. `OrderExecution` over `TradeLifecycle`: done, proved.
3. `EngineStrategies`, `EnginePositions`: done, proved. Left: entry signals against monitored
   positions (the close of opposite ones, `EngineCore.cpp:298`), the first strategy of
   a name managing every position of that name (`EngineCore.cpp:238`).
4. `HistoryRequest`: engine against worker – `LPUSH`/`BLPOP`, answers that live 60 s, 10 s
   of polling; abstract specification: an answer is of its request or none. Run with
   late answers and a worker that restarts.
5. `BrokerSession`: done, proved. Left: `Streamer` (threads of one connection, subscribe
   after read, reconnect), the other reader of the tokens.
6. `Backtest` and its parts, `ModelLifecycle`: done, proved.
7. Pure algorithms with a reference definition each, over bounded inputs: exit rules
   live and batch, MACD `on_bar` against `run_batch`, filling of kline gaps, merging of
   ticks into candles, the seeder, failure counts of the monitor; the panel's edits
   of the strategy list by two clients.
8. `TradingSystem`: `RiskControl`'s halt composed with `EnginePositions`, for what a halt
   does to positions already open.
