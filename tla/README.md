# Formal models of DynamicLongTermStrategyBot

TLA+ modules for the bot's control logic: an asyncio service that evaluates the
market once a day, rebalances a paper account once a week, answers operator
requests, de-risks on a crash bar, and survives feed outages and restarts. TLC
checks the modules on small instances; TLAPS proves theorems about eight
parts for every value of their constants. `PROJECT.json` lists the runs, the source
lines behind every definition, a mutant for every property, the hazards the
properties are for, the findings and the theorems. Paths below are relative to
`src/`.

## 1. The system

| Part | State it keeps | Operations |
|---|---|---|
| **Strategy service** `bot/service.py` | `_service_state`, `_latest_allocation`, `_cached_daily_bars`, the breaker's flag and date, `_cadence_skipped`, `_rebalance_lock`; the saved allocation in SQLite | `start`, `shutdown`, `_handle_daily_close`, `_handle_weekly_rebalance`, `manual_rebalance`, `pause`, `resume`, `reset_to_pristine`, `_on_bar_received`, `_trigger_emergency_circuit_breaker` |
| **Market scheduler** `strategy_engine/daemon/scheduler.py` | `_last_executed`, `_next_retry_at`; the table `scheduler_state` (written by the service's callback) | `tick`, `_run_cadence`, `_dispatch`, `run`, `stop` |
| **Market calendar** (same file) | none; holidays and early closes are computed | `is_trading_day`, `get_market_hours`, first/last trading day |
| **Paper account** `bot/paper_account.py`, `storage/database.py` | tables `paper_account_state`, `paper_positions`, `paper_trades`, equity snapshots | `execute_rebalance_orders`, `update_market_prices`, `reset_to_pristine`; `scripts/reset_pristine_for_monday.py` from another process |
| **Feed manager** `bot/feed_manager.py` | `_feed_source`, `_is_connected`, disconnect time, banner | connect, fall back, recover, watchdog, synthetic loop |
| **Relay state machine** `ingestion/state_machine.py` | lifecycle state, upstream flag, last bar and message times | connect/disconnect events, backfill, watchdog |
| **Relay WebSocket client** `ingestion/ws_client.py` | queue, subscriptions, producer/consumer/reconnect tasks | connect, produce, consume, evict, reconnect |
| **Relay REST client** `ingestion/rest_client.py` | token bucket, cache | `acquire`, `try_acquire`, retries |
| **Outage alerts** `bot/service.py:290` | pending card, grace timer | on disconnect, on recover, timer fires |
| **Discord notifier** `bot/discord_alerts.py` | last post time, shared by threads | `_post` with pacing and 429 backoff |
| **Rebalancer, allocation rules** `allocator/` | none | target weights to orders within a drift band; regime to weights |
| **Signals** `signals/` | drawdown tracker: peak, lockout, recovery days | regime, indicators, drawdown gate, momentum ranking |
| **Web application** `web/app.py` | none of its own | operator endpoints; the lifespan starts and stops the service |
| Storage repositories, core models, simulator, old daemon, CLI, scripts | rows; data classes | see "Not modelled" |

### How the parts interact

One event loop runs everything except the reset endpoint. The scheduler's loop
calls the service's handlers and waits for each. Feed callbacks deliver bars to
`_on_bar_received`, which may start the breaker as a task of its own. Web requests
call `pause`, `resume` and `manual_rebalance` on the loop and `reset_to_pristine`
**in a worker thread**. All handlers that trade share one FIFO `asyncio.Lock`,
`_rebalance_lock`; the reset does not take it. Inside the lock a handler may await a
REST warmup, during which requests, bars, feed transitions and `start()` go on.
Trading means: read prices and the portfolio, compute orders, book them in the
ledger in one SQLite transaction, save them in another. The scheduler learns
whether a handler went through from one attribute, `_cadence_skipped`, and records
completions in SQLite for the next process to restore.

### What is hard

- **Checks go stale across awaits**: the feed, the pause and the allocation checked
  before waiting for the lock or for bars are not those in force afterwards.
- **A thread among coroutines**: the reset may run between any two statements.
- **Shared flags**: one skip flag, one breaker flag, one retry clock per tick.
- **Two stores**: what is in memory, saved in SQLite and booked in the ledger may
  disagree after a failed write or a crash.
- **Time**: windows, retries and handlers that run for minutes; a scheduler that
  reads the clock once per tick.
- **Two processes** on one SQLite file, where reads come before the transaction begins.
- **A connection with many owners**: the recovery loop, the probes, the reconnect task
  and dying producers open, replace and close one socket under each other.
- **A blocking call on the event loop**: alerts post synchronously and sleep in a lock
  that other threads take.
- **Path dependence**: what the drawdown defence allows today depends on every
  evaluation since the process started.

### What makes each part correct

- *Service*: unattended trades only on a live monitored feed, never under a pause;
  orders serve the decision in force; a crash bar ends with no risk outside the band; a day
  counts as done only when its decision is stored; nobody waits for ever.
- *Scheduler*: each cadence once a day, weekly after daily, retries neither lost nor
  hammered, no window missed, a restart repeats nothing recorded.
- *Ledger*: money is conserved, the stored NAV is that of the stored positions, the
  cash buffer is kept, a purged position stays purged.
- *Calendar*: the days computed are those the exchange published, and the cadences
  follow them.
- *Feed and relay*: a live feed shows real prices; a lost connection or upstream is
  noticed; whoever opens and closes sockets, some task is left that reads or
  reconnects; when the relay is back the feed becomes live.
- *Stream*: the newest bar that no overflow dropped reaches the price caches and no
  older one replaces it; after a reconnect the relay sends what is wanted now.
- *REST client*: a rate that no interleaving, retry or cancellation exceeds; complete
  answers or errors.
- *Alerts*: one BROKEN per outage that outlasts the grace, one RECOVERED after it, posts
  paced, the event loop given back.
- *Strategy*: weights spend the capital once; a cut keeps equity down, ends only after a
  confirmed recovery, and does end; a worse market never means more equity.
- *Rebalancer*: orders bring the account to the target within the band.

## 2. The modules

| Module | Models | Runs on | Proved in |
|---|---|---|---|
| `StrategyService` | the service, its lock, handlers, operators, breaker, reset, start, shutdown, restarts | `MCStrategyService` | `StrategyServiceProofs` |
| `CadenceContract` | the abstract scheduler: what may run when, what is known of the day | (refined by `StrategyService`, `CadenceScheduler`) | |
| `CadenceScheduler` | tick loop, windows, retries and restored dates on a moving clock | `MCCadenceScheduler` | `CadenceSchedulerProofs` |
| `MarketCalendar`, `CalendarScheduler` | the calendar as operators on dates; the scheduler run on it | `MCCadenceScheduler` | `CadenceSchedulerProofs` |
| `PaperLedger` | batches order by order, marks, reset, purge, rollback | `MCRebalancer` | `PaperLedgerProofs` |
| `Rebalancer` | target weights to orders to the ledger | `MCRebalancer` | `PaperLedgerProofs` |
| `RelayConnection` | the WebSocket client's connection: lock, handshake, producers, reconnect task | (part of `FeedLifecycle`) | `FeedLifecycleProofs` |
| `FeedLifecycle` | feed manager, the gate (ingestion state machine), the relay | `MCFeedLifecycle` | `FeedLifecycleProofs` |
| `RelayStream` | the traffic: queue, consumers, subscribers, subscriptions | `MCRelayStream` | `RelayStreamProofs` |
| `WebhookPost` | pacing, ceiling, retries of webhook posts by several threads | (part of `OutageAlerts`) | `OutageAlertsProofs` |
| `OutageAlerts` | feed callbacks, grace timer, cards | `MCOutageAlerts` | `OutageAlertsProofs` |
| `RateContract` | the abstract rate limit: requests leave out of a budget that time refills | (refined by `RelayRest`) | |
| `RelayRest` | token bucket, retries, pages | `MCRelayRest` | `RelayRestProofs` |
| `DrawdownDefense` | the tracker: gate, lockout, recovery count | (part of `DailyStrategy`) | `DailyStrategyProofs` |
| `DailyStrategy` | signals, regime, weights, day by day | `MCDailyStrategy` | `DailyStrategyProofs` |

`EXTENDS` composes: `FeedLifecycle` adds the manager's steps to the connection's,
`OutageAlerts` the callers to the pipeline's, `DailyStrategy` the decision to the
tracker's, `Rebalancer` the orders to the ledger's, `CalendarScheduler` the dates to
the scheduler's. `StrategyService` stays apart from them: its feed moves freely
(`FeedMoves`), which contains every step of `FeedLifecycle`; its decisions are kinds
of target, which `DailyStrategy` refines into weights.

### StrategyService

Every coroutine is a task: `"scheduler"` (the cadence handlers), `"breaker"`,
`"toggle"` (pause and resume) and one per web request. A task's `pc` says where it
is suspended (`"lock"`, `"warmup"`) or which point of a stretch it has reached
(`Busy`). Whether a `"toggle"` pauses or resumes is settled when it has the lock, as nothing
depends on it before. Other coroutines move only when no task is in a stretch (`LoopFree`), as
on an event loop; the reset thread (`ResetAccount`, then `ResetMemory`) moves
anywhere, which is why stretches have points at all.

| Code | Actions |
|---|---|
| `start()`; `shutdown()`, crash, next process | `StartFeed`, `StartWarmup`; `Shutdown`, `CancelScheduler`, `Restart` |
| dispatch by `tick()`, `_run_cadence` | `DispatchDaily`, `DispatchWeekly`, `Finish` |
| `async with self._rebalance_lock` | `Enqueue`, `Acquires`, released in `Finish` |
| `_handle_weekly_rebalance` | `StartWeekly`, `CheckTarget`, `Decide`, `Execute`, `Post` |
| `manual_rebalance` | `RequestRebalance`, `StartManual`, then as above |
| `_handle_daily_close` | `StartClose`, `WarmupReturns`, `NoEvaluation`, `Evaluate`, `CloseSkips` |
| `_on_bar_received`, `_trigger_emergency_circuit_breaker` | `CrashBar`, `StartDerisk`, `Execute`, `Post` |
| `pause()`, `resume()` | `RequestToggle`, `Toggle` |
| `reset_to_pristine()` in `asyncio.to_thread` | `ResetAccount`, `ResetMemory` |
| feed manager and relay state machine | `FeedMoves`, free |

Data is reduced to what the properties tell apart. A book holds a risk position outside
the drift band around zero (`"risk"`), only risk positions within it (`"residue"`) or
none (`"safe"`); an allocation has a kind (risk, havens only, hold, emergency) and a
day; the bar cache has an origin and a day. `Orders(kind, held)` is the rebalancer
seen through that: no orders on `STALE_DATA_HOLD`; otherwise each position within 2.5 %
of its target is left alone (`rebalancer.py:74`), so a target without risk assets leaves
the residue, and one with some may ask for nothing or for less than the band. Prices move
positions over the band from one reading to the next (`Seen`). `frozen` is a history
variable: the started service has granted a pause that nobody resumed. `day` is a window
of market time; `NewDay` waits for a running cadence handler, which in the program has
the night to finish.

### CadenceContract and CadenceScheduler

`CadenceContract` has no clock. `CadenceScheduler` has one, in minutes, that moves
while a handler runs (`MayPass`), while the loop sleeps or while the process is
down. `tickAt` is `now_et`: read once per tick and used for all three cadences, as
in `tick()`. Handlers take up to `MaxRun` minutes and complete or not
(`Completes`, `Fails`). `saved` is the table `scheduler_state`, whose write may fail
(only logged) and whose reading may fail at boot. `attempt` is a history variable.
Both this module and `StrategyService` are shown to implement the contract: the
first that clocks and retries keep it, the second that the handlers' skips,
failures, cancellations and crashes keep it.

### MarketCalendar and CalendarScheduler

A date is its ordinal. `western_easter`, `get_holidays`, `get_early_closes` and the
trading-day functions are operators with the code's arithmetic; a loop that walks to
the next such weekday is a remainder. `ASSUME CalendarSound` compares them, for every
year from 2015 to 2045, with the definition of Easter (the Sunday after the
ecclesiastical full moon) and with the exchange's published closures of 2026, and
states that holidays fall on weekdays of their year, that short days trade, and that
every month has its first trading day within five days. `CalendarScheduler` gives the
scheduler real dates; `Sessions` is what the exchange says of them.

### PaperLedger and Rebalancer

`Begin` reads both tables; `Sell`, `Buy`, `PassOver` work off one order each on
`work` (the method's `cash` and `pos_dict`) and `rows` (the open transaction);
`Commit` writes the account row, whose `CHECK (cash >= 0.0)` may refuse it; `Abort` is
`rollback()`. `ReadMarks`/`WriteMarks` are `update_market_prices`. The manager's lock
makes these exclude each other (`phase`), but not `Purge`, the script in another
process, which is only kept out once a transaction is open (`open`): Python's
`sqlite3` begins one at the first write, not at the first `SELECT`. Quantities are
integers of lots (0.0001 shares); what doubles round is exact here, so the loop
that corrects a clamped BUY never turns, and the cost kept after a partial sale
is rounded down to a unit.

`Rebalancer` computes the batch: current weights with cash counted as SHV, drift
against the band, the minimal order, sells sorted before buys, and hands it to
`BeginBatch`. Weights are compared as money times 1000, so nothing but lots is
rounded. `goal` remembers what a batch is for until it is committed.

### RelayConnection and FeedLifecycle

A socket has a number, reused once nothing refers to it; `producer[s]` is the task
created with it, which may read *another* socket later, because `_producer_loop` looks
at `self._ws` anew (`ProducerTurns`). `call[c]` is a caller's way through `connect()`
behind the lock, and `Return` hands the result over: it ends the reconnect task, or sends
it back to sleep, in the same step, as nothing is awaited in between.
`_handle_reconnect` is `ReconnectStarts`, `ReconnectWakes`, `OldSocketClosed` and the
call's `Return`; its cleanup may hit a socket somebody else opened.

| Code | Actions of `FeedLifecycle` |
|---|---|
| `_auto_recovery_loop` | `RecoveryWakes`, then `Attempt("recovery")` |
| `_try_connect_live` (from `start` and from lifecycle events) | `ScheduledProbe`, `Attempt("probe")` |
| health, `connect_stream`, pause, declare | `HealthKnown`, `ServerAnswers`, `CheckInitialHealth`, `Connected`/`Refused`, `DeclareLive` |
| `IngestionStateMachine` events under its lock | `ProducerAlerts`, `HearDisconnected`, `HearConnected`, `HearConnectedNoGap`, `Synced` |
| `_transition_to_fallback` | `ScheduledFallback`, `Watchdog`, `RestFails`, `GiveUp` |
| `_synthetic_ticker_loop`, `stop` | `SyntheticTick`; `Stop`, `Stopped` |
| relay and network (external) | `UpstreamLost`/`Back`, `RelayLost`/`Back`, `SocketLost`, `Silence` |

### RelayStream

Messages are numbered as the relay sends them; `latest` is the newest bar that got to
the callbacks. A consumer suspended in a lifecycle callback `holds` its message while
others take from the same queue: each `connect()` starts one more consumer.
`desired`, `frames` and `server` are the subscriptions wanted, on the wire and in force.
`Connect` is a caller's connection, which subscribes to nothing; `Reconnect` and
`ReconnectJoins` are the end of `_handle_reconnect`, with a connection of its own or one
that a caller made first, and `_resubscribe_all` after it. `missed` observes what was
desired when a caller connected and has not been put on the wire since. The notice of a
lost socket that the producer dispatches itself is not among the messages.

### RelayRest and RateContract

A tick refills one unit; a request costs `Price`. `ago` is the time since
`_last_update`, negative while a reservation has moved it ahead. `credit` observes the
budget that the requests sent leave; under it `RelayRest` refines `RateContract`,
whose ceiling is the burst plus one late request per caller.

### WebhookPost and OutageAlerts

`posting[t]` is a thread's place in `_post`; ticks of half a second pass only while
every thread sleeps or waits. While the thread `"loop"` posts, no feed event, timer or
other coroutine runs (`LoopFree`). `downFor` and `told` observe how long the outage has
lasted and which card began last, `arrived` whether Discord accepted that BROKEN card.

### DrawdownDefense and DailyStrategy

Prices, averages and momentum come as records, in percent (`Markets`); the arithmetic
on them, every cap, floor and tie included, is the code's, on millionths. `Update` is
the tracker's `update`, `Classify` and `Weights` the detector and the rules. A day may
be evaluated any number of times and ends evaluated or not; `Restart` forgets the
tracker, as the process does. `window` observes the last evaluations for
`ReentryIsConfirmed`, which counts those and not days.

## 3. What the runs check

| Run | States | Shows |
|---|---|---|
| `service_days` | 4.8 M | over two days, unattended trades fail closed, a pause that the started service granted freezes every unforced rebalance queued before it, decisions are taken on a live feed, booked orders serve the decision in force also beside the reset thread, the breaker leaves no risk position outside the drift band |
| `service_restart` | 2.2 M | with a crash or shutdown at any point and writes that fail, done means stored, weekly done means that its orders are in the book, with no risk outside the band under a target without, and the contract holds |
| `service_liveness` | 50 k | every handler that asked for the lock ends |
| `scheduler` | 6.3 M | on dates of 2026 the scheduler implements the contract, loses no retry and keeps the hours and days the exchange published |
| `ledger` | 2.3 M | books balance, NAV matches, the buffer is kept, through clamps, rollbacks, marks and resets; a purge by the script brings no position back; a rebalance leaves nothing above its target by more than the band, and nothing but the proxy below it while there is money |
| `feed` | 312 k | live prices are real; no interleaving leaves an authenticated client or a live feed without a task that reads or reconnects; a dead upstream is noticed; the feed becomes live again |
| `stream` | 451 k | caches never go back and miss no bar that an overflow spared, one consumer keeps the order, the relay sends what is desired, but for what a caller's own `connect()` left out |
| `rest` | 257 k | the client refines `RateContract`, queries are complete or raise, every call ends |
| `alerts` | 69 k | posts are paced; blips are silent; the posts of BROKEN and RECOVERED alternate; an outage is announced or its timer runs, and a feed that is live has none; the loop comes back |
| `strategy` | 30 k | the gate, the lockout, the regime and the weights agree; re-entry is confirmed; worse is never riskier; the defence lifts |

Two more runs are expected to fail, see "Findings".

### Bounds and why they are enough

- **Service**: `MaxDay = 2` with both days last days of a week, so a weekly run is met
  with today's and with yesterday's decision and a breaker flag of an earlier day;
  one web request, because the FIFO lock makes a second one wait exactly as the
  first does and a finished request may be made again; one reset beside everything
  else in `service_days`, one restart (two processes) in `service_restart`. The feed,
  pauses, resumes and requests are not bounded.
  `service_restart` has no web request: those end with the process and leave nothing to
  restore, and with one the graph is several times larger; its three formulas are proved
  for any number of requests. `MaxAge = 1` restores yesterday's decision there, as the
  code's five days do.
- **Scheduler**: four dates one after the other (the days between them would repeat
  what these do): the Thursday that ends its week before Good Friday, Good Friday, a
  first trading day that ends its week, a short Friday. Windows of three minutes,
  retry of two, handlers of up to two: a cadence fails, is retried in its window and
  at its end, and one handler's length crosses the next one's window.
- **Ledger and rebalancer**: three symbols (two of risk, the proxy), two prices, cash of
  40, four batches: four target weights after one another at any prices, and two
  batches no rebalance would ask for. A position is opened, added to, partly sold with a
  cost that does not divide, closed with dust, and a BUY is clamped and passed over,
  with one purge by the script. `InitialCash`, fee and slippage are
  chosen so that fees of a SELL can exceed its proceeds and drive the account row
  into its CHECK.
- **Feed**: one fault at any moment (upstream, relay, socket or REST call; the relay may
  also be away at the start), one broadcast under way, two sockets at once, one stop.
  The relay's return costs nothing. Two sockets are the fewest with which a producer
  can outlive its socket's replacement.
- **Stream**: six messages, the second and third of the lifecycle, over queues of two, so
  messages are dropped and dispatched directly; three connections, hence up to three consumers; two subscription calls.
- **REST**: two callers, a burst of two requests, two retries, pages of two;
  `MaxDebt = 2` keeps new callers from queueing further than one reservation ahead.
- **Alerts**: two threads; interval, ceiling and backoffs are the program's numbers in half
  seconds; grace (6 s) and time-out (2 s) are shortened, so that a post may end before or
  after a grace that began with it.
- **Strategy**: two sectors, prices from 0 to 16 % below the peak, 228 markets in two slices
  (prices, averages, volatility and breadth; momentum of sectors and havens);
  `RecoveryDays = 3` as in the program. Days, evaluations and restarts are not bounded.

`CHECK_DEADLOCK FALSE` is given for the scheduler, whose calendar ends, for the feed,
which may be stopped with nothing left to do, and for the stream, whose relay runs out
of messages.

### Fairness

Each `FairSpec` states what its run assumes; the runs without one check safety only.

- **Service** (`service_liveness`): strong fairness of each task's next stretch
  (`Resumes(t)`) and of the cancellation of the scheduler's task. The event loop serves
  its ready coroutines in turn, so one that is ready again and again between other
  stretches is resumed; the lock is FIFO; REST requests have timeouts and bounded
  retries, so a warmup returns. Nothing is assumed of the feed, of operators, of the
  market, or of restarts. Storage faults are off in that run: SQLite's busy timeout
  bounds a call, whether it succeeds does not matter to termination and only enlarges
  the graph.
- **Feed**: weak fairness of every task that can go on, strong fairness of each caller of
  `connect()`, whose lock is first come, first served; sockets that die are noticed,
  scheduled callbacks run. Of the environment only `Silence`: in a long outage market
  hours come round (`_watchdog_loop` does not count the closed market). That the relay
  comes back is a premise of the property (`RelayReturns`), not of the specification.
- **Alerts**: time passes, threads go on; strong fairness where a thread takes the
  process-wide lock and where the grace timer's callback, ready on a loop that others
  keep busy, gets its turn, because the loop's ready queue is FIFO.
- **REST**: sleepers wake, sent requests are answered or time out, time passes.
- **Strategy**: days come, end, and are evaluated again and again (`SF` of `Evaluate`: the
  bot is neither paused nor cut off for good). `DefenceLifts` is about favourable days
  only; no fairness makes a market rise.

## 4. What is proved

All theorems hold for every number of requests, days, restarts, resets, symbols,
prices, fees, batches, callers, sockets, messages and threads, with and without storage
faults unless one says otherwise, under the assumption of the module, which TLC
evaluates for each instance. `TypeOK` is both run and proved for the service and the
ledger, and only proved for the scheduler, the alerts, the feed, the stream and the
strategy.

**StrategyServiceProofs**
- `TypeCorrect` (`TypeOK`). Types are not inductive alone: that `Head(lockQ)` and
  `Tail(lockQ)` make sense needs `QueueInv` (no task queues twice, who is past the lock
  heads the queue, each task does a job of its kind).
- `WeeklyFailsClosed` (`ScheduledTradesFailClosed`). `WeeklyInv` says that a weekly
  handler inside its stretch still has the feed and the state it checked; it rests
  on `BusyInv`, that at most one task is inside a stretch.
- `PauseHolds` (`PauseFreezesManual`), with `ManualInv`: only the lock's holder changes
  `svc`, so a pause granted means that no unforced rebalance is past its check. It is
  stated with `frozen`, under which the service is started and `svc` is PAUSED.
- `DailyDoneIsDecided` (`DailyDoneMeansEvaluated`), by strengthening it to the recorded
  cadences: what a restart would restore must be decided, too.
- `KeepsContract` (`ImplementsContract`): every step of the service maps to a step of
  `CadenceContract` or a stutter; `TriedInv` ties the running daily handler to `tried`.
- `DecisionsAreLive` (`EvaluatesOnLiveFeed`), `FillsServeDecision`
  (`FillsFollowLatestDecision`), `WeeklyDoneIsOnTarget` (`WeeklyDoneMeansOnTarget`), all
  from `StretchInv`: what each point of a stretch still knows of the checks before it.
  Whoever evaluates has a live feed or no bars; whoever is about to execute has orders
  that the decision in force asks for, unless a reset came between; whoever is past
  executing has its orders in the book, or had none. It is inductive because `BusyInv` leaves one task
  in a stretch, and the reset thread is the one actor that moves in it.
- `BreakerAlwaysDerisks` (`BreakerEndsDerisked`): like the run `service_days`, for one
  process that is not shut down and whose storage works. `BreakerDerisksOrFails` is the same with
  all faults and restarts: the breaker leaves no risk position outside the drift band, or
  its booking failed.

**CadenceSchedulerProofs**, from `SchedulerInv`: between a tick's reading of the clock and
its end only handlers move the clock, each by at most `MaxRun` (`TickInv`, `RunInv`),
nothing recorded or planned lies in a day to come (`PastInv`), and once the tick is past
it a daily close in its window is done or planned (`DailySeen`).
- `SchedulerTypeCorrect` (`TypeOK`), `RetriesAreKept` (`RetryPending`).
- `SchedulerKeepsContract` (`ImplementsContract`): with `KeepsContract` both
  implementations of `CadenceContract` are proved.
- `HoursAreKept` (`KeepsExchangeHours`), from `HoursInv`: whatever is attempted, done or
  waits for its retry today was called for today (`TriedInv`), and a cadence called
  for and not attempted has a tick to come: one before the close, or the one under way
  (`NoneMissed`). It has two hypotheses. `CalendarAgrees`: the computed calendar
  is the one published, which the run's `CalendarAssumption` and `Sessions` compare on its
  dates. `RunsFit`: no handler runs longer than the daily window is open; after a
  longer monthly handler the clock's next reading may come after the close, and the daily
  close is missed.

**PaperLedgerProofs**. The first five rest on one invariant, `LedgerInv`: types, positions
whose lots and cost vanish together in the table, in `pos_dict` and in the transaction,
`RowsWithinWork`, positive prices in a batch, no transaction without a holder. The
steps are proved of `AnyNext`, which begins a batch of any orders: `Next` does, and so do
the rebalances of `Rebalancer` (`RebalanceIsAny`).
- `LedgerTypeCorrect` (`TypeOK`), `RowsStayWithin` (`RowsWithinWork`), `BufferIsKept`
  (`BuyKeepsBuffer`), `MarksKeepPositions` (`MarksMoveNoPosition`).
- `NoFeesNoRollback`: without a minimum fee and with a fee per lot that a lot's price
  covers, the working cash is never negative, so the CHECK refuses no batch. The
  production configuration has no fees.
- `BooksAlwaysBalance` (`BooksBalance`), `NavAlwaysMatches` (`NavMatchesTable`), from
  `MoneyInv`: until a purge the books balance in the tables *and* in the middle of a
  batch, a batch works on exactly the rows its transaction sees, and marks waiting to
  be written are of positions in the table. Order by order (`SellIsSquare`,
  `BuyIsSquare`) what cash loses the cost of one position gains, up to fees, result and
  the remainder kept in `dust`.
- `RebalancesKeepTheBooks`: all of this holds under `RebalanceSpec`, too.
- `RebalanceAlwaysReachesTarget` (`RebalanceReachesTarget`), from `GoalInv`. While a batch
  for a goal is under way (`UnderWay`), each order left leads within half a lot of its
  symbol's target when it is filled in full (`OnTheWay`), no symbol has two, and each
  symbol without an order is settled (`Settled`): above its target by no more than the
  band, and below it by more only if too little is left for it. That a
  symbol stays settled needs three more facts: SELLs come first, so that cash only falls once
  a BUY was clamped or passed over (`Poor`); the account is worth no more than when the
  batch was computed, so that the buffer is at most its share of that worth
  (`CashWithinNav`); and the transaction sees the rows the method works on. A batch begins
  like that because the orders are each drifted symbol's, once (`OrdersOfARebalance`),
  and rounding misses by half a lot (`HalfALot`); each order worked off keeps it
  (`PassOverOnTheWay`, `SellOnTheWay`, `BuyOnTheWay`); when none is left, every symbol is
  settled.

A sum over a set is a recursive function on its subsets. Induction with an operator
parameter is out of reach, but an induction over finite sets is not: proper
inclusion among the subsets of a finite set is well-founded
(`FS_StrictSubsetOrderingWellFounded`), so a counterexample would have a smallest one
(`SmallestSubset`). From that follow that partial sums exist and agree, `SumUnfolds`,
`SumType`, `SumsEqual` and `SumRemoves`: a sum is one term and the sum of the others,
whichever term is taken out. `DailyStrategyProofs` repeats these lemmas for its `Total`.

The orders of a side, in their order, are those at its positions taken upwards
(`InOrder`); that positions can be taken upwards, each once, is again an induction over
finite sets (`AscentExists`, `InOrderIsAscent`). With it `SequencedIsInOrder` says what the
partition into SELLs and BUYs keeps: every order, once, the SELLs first.

**RelayRestProofs**, for any finite set of callers.
- `RateIsKept` (`KeepsRateCeiling`), by `RateInv`: for every sleeper, the budget that is
  left when it is due pays for all that wake by then (`Cost(Sooner(d))`), and the bucket
  never holds more than what the budget leaves after all reservations. Neither half is
  inductive without the other: a new reservation is later than all that the budget can
  pay, because the bucket's clock already stands at the last one.
- `QueriesAreComplete` (`CompleteOrError`), by `PagesInv`: a query under way holds the
  pages 1 to some `k` below what it wants.

**OutageAlertsProofs**, for any threads, answers and times. `PacingInv` says that a
thread in the lock still sleeps at least what is left of the interval; `CardInv` ties
the timer, the flag and the card on its way to what was last told.
- `AlertsTypeCorrect` (`TypeOK`), `PostsArePaced` (`AttemptsPaced`), `BlipsStaySilent`
  (`BlipsAreSilent`), `CardsAlwaysPair` (`CardsPairUp`), `OutagesAreAttended`
  (`OutageIsAttended`). `PacingAssumption` contains that powers of 2 and 3 are naturals,
  which the provers have no axiom for.

**FeedLifecycleProofs**, for any number of sockets, broadcasts and faults, from `FeedInv`.
`ReaderInv`: an authenticated client reads its own socket, or the reconnect task is past
the point where it let go of it and will connect next. `AttendedInv`: from the first
connection on somebody attends to it, and before that the feed is in fallback with no
attempt past `connect()`. The connection's steps are proved once to keep the attention
(`KeepsAttention`), whoever called.
- `FeedTypeCorrect` (`TypeOK`), `LivePricesStayReal` (`LivePricesAreReal`),
  `ConnectionsAreAttended` (`ConnectionIsAttended`).

**RelayStreamProofs**, for any queue sizes, messages, connections and subscriptions.
- `CachesAlwaysCatchUp` (`CachesCatchUp`), from `QueueInv` and `CacheInv`: the queue holds
  the newest messages without a gap, and a bar that left it is in the caches unless an
  overflow may have dropped it, which takes `QueueSize` later messages.
- `OneConsumerAlwaysKeepsOrder` (`OneConsumerKeepsOrder`), from `OrderInv`: what one
  consumer has published is older than what it is suspended on.
- `RelayAlwaysHasDesired` (`RelayHasDesired`), from `SubscriptionInv`: the last frame on the
  wire that mentions a symbol says whether it is desired; without one the relay does, unless
  the symbol is `missed`.
- `StreamTypeCorrect` (`TypeOK`).

**DailyStrategyProofs**, for any markets, sectors and `RecoveryDays`. `StrategyInv`: the
tracker's types, lockout exactly under a cut, a recovery count that the last
evaluations bear out. `DecisionInv`: the decision is what the rules gave for the day's
market, under the gate that is in force unless the process restarted since.
- `LockoutMatchesGate` (`LockoutIffCut`), `ReentryConfirmed` (`ReentryIsConfirmed`),
  `CutNeverMeetsBull` (no bull allocation under a cut).
- `DecisionsSpendTheCapital` (`WeightsSpendTheCapital`), `CutsHoldEquityDown`
  (`CutHoldsEquityDown`), `StrategyTypeCorrect` (`TypeOK`: each weight between nothing and
  everything). Momentum picks at most two sectors (`TopTwo`: ranks are a strict total
  order, so of three one would have two before it), hence the equity of a decision is
  `Percent * Risk` (`EquityTotal`); with the reserve it never exceeds the capital
  (`CapitalIsLeft`), and the havens spend the rest, roundings included (`HavensSpend`).
- `WorseHoldsNoMore` (`WorseIsNeverRiskier`): by `EquityTotal` what an evaluation would hold
  is a product, and both factors are monotone. `NoBetter(x, m)` says of two markets that
  nothing the rules look at is better in `x`, be it in one respect or in many. Then the gate
  is no higher and the lockout no looser, though a lower price may also lower the peak
  (`GateFalls`); the regime is no better (`SignalsWorsen`); momentum picks no more
  sectors, because it picks as many as clear the hurdle, up to one or two
  (`PickedSectors`), and losing a leader costs a bull regime less than leaving it
  (`PercentFalls`); and the volatility's quotient and the broken band only lower the
  risk multiplier (`RiskFalls`). It needs no invariant but the tracker's types.

**What the proofs changed in the models.** The attempt on `ConnectionIsAttended` failed on
a state in which the reconnect task's call had returned but the task had not taken the
result: the model had two steps where the code awaits nothing, so `Return` now does
both. The proof then allowed the property to be extended to the live feed.
`RebalanceReachesTarget` once bounded the proxy from below as well, counted with the cash.
The attempt to prove it led to a portfolio in which it fails: two positions above their
targets by just within the band, and cash beyond the band; the BUY of the proxy only turns
cash into the proxy, and the two together stay below the target. Nothing of that is against
the code, so the property now asks nothing of the proxy's lower side, and is sharper on
all others: half a lot and the band above, one more lot below. Batches were made with
`SelectSeq`, of which the provers know nothing, and `LedgerAssumption` had to assume that a
sequenced batch consists of orders; now it is proved.
`CachesCatchUp` once said that an empty queue means the newest bar is in the caches; with
more lifecycle messages that fails, because an overflow drops the oldest message, which
may be the last bar before them: it now says which bars are safe, and the run has the
messages that tell the difference. `StrategyAssumption` gained what the
provers asked for and the universe has: sectors apart from funds and havens, tickers
that differ, and of a market (`IsMarket`) that SPY has bars, that prices are positive
and that averages, ranges and volatilities are not negative.

**Only model-checked.** Liveness: `HandlersFinish`, `EventuallyLive`, `DeadUpstreamNoticed`,
`CallsEnd`, `LoopComesBack`, `DefenceLifts`. `CalendarSound`, the calendar's arithmetic, is
evaluated over its years.

## 5. Findings

Each is a run that TLC finds violated; the property quotes the repository.

| Run | The code | says |
|---|---|---|
| `service_dead_feed` | a forced rebalance checks the feed, awaits a warmup that may take it down, and trades at fallback prices; the breaker checks it before it waits for the lock | `service.py:778` force never overrides a dead feed, `:623` synthetic ticks must never liquidate |
| `alerts_untold` | a BROKEN card counts as posted (`service.py:314`) although the notifier returned that Discord refused it, or that the post timed out; the recovery is then announced of an outage nobody was told of | `service.py:295` RECOVERED only when a BROKEN card actually went out, `MEMORY.md:60` |

The trace of `service_dead_feed`, the shortest there is: a crash bar on the live feed
starts the breaker's task, the feed falls back before the task has the lock, and its
orders are booked (a book of havens that are not SHV is enough to have some). The other
way is longer: a forced request passes its check, finds the bars stale and awaits the
warmup, whose error takes the feed down; an allocation of earlier is still there and its
orders are booked. That of `alerts_untold`: the grace ends, the post of the
BROKEN card begins and fails, the flag is set, the feed comes back and the RECOVERED
card begins. `CardsPairUp`, which holds, is about the posts begun.

More disagreements are in the models and keep no run of their own; the properties
that meet them are worded to except exactly the case:

- an attempt to go live uses its first health answer across later awaits
  (`feed_manager.py:276`, and the recovery loop at `:521`): when a later answer shuts the
  gate, or the socket drops in between, the feed is declared live, the loop then leaves it
  alone (`:492`) and nothing opens the gate before the relay's next broadcast, so no
  scheduled rebalance trades, although the loop is "self-healing" and "restoring stream"
  (`:484`). `EventuallyLive` promises the feed, not the gate;
- `start()` sets RUNNING (`service.py:949`) over a pause granted during its awaits, although
  rebalances are frozen (`:732`) until `resume` restores them (`:744`): `PauseFreezesManual`
  is stated for a pause that the started service granted (`frozen`);
- recovery days are counted by evaluation (`indicators.py:299`), so an operator's three
  rebalances of one day confirm a recovery, although it takes closes of three
  consecutive trading days (`STRATEGY.md:230`, `:282`, and `indicators.py:9` "3-day");
  `MEMORY.md:73-74` lists it as known and not fixed. `ReentryIsConfirmed` counts
  evaluations, which are days only while none is evaluated twice;
- a manual request's skip marks an overlapping weekly run as skipped (`service.py:254`),
  which is then run again, although a cadence runs once per day (`scheduler.py:333`);
- orders computed before a reset are booked on the wiped account (`service.py:917`),
  which should be pristine (`:914`): the properties that the reset weakens are stated
  for orders computed after it (`task[t].wipes = book.wipes`);
- a purge between a batch's reads and its first write (`paper_account.py:500`) leaves old
  cash over no positions, although the batch is atomic (`:456`): `BooksBalance` and
  `NavMatchesTable` are stated for files the script has not purged under the bot.

What the models show and no line of the repository excludes: because `tick()` reads the
clock once, a handler may start after the close when those before it ran long
(`KeepsExchangeHours` bounds by how much), and a retry may come sooner than
`retry_interval` after the end of a long attempt. A restart forgets a drawdown's peak
and lockout. Positions within the drift band survive a de-risk: the band is there for
every target (`rebalancer.py:74`), and the properties of the breaker and of the weekly run are
stated up to it. A symbol subscribed before the first `connect()` is unknown to the relay
until a reconnect (`RelayHasDesired` excepts it as `missed`; the bot subscribes after
connecting). The gate may report safe over a dead socket while the reconnect task has
not noticed.

## 6. Not modelled, and why

- *Numerical code*: how averages, ranges, volatilities and returns come out of bars, the
  random walk of the synthetic ticker, the regime simulator.
- *Snapshots, histories, audit log, repositories*: rows that are written and shown;
  nothing decides on them.
- *Parsing and card formatting*: what a message or an answer says is given by what the
  handlers tell apart.
- *Functions without a caller in the bot*: `try_acquire`, `reset` of the bucket, `prime`,
  `classify_regime`, `select_top_growth_leaders`, `is_last_trading_day_of_month`,
  subscribers of `stream()` beyond one.
- *Old daemon* (`strategy_engine/daemon/daemon.py`): not started by the bot.
- *Web pages, CLI, smoke test*: input and output over the parts above.
- The second watchdog loop that `start()` adds does what the first one does.
- *Small steps left out where nothing tells them apart*: the watchdog's false alarm on a
  live stream that is only quiet; a handshake whose last answer arrives while the
  reconnect lets its socket go, which the model lets fail and the code calls
  authenticated until the reconnect's own `connect()`; an exception out of the notifier,
  which answers every failure with `False`; sector keys without bars, whose breadth the
  code takes for 100 %, with the same regime as the model's fallback to the index funds.
- The breaker's target is not saved and a failing breaker task is not retried: the
  model has both behaviours, the repository promises nothing of them, so no property
  is stated (see the hazards).

## 7. Plan

Every part with control of its own is modelled, and every invariant and action property of
a passing run is proved. What is left:

1. A composition of `FeedLifecycle` with the service's view of the feed, so that `FeedMoves`
   is shown, not only argued, to contain its steps.

## 8. Running

    tlc -workers 2 -config service_days.cfg MCStrategyService.tla
    tlapm StrategyServiceProofs.tla

Each run's module and properties are in `PROJECT.json`.
