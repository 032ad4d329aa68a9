# A TLA+ model of the v5 trading bot

This directory specifies, model-checks and proves properties of the trading bot:
the code that places futures orders and keeps `live_trades` in step with the
Binance account, asks the operator over Telegram, keeps the audit trail, decides
who may change what it does, turns bars into predictions and predictions into
orders, runs the background tasks all of it depends on, and serves the operator's
desk: health, start-up, studies, taxes, accounts. Paths below are
relative to `backend/app/` unless they start with `docs/` or `tools/`.

Contents: [the system](#1-the-system) ·
[modules](#2-modules-and-how-they-correspond-to-the-code) ·
[runs](#3-runs) · [fairness](#4-fairness) · [proofs](#5-proofs) ·
[disagreements](#6-where-code-and-documentation-disagree) ·
[abstractions](#7-abstractions) · [not modelled](#8-not-modelled) ·
[plan](#9-plan)

## 1. The system

One asyncio process (`main.py`) runs a FastAPI application and a few dozen
background tasks over one Postgres database, one Redis, and three services: the
Binance APIs, the Telegram bot API and the news feeds. There are no threads in
the trading path: tasks interleave only at `await`, and everything that outlives
the process is in Postgres, in Redis, at Binance or at Telegram.

| Component | State it keeps | Operations | Module |
|---|---|---|---|
| Live placement: `trading/execution/atomic_placement.py`, `symbol_position_gate.py`, the placing half of `dispatcher.py` and `ops/telegram_polling.py` | a `live_trades` row, the entry and two protective orders at Binance | gate, INSERT pending (own commit), drift check, entry, stop, target, emergency close, outcome UPDATE | `TradeLifecycle` |
| Exit monitor and reconciler: `trading/execution/live_exit_monitor.py` | one open transaction per exit pass | every 30 s: resolve stale pending rows; classify open rows; UPDATE row, UPSERT cooldown | `TradeLifecycle` |
| Liquidation monitor: `trading/execution/liquidation_monitor.py` | none across ticks | every 30 s: close positions with a spent buffer, record the breach | `TradeLifecycle` |
| Telegram approval: `telegram/trade_signals.py`, `telegram/signals.py`, `ops/telegram_polling.py` | `telegram_signals`; the poll offset in memory | post card, fetch updates, route taps, conditional UPDATE, place, auto-skip | `TelegramApproval` |
| Audit chain and verifier: `db/audit.py`, `db/audit_verify.py`, `ops/verifier_scheduler.py` | `prev_hash`/`row_hash` of each chained row; an advisory lock per table | `insert_with_chain`; nightly walk | `AuditChain` |
| Pause switch: `ops/pause_state.py`, `api/routes/admin_system.py` | four Redis keys, an in-process cache | `set_paused`, `is_paused` | `PauseState` |
| Check events: `ops/check_events.py`, `workers/check_events_flush.py` | counters and watermarks in memory, one row per check | count, flush, audit the fleet, look for silence | `CheckEvents` |
| Trading mode: `trading/modes.py`, `promotion.py`, `auto_promote.py`, `api/routes/admin_*.py` | mode and kill switch of a user | request, daily evaluation, patch | `TradingMode` |
| Checkpoints: `rl/checkpoints.py`, `ml/champion_challenger.py`, `api/routes/admin_rl.py`, `tools/ml/register_brain.py` | `rl_checkpoints`, the pinned brain | activate, force, deactivate, register, load | `ModelRegistry` |
| Dispatcher and gates: `trading/execution/dispatcher.py`, the gates, sizing, leverage, `core/gates/`, `core/regime/` | snapshot and regime caches, decision log | `dispatch()` | `DispatchGates` |
| Prediction and brain: `core/predictor.py`, `core/scoring/`, `rl/inference.py`, `rl/predictor_glue.py`, `shadow/observation.py` | smoothing history, calibration memos, embeddings | `build_prediction()`, hot swap, refit, capture for training | `Prediction`, `Scoring` |
| Patterns, indicators, layers, traps: `core/patterns/`, `core/indicators/`, `core/scoring/`, `core/traps/` | none | functions of a bar history | `Bars`, `ShapePatterns`, `BarPatterns`, `PatternLibrary`, `Indicators`, `Layers` |
| Worker supervision: `ops/worker_*.py` | task registry, heartbeats | spawn, restart, watchdog, shutdown | `WorkerSupervision` |
| Validation: `ml/validator.py` | attempts and state of predictions, stall streak | select, validate, dead-letter, record | `ValidationQueue` |
| Shadow trading: `shadow/` | paper positions in tables and memory, cooldowns | open, hold, close, break-even replay, restart | `ShadowBook` |
| Fleet: `shadow/live_fleet_universe.py`, `ws/keepalive.py` | snapshot with cohorts, children of two fleets | sample, persist, reconcile | `LiveFleet` |
| Polled feed: `ws/futures_poll.py`, `ws/live_prediction.py` | watermark, crash streaks | poll, predict, publish, save, restart | `PollFeed` |
| Market data: `data/ratelimit.py`, `data/bar_fetch.py`, `core/scoring/mtf_confluence.py` | token bucket, vote cache | acquire, fetch, route, cache | `MarketData` |
| News: `news/ingest_worker.py`, `news/persistence.py` | cursors, daily allowance, `news_items` | ask, store, move, clean | `NewsIngest` |
| Healer: `healer/` | what the detectors remember in memory and in `healer_findings`; what was paged | a tick of six detectors; record, page | `Healer` |
| Start and preflight: the lifespan of `main.py`, `trading/preflight.py`, `secrets/vault.py`, the key cache of `glue.py` | tasks, keys in memory, the `preflight_gate` heartbeat | start tasks, check, report, unlock, restart | `Boot` |
| Weight studies: `api/routes/admin_hyperopt.py`, `tools/hyperopt.py` | `hyperopt_studies`, tasks of the process | request, optimise, record | `Studies` |
| Backtester: `tools/backtest.py` | the trades and the equity curve of one walk | scan, trade, tally | `Backtest` |
| Tax records: `trading/tax/` | lots of a queue, `fx_rates`, `tax_events` | buy, match a sale, ask the rate, record | `TaxLots` |
| Accounts: `auth/`, `api/routes/admin.py`, `api/routes/me.py` | users, invitations, `impersonation_state`, its events, code attempts | admit, invite, patch, deactivate, view, try a code | `Accounts` |
| Scanner, dashboard, scripts, migrations | various | see section 8 | none |

### What is hard here

* **Money moves between two awaits.** An entry is executed before any stop
  exists, and the row that describes it is written in other transactions, before
  and after. Every await in between can be the last one.
* **An answer may be lost.** The placement catches `BinanceLiveError` only. A
  timeout is an `httpx` exception: it passes every handler of the placement, and
  the order may have been executed. So it may behind a 5xx, which the client takes
  for a rejection.
* **Three tasks place, two tasks close.** None takes a row lock before it decides.
* **Nothing remembers the poll offset.** After a restart Telegram delivers again
  whatever it was not told to forget.
* **Check, then act, without a lock.** `set_mode`, the activation of a checkpoint,
  the pause cache, the symbol gate and the count of open positions all read first
  and write later.
* **A failed statement poisons its session.** Postgres aborts the transaction, so
  a check that means to fail open fails for everybody behind it.
* **Memory that outlives its truth.** Watermarks, streaks, cursors, cooldowns and
  calibration memos live in the process, their rows in tables, and a rollback or a
  restart separates them.
* **Queues that block.** A batch full of rows that can never be validated, a
  stream cut at its limit, a limiter whose level a late header overwrites.
* **Arithmetic nobody reads twice.** Forty detectors turned by hand into their
  twins; fifteen layers and traps scored for two sides; a stop whose first bar
  counts or does not; lots matched within a tolerance; a drawdown found in one walk.
* **An alarm that comes once.** What the healer marks as known, reminded of or
  part of the baseline is not told again, so it must have been told before.
* **A start that half succeeds.** The checks read one vault, the keys another; a
  process that may not trade must say so, and one that trades must guard it.

`PROJECT.json` lists each of these hazards at its line, with the properties that
are about it, and with a note what of it they leave out because the code does it:
the models reach such a state, and the property excuses it by name. Three have no
property. A deadlock between the two monitors' lock orders
(`trading/execution/live_exit_monitor.py:356`): its effect, a transaction Postgres
aborts, is a fault of either monitor in the model; the lock order is not modelled. A
cancel of the watchdog that a restart swallows (`ops/worker_supervisor.py:120`), and
a finding of the healer that is lost after it was noted as known
(`healer/detectors.py:161`): both are modelled, and nothing in the code repairs them.

### What makes each part correct

* Placement: no entry without a committed row; a placement that returns leaves
  its entry protected, closed, or reported as a ghost, unless a 5xx hid the
  execution from it.
* Table: a status only moves along the life that `LiveTradeLedger` describes; an
  exit is recorded once; pending rows are resolved; a flat position is noticed.
* Approval: a card leads to at most one order, to none once the timeout closed
  it; every card is decided; every tap is looked at.
* Audit chain: committed rows form one chain whatever the writers do; the
  verifier does not cry wolf; a waiting writer gets its turn.
* Control: a pause takes effect within the cache's life; counters never say too
  much; a mode was earned by the trades; a brain has somebody who vouches for it.
* Dispatch: a position is doubled only by a fault, cards are spaced, a losing symbol
  is kept out, the stop comes before liquidation, the log explains the outcome.
* Prediction: the direction traded is the one its traps were checked for; the
  brain is trained on what it was shown.
* Background: one task per worker while the program is up, a dead one replaced or
  paged; nothing waits for ever; no candle, cooldown, alarm or headline is lost silently.
* Desk: an alarm is raised for each cause, once; orders only under the tasks that
  guard them; a study that runs is worked on; a simulated trade ends as the paper
  engine would end it; a sale takes the oldest lots; whoever is viewed is on record.

## 2. Modules and how they correspond to the code

```
LiveTradeLedger         what the live_trades table promises its readers
   ^  refinement (row <- status, exited <- closedAt, owned <- running placements)
TradeLifecycle    <-  MCTradeLifecycle, TradeLifecycleProofs
TelegramApproval  <-  MCTelegramApproval, TelegramApprovalProofs
AuditChain        <-  MCAuditChain, AuditChainProofs

Control           <-  MCControl, ControlProofs <- DecisionProofs
   INSTANCE PauseState, CheckEvents, TradingMode, ModelRegistry,
            DispatchGates, Prediction (EXTENDS Scoring, over Bars' sums)

Background        <-  MCBackground, BackgroundProofs <- DeskProofs
   INSTANCE WorkerSupervision, ValidationQueue, ShadowBook, LiveFleet,
            PollFeed, MarketData, NewsIngest,
            Healer, Boot, Studies, Backtest, TaxLots, Accounts

Bars <- ShapePatterns, BarPatterns <- PatternLibrary
Bars <- Indicators <- Layers
PatternLibrary, Layers <- MCSignals <- SignalsProofs
```

Three conventions hold everywhere. One action is the code between two awaits at
which something else can matter. An action that may fail has the failing outcome
as a disjunct of its own, which takes one of a bounded number of faults. Operators
named `MUT_...` are plausible bugs, each next to the definition it would replace;
no specification uses them: they document that a property would notice.

`Control` and `Background` hold machines that share no state the models keep. A
behaviour is one of one of them: `part` says which and never changes, and the
others stay where they began. A run then explores the sum of the machines and not
their product, and the property of a machine in the composition is its property
alone. `faults` is one variable, budgeted per machine in `Background`
(`WorkerFaults`, `QueueFaults`, ...) and for all of them in `Control`.

### TradeLifecycle

A *trade* is one attempt to place, with its row. `pc[t]` is the point its
coroutine has reached:

| `pc` | next action | code |
|---|---|---|
| `idle` | `Begin` | `DispatchContext` is built (`glue.py`) with the count of open rows, compared with `max_concurrent_positions` in the dispatcher; the approval path has no count |
| `gate` | `Gate` | `check_symbol_position_open`; on a database error dispatch goes on, approval stops |
| `insert` | `Insert` | Phase 1: quantity rounding and the pending row, committed |
| `drift` | `Drift` | approval only: the price moved since the card was sent, row failed as `stale_price` |
| `entry` | `Entry` | `set_leverage` and the market order |
| `sl`, `tp` | `PlaceStopLoss`, `PlaceTakeProfit` | closePosition orders |
| `cancel` | `CancelStopLoss` | after a refused target |
| `close` | `EmergencyClose` | `_emergency_close`: flat, ghost, or an escaped exception |
| `reject`, `ghost` | `RecordFailure` | Phase 3, failure |
| `commit` | `RecordOpen` | Phase 3, success |
| `done`, `raised`, `dead` | none | returned, exception escaped, process died |

The row is `status`, `closedAt`, `exitReason`, `failure` and `armed` (both protective
order ids recorded); `cooldown` is the symbol's row in `live_cooldowns`; `stale` holds
the rows older than the reconciler's 60 s grace. `held` and `orders` are the account:
which entries make up the position of a symbol, and which protective orders rest;
`masked` are the attempts of which an order was executed behind a 5xx that the client
took for a rejection. `monPc`, `monTodo`, `monCur`, `monPos` are the exit monitor's
place in its tick and what it read; `buf` and `cbuf` are what it wrote and has not
committed, which is also what it has locked. `liqTodo` and `liqCur` are the liquidation
monitor's.

`ExternalClose` is anything that flattens the position outside the program: a
bracket that triggers, the operator, a liquidation. `Crash` loses the coroutines
and the open transactions; the database and the account stay.

`LiveTradeLedger` is the abstract specification: three variables and six actions.
A row is inserted by its owner, which alone may change its mind while it runs;
somebody else may resolve it once, out of `pending`; a resolved row nobody owns is
final; exits are recorded on resolved rows and never taken back. This is what the
position gate, the context builder and the API may rely on.

### TelegramApproval

`Send` and `EndDispatch` are the two halves of the dispatcher's transaction
around `_send_telegram_signal`: the card is visible before its row is committed.
`Tap` is the operator's. `Poll`, `Route`, `PlaceApproved`, `BatchDone` and
`AutoSkip` are one iteration of the poller's loop. `confirmed` is how far
Telegram has been told to forget, `offset` the poller's memory of it, which
`Crash` resets. `Decided` is what `handle_callback` does to `response`;
`Wins` is the condition of the UPDATE that approves.

### AuditChain

Each writer is a transaction that calls `insert_with_chain` once or more:
`RequestLock` and `Acquire` are `pg_advisory_xact_lock`, `ReadLast` is
`_last_row_hash`, `Insert` draws an id and inserts, `Commit` and `Rollback` end it
and release the lock. Ids drawn by a rolled-back transaction stay used. `Rewrite`
is the UPDATE of a column that was hashed (`live_trades.entry_price`, in Phase 3
of every successful placement). `StartRound` and `Check` are the nightly round.

### Control

* `PauseState`: an admin's call writes the four keys one by one and then the audit
  row; a reader's call misses the cache, asks Redis, is served a value and caches
  it later. `lastHeld` remembers when the flag last had each value.
* `CheckEvents`: `truth` is what happened, `total`/`snapshot`/`mark` the counter,
  its copy and the watermark in memory, `staged` and `row` what the flush wrote
  before and after its commit. The audit of the fleet's tradability and the search
  for silent checks are steps of the same transaction.
* `TradingMode`: a request and the daily evaluation both read, check the gates and
  write (`TaskReads`, `TaskWrites`); `closed` is the history the gates judge, each
  target on its own window (`Since`); `switch` is a kill switch and its patch route.
* `ModelRegistry`: admin requests and the registrar judge a challenger against the
  champion they read and swap later; `loaded` is what the process pinned.
* `DispatchGates`: a feed's `dispatch()` from its first gate to the row of
  `dispatch_decisions`, in the order of the code, in a session that a failed
  statement aborts; sizing, leverage and quantities in hundredths and ticks.
  `Refresh` is the worker that snapshots the symbols' records, `losing` what the
  newest snapshot of each says and since when; the allowlist reads it through a cache.
* `Prediction`: a lane's `build_prediction()` through news, context, brain,
  record, finish and capture; `Scoring` holds the arithmetic: ensemble, layers 2
  and 9, traps, the brain's adjustment, the recorded fields.

### Background

* `WorkerSupervision`: `task[w]` is what the supervisor keeps for `w`; a restart
  cancels and waits; after ten seconds `GiveUpWaiting` cancels once more and waits
  without a limit, as `asyncio.wait_for` of Python 3.11 does; `WaitOver` is what ends
  the wait, and `Respawn` follows. A cancelled task may hang in its clean-up
  (`deaf`). The watchdog's pass classifies, heals, alerts; `Shutdown` cancels what
  `main.py` keeps.
* `ValidationQueue`: a pass selects the oldest due rows up to `BatchLimit`, tries
  each, commits, and writes its progress record; rows that cannot be validated are
  retired after `MaxAttempts`.
* `ShadowBook`: a lane's candle opens, holds or closes a position that lives as a
  row and in memory; the commit's answer may be lost; a close files the trade, the
  cooldown and the break-even variant. Prices are in units of risk.
* `LiveFleet`: a refresh samples against the prior snapshot, rescues what has an
  open position, writes cohorts and severity events; two supervisors reconcile. Of
  more than `MaxPolled` polled symbols any so many may be the most liquid.
* `PollFeed`: one polled symbol: watermark, prediction, publication, saved
  watermark, crash wrapper with its page.
* `MarketData`: the token bucket with waiters that wake and header answers that
  overwrite its level; the endpoint; the vote cache read by predictions, the
  prewarm and the refresh loop. A gather fetches all timeframes at once and `Score`s
  when the last one is in; votes are judged at that moment.
* `NewsIngest`: the loop over two sources with a cursor each, the store, the
  nightly clean-up and the daily allowance.

The desk, in the same composition (`Desk` names its parts):

* `Healer`: a tick runs the detectors in the order of `healer/runner.py`; each
  leaves its findings in `pending`, and `Tell` records and pages them one by one,
  or loses them. `known`, `baseline` are tables and survive `Restart`; `stall`,
  `dropped`, `lastRun` and `booted` are of the process. `looked` and `stalls` are
  what a detector has seen, `told` and `missed` what became of its findings: the
  properties compare them with what the detector keeps to itself.
* `Boot`: `at` is how far the lifespan is. `site` is the environment this start
  finds; `Preflight` and `CheckChain` are the five checks, `Report` the page and
  the heartbeat row (either may fail, and the start goes on), `InitializeVault` the
  second reading of the keys, from the path of the setting, and the tasks started
  with them; `Dispatch` is a live order of the worker that was started first.
* `Studies`: a request inserts, reads its id back as the newest running row it can
  see, commits, answers; its task optimises and records, after the response.
* `Backtest`: `Trade` is one iteration that opens: the path its levels see, the
  exit on it, the scan behind that; `Tally` is one step of the equity curve.
  Drawdowns are fractions, compared without dividing.
* `TaxLots`: `MatchSell` and `TakeHead` are the matcher, one lot a step; `AskRate`
  begins the look-up of the dollar, which `Cached`, `Fetched`, `Stale` or `Lost` end.
* `Accounts`: a request has a slot and acts on what `Enter` loaded; starting and
  stopping a view are two and three steps, with the row lock a DELETE takes.
  `Attempt` is `check_and_record` of one bucket.

### Signals

`Bars` computes swings, fits and averages of a history of whole-number prices;
`ShapePatterns` and `BarPatterns` say when each detector fires; `PriceVerdicts` and
`Verdicts` of `PatternLibrary` are the registry, a row per formation with its bearish
and its bullish detector: first the 29 that compare differences of prices alone, then
the 30 that find swings, average exponentially or ask for a share of a price.
`Indicators` and `Layers` are the indicators, the layers that vote from bars, and the
traps. None has variables: `MCSignals` draws histories.

## 3. Runs

A run is of no use when its bounds keep the interesting cases away, so each line
says what the bound still allows. State counts are of distinct states.

| Run | Instance | Shows |
|---|---|---|
| `OneTask` | the poller places two approved trades one after the other; one exception, lost answer, 5xx or crash; positions cross their stop, are closed outside or come near liquidation; 708,000 states | types; the refinement of the ledger; an exit is recorded once; `PendingResolved`, `ExitDetected`. Both monitors can be at the same row, and the second trade meets what the first one left |
| `TwoTrades` | an automatic dispatch and an approval on one symbol, one fault; 6.4 million states | `EntryHasRow`, `NoSilentNakedPosition`, `ArmedRowsStayOpen`, and the whole inductive invariant `Coherent`. Two attempts on one symbol is where one attempt's emergency close, or its order count, meets the other's entry |
| `Approvals` | two cards, two taps, two faults; 304,000 states | `ApprovalLatch`, `AtMostOneOrder`, `ClosedCardsStayClosed`, `EveryCardDecided`, `EveryTapRouted`. Two faults allow a tap delivered three times, or a restart between the commit of `approved` and placement and another one later |
| `AuditChain` | two writers, two tables, three ids, two faults; 157,000 states | `ChainLinked`, `AlarmsAreReal`, `WritersFinish`. Three ids allow a transaction of two rows beside another writer, and a gap in the ids with a row on either side |
| `Control` | six machines, one fault; two admins and readers; five checkpoints; three environments of the gates with the predictions each is tried with; one symbol that may begin and end to lose at any time; two lanes and checkpoints; 2.8 million states | the types and six groups of promises, see below |
| `Background` | thirteen machines, 422,000 states: two workers (one of them single-shot), one fault; four predictions of which two are poisoned, batches of two; two paper symbols over one stream slot; two fleet symbols of which one may be polled at a time; four candles of one feed, three faults; two timeframes and a limiter of capacity 1; four headlines, two faults; two pairs and two keys for the healer; every environment of a start; two overlapping studies; the walks of five bars; three purchases and two sales; an administrator and two users, two requests at once | the types, eight groups of promises, and liveness |
| `Signals` | flat and rising markets with up to seven legs or three single bars, and a portrait of each formation these do not draw; 821 histories of 201 bars | every detector but those `Lopsided` names mirrors its twin (`PriceTwinsMirror`, `NoSideFavoured`); harmonics are silent; layers, traps and indicators favour no side |
| `EscapedPlacement`, `ExitLeavesOpen`, `GhostReconciled`, `OneEntryPerSymbol`, `HonestRows` | smallest instance with the case | a documented claim the code does not keep; see section 6 |

`Control` checks `PauseHonest` (a flip shows within the cache's life and is
attributed), `NeverOvercounts`, `Authorised` (the mode is one whose gates the trade
history passed on some day, switches off only when confirmed), `ApprovedOnly`,
`DispatchHonest` (positions doubled only by a fault, cards spaced, stop before
liquidation, a symbol that has been losing for the cache's lifetime kept out, log
explains) and
`PredictionHonest` (the final direction is the one the traps were checked for,
training sees what was served, readers agree, the refit is used). `Background`
checks `OneInstance`, `WarningMeansHealed`, `AlarmsRaised` (a stall is recorded
once, an unwatched position is paged, every new type of exception and every drop
told, a stall confirmed, an idle start explained), `PaperHonest`,
`HeldSevereRecorded`, `FeedHonest`, `MarketHonest` (grants within the budget, fresh
votes, the right endpoint, no fetched headline lost), `DeskHonest` (orders guarded,
studies worked on, walks like the paper engine's, first in first out at the rate of
its time, views on record), and of liveness `Healed` and `NothingWaitsForever`.

Runs on `TradeLifecycle`, `Control`, `Background` and `Signals` switch deadlock
checking off: attempts, calls, candles and time are bounded, so these instances
come to rest. In the approval and audit models the poller and the verifier always
have a next step, and deadlock is checked.

The bounds and where they are:

* `MaxFaults` and its per-machine forms (exceptions, lost answers, failed
  statements, crashes), in the fault operator of each module.
* `TradeLifecycle`: the set `Trades`. `MarketReasons` narrows the exit reasons
  where a run is not about them.
* `TelegramApproval`: `MaxTaps` in `Tap`; `calls` grows only with routed taps.
* `AuditChain`: `MaxRows` in `Room`, which counts the open transactions too so that
  none has to stop half-way for want of an id.
* `Control`: `MaxTime`, `MaxFlips`, `MaxCount`, `MaxDay`, `MaxRequests`, `MaxActs`,
  `MaxHour`, `MaxOffers`, `MaxPredictions`, `MaxMoves`. `Offers` gives each
  environment the predictions that reach its gates; two calls are enough for a
  cached snapshot, a repeated card or a doubled entry. `OneLoses` lets one of the two
  symbols lose; the cache it is read from is filled by dispatches of both.
* `Background`: `Rows`, `Bars` and `HistoryCap`, `Samples`, `MaxHour`, `MarketTime`,
  `NewsTime`. Five ticks with a window of four let a waiter wake after a header sync,
  six let an article outlive its retention. `MaxPolled` of one with two symbols lets the
  cap cut one. The baseline cohort of the fleet is empty in the run. `MCInit` restricts
  initial states only; `MCNext` lets a listing change to one other value and only the
  traded symbol's book collapse.
* The desk: `HealerTime`, `MaxBuys`, `MaxSales`, `MaxMonth`, `LastBar`, `JournalCap`,
  `AccountTime` and the set `Requests`. Three ticks with a grace of one and a
  reminder of two let a drop be told, repeated and reminded of; three purchases of
  two assets and two sales split a lot and finish it; four bars behind the warm-up
  hold two trades, one of which the bars cut short. `Bounded` keeps apart what cannot
  meet in the code: the healer's detectors share no memory and have it one at a
  time; a start finds anything wrong, the next one the same or nothing; months pass
  over two equal purchases or none; users are admitted and changed before anyone is
  viewed, except that one may change while it is being chosen; attempts at codes
  touch no user. `DeskInit` picks the initial states of these cases. The theorems
  of section 5 are of `Spec`, without any of this.
* `Signals`: `MaxLegs`, `MaxBars`. Seven legs are what the longest formation reads.

## 4. Fairness

* `TradeLifecycle!FairSpec`: weak fairness of `Advance(t)` for each begun
  placement, of `Grow(t)`, and of `ExitMonitor`. The event loop resumes a
  coroutine whose await returned; HTTP calls (`httpx` timeout) and statements
  return or raise; time passes; the monitor's loop catches every exception of a
  tick and sleeps 30 s. Nothing is assumed of new signals, of the liquidation
  monitor, of the market or of the operator. Faults are bounded, so the assumption
  behind the liveness runs is that Binance and Postgres do not fail for ever.
* `TelegramApproval!FairSpec`: weak fairness of the poller's loop as a whole,
  which catches every exception of an iteration; of the end of a dispatch; and of
  the timeout. None of the operator.
* `AuditChain!FairSpec`: weak fairness of the statements of a transaction that
  has the lock. `Commit` competes with `ReadLast` for another row, but the
  callers insert finitely many rows, here at most `MaxRows`, so weak fairness is
  enough. `Acquire` is disabled whenever another writer has the lock, so it needs
  strong fairness, which Postgres provides: waiters of a heavyweight lock queue.
* `Background!Fairness` is weak throughout, of what the event loop or the clock
  does: a worker's next heartbeat, the delivery of a cancellation, the ageing of
  the heartbeat of a worker that does not run, the watchdog's loop; the statements
  of a validation pass that do not fail, its record, and the time at which a row
  falls due; the arrival of candles and the handling of one that waits; the
  fleet's cycle and its two reconcilers; the polling child. No fairness is assumed
  of a fault, of an operator, or of a restart of the process.
* `Control`, `Signals` and the machines of the desk state safety only and need none.

## 5. Proofs

TLAPS checks what follows for every value of the constants, from named assumptions.
Each listed theorem states a property of a run, except `NoTapForgotten`,
`HarmonicsNeverFire` and `PriceTwinsCallTheOtherWay`, which say more than a run can.

| Theorem | Statement | Rests on |
|---|---|---|
| **`TradeLifecycleProofs`** | | |
| `TypeCorrect` | `Spec => []TypeOK` | inductive by itself |
| `AlwaysCoherent` | `Spec => []Coherent` | `TypeOK` |
| `RowBeforeEntry`, `NoSilentNaked`, `ArmedStayOpen` | `Spec => []EntryHasRow`, ... | conjuncts of `Coherent` |
| `ExitsRecordedOnce` | `Spec => ExitRecordedOnce` | `TypeOK`, `LockedIsNotExited` |
| `LedgerImplemented` | `Spec => ImplementsLedger` | `TypeOK`, `Coherent` |
| **`TelegramApprovalProofs`** | | |
| `TypeCorrect`, `LatchHolds` | `Spec => []TypeOK`, `[]ApprovalLatch` | inductive by themselves |
| `OneOrderPerCard`, `ClosedStayClosed` | `Spec => []AtMostOneOrder`, `ClosedCardsStayClosed` | `ApprovalLatch` |
| `NoTapForgotten` | what Telegram drops was routed | `TypeOK`, `ForgottenWereRouted` |
| **`AuditChainProofs`** | | |
| `TypeCorrect`, `AlwaysLinked`, `NoFalseAlarm` | `Spec => []TypeOK`, `[]ChainLinked`, `[]AlarmsAreReal` | `IInv` |
| **`ControlProofs`** | | |
| `CountersHonest` | `Spec => []NeverOvercounts` | `CountsInv` |
| `BrainsVouchedFor` | `Spec => []ApprovedOnly` | `BrainsInv` |
| `ModesEarned` | `Spec => []Authorised` | `ModesInv` |
| `PauseTakesEffect` | `Spec => []PauseHonest` | `PauseInv` |
| **`DecisionProofs`** | | |
| `DispatchKeepsPromises` | `Spec => []DispatchHonest` | `DispatchInv` |
| `PredictionKept` | `Spec => []PredictionHonest` | `ScoreInv` |
| `ControlTyped` | `Spec => []TypesOK` | the six invariants |
| **`BackgroundProofs`** | | |
| `OneTaskEach`, `WarningsHealed` | `Spec => []OneInstance`, `WarningMeansHealed` | `WorkersInv` |
| `SevereIsRecorded` | `Spec => HeldSevereRecorded` | `FleetInv` |
| `FeedIsHonest` | `Spec => []FeedHonest` | `FeedInv`, `FleetInv` |
| `PaperIsHonest` | `Spec => PaperHonest` | `PaperInv` |
| `MarketStaysHonest` | `Spec => []MarketHonest` | `MarketInv`, `NewsInv` |
| **`DeskProofs`** | | |
| `DeskStaysHonest` | `Spec => []DeskHonest` | `BootInv`, `StudiesInv`, `WalkInv`, `TaxInv`, `UsersInv` |
| `AlarmsAreRaised` | `Spec => []AlarmsRaised` | `QueueInv`, `PaperInv`, `HealerInv`, `BootInv` |
| `TypesStayOK` | `Spec => []TypesOK` | the thirteen invariants |
| **`SignalsProofs`** | | |
| `HarmonicsNeverFire` | no harmonic detector fires, on any history with any swings | `CleansAlternate` |
| `HarmonicsAreSilent` | `Spec => []HarmonicsStaySilent` | the same |
| `PriceTwinsCallTheOtherWay` | 29 formations are called the other way on a history upside down, for all histories of 201 bars of whole numbers | `MirrorIsOpposite`, `TwinCalls` |
| `PriceTwinsMirrorEachOther` | `Spec => []PriceTwinsMirror` | the same, `HistoryOK` |

With these, every safety property that a passing run checks has its theorem, but
two of `Signals` (below).

**Assumptions.** `TradeConstants`, `ApprovalConstants` and `ChainConstants` say that
functions have their types and the "nothing" values are none of the others.
`BoundsAssumption`, `BackgroundFaultsAssumption` and `DeskFaultsAssumption` say that
bounds are natural numbers. The rest say what the configuration guarantees:
`CacheAssumption` a positive lifetime, `WindowAssumption` that fully automatic trading
is judged on the longer window, `QueueAssumption` finitely many rows and at least one
attempt, `PaperAssumption` a target beyond the entry, `FeedAssumption`,
`MarketAssumption` and `NewsAssumption` positive lifetimes and article times within the
run, `RegistryAssumption` that supervised workers are registered, `HealerAssumption`
positive intervals (a stall is confirmed by at least one look) and that the columns the
sweep follows are among what it may complain of, `StudyAssumption` finitely many
requests, `PayoffAssumption` that a trade is followed over at least one bar and earns a
whole number, `TaxAssumption` positive rates and a tolerance that is a natural number,
`AccountsAssumption` that the first administrator exists and at least one attempt is
allowed. Two speak of inputs: `OffersAssumption` is what `build_proposal` lets through
(a stop between the tick and the entry, or between the entry and twice the entry),
`PredictionAssumption` that votes and fires have their shape and a policy chooses among
five actions. TLC evaluates all of them in the runs.

### The inductive invariants, and why they are needed

**Coherent.** None of the three safety properties is inductive. `NoSilentNakedPosition`
speaks of placements that returned; to know that `RecordOpen` leaves a protected entry
one must know that `commit` is reached only with both orders resting, so
`ArmedOneByOne`; to know that `RecordFailure` with reason `binance` leaves nothing held
but behind a 5xx, that nothing else is held at `reject`, so `FlatUntilEntry`; and
`MaskedIsFailed` says that the row of a masked attempt is failed, or its coroutine on
the way to a failure, an escape or its end. An emergency close of one attempt removes
the protective orders of all attempts on the symbol, but also their entries, which is
why these are stated for `t \in held`. `ArmedRowsStayOpen` survives the reconciler
because its UPDATE is guarded by `pending`, and survives late failure writes because
`ArmedIsFinal`. `ExitRecordedOnce` needs `LockedIsNotExited`: what the exit monitor has
buffered for a row is about a row without an exit, because the liquidation monitor waits
for its lock. The refinement needs `RowAfterInsert` and `NothingBeforeInsert` to map
`Begin`, `Insert` and the outcome writes, and `MonitorsHoldResolved` to map exits.

**The audit chain's `IInv`.** A session past `Acquire` is its table's one holder;
only the holder has drawn rows; the visible rows form a chain whose newest is the
one with the greatest id; the hash a session has read is still the newest while it
has the lock. `Drawing` counts the ids still to be drawn, so `Room` is what keeps
every id within `MaxRows`. The newest row of a finite set comes from
`FiniteSetTheorems`.

**Telegram.** `ForgottenWereRouted` ties `confirmed`, which survives a crash, to
`offset`, which does not: what was confirmed was asked for beyond, hence routed.

**Control.** `CountsInv` orders watermark, copy and counter, and bounds what is in the
row, staged and still to flush by what happened plus the watermark: a rolled back flush
then can only lose. `BrainsInv` says that a checkpoint is approved before it is swapped
in and that at most one is active. `ModesInv` says that the mode, and every mode a
request or the daily task has read or is about to write, is one the trade history earned
(`Earned`), which it stays when days are added (`EarnedStays`); that a target a call
carries past its check was allowed by the gates it read is `UserGatesEarned` and
`NextTargetEarned`. `PauseInv` relates a cached value and a read still under way to the
last time the flag had that value.

**Dispatch.** `FlowInv` says of each feed's dispatch where it is: past the symbol
gate with an aborted session, or on its way to place, a second entry is paid for by
a fault. (Where the borrow veto is switched on, its own failing query aborts
every short's session, and the promise is not made; see section 6.) `DataInv` is
about the cards, the log and the cached snapshot: a symbol that was losing when the
cache was filled, and ever since, is in it. That the stop comes before
liquidation is arithmetic on sizes and leverage for any price, tick and stop.

**Prediction.** `LaneSound` says of a lane, by the stage it reached, what its
recorded fields agree with: `ScoredSound` after scoring, `AskedSound` once the
brain answered, `ClosedSound` at the end. That neither traps nor brain turn a
direction is arithmetic on the final score (`FinalFollows`).

**Background.** One invariant per machine: `WorkersInv` (before a shutdown no task is
left behind by a restart: the wait for it ends only when it does, or when a second
cancel reaches the one who waits; and what is reported as restarted is a supervised
worker with a task), `QueueInv` (a row still waiting has attempts left; a batch never
exceeds its limit, by counting; an onset has its streak), `FleetInv` (cohorts follow
listings), `FeedInv` in three parts (types, what the child has in hand, counts),
`PaperInv` in six (types, books, watch, cooldown, track, filed), `MarketInv` in four
(types, books, fetches, cache), `NewsInv` in three (types, pulled, kept); those of the
desk are below. A lemma named `...Hold` says that the machine's invariant holds if its
part moves, and what `Init` gave if not.

**Healer.** The alarms are promises about what was *said*, paged or lost, so
`HealerInv` ties each memory that silences the healer to a page: a known type to a
novelty (`NovelIsPaged`), an entry of `dropped` to the drop it reminds of
(`HealerDrops`), a key of the new baseline to a complaint of this sweep
(`BaselineWasTold`). `HealerStalls` counts: the streak is the number of looks of this
process, each at a tick of its own, which is why a restart must clear both.
`HealerNovel` is the other half of "once": before the first failure whatever was paged
as new is known.

**Start.** `OrdersAreGuarded` is not inductive: that keys and guards appear together
in a process whose checks passed needs `BootAsFar`, which says of each point of the
start what has been checked, rung and written by then, and of a process that goes on
without keys why.

**Studies.** `StudiesRows` says that ids are drawn in order, one a request, and that
nobody reads back before it has inserted; with it the three promises are inductive
together. `RunningIsWorkedOn` has to allow `given[q] > own[q]`: two overlapping
requests of one user leave the older row to nobody.

**Backtester.** `WalkTrades` says that the scan stays behind the last exit.
`WalkCurve` says that the peak bounds the curve, as long as equity lasts, and that no
fall is worse than the one kept. That the fall from the peak is the worst one is
an inequality of fractions (`FallFromPeak`); `FractionsAlong` chains two of them by
`Times` and `Untimes`, multiplying and cancelling a positive factor, which the provers
do not find by themselves.

**Tax.** `InOrder` says what a queue is: what is left of its asset's purchases, in
their order, of which only the first may be partly sold, and older than which all is
sold within the tolerance. First in, first out follows. That a sale the matcher
accepted is covered (`TaxCovers`) needs the sum over a queue, a recursive function:
`TotalOfNone` and `TotalOfRest` unfold it once and for all. `TaxRates` says that a
rate is of a bucket not after the one that is asked for, which makes the stale rate
the newest before the event; `AprilBegins` that a tax year is twelve months.

**Accounts.** `UsersViews` says that a view, and one that a request has read, was
started; `UsersTries` that the hits dropped from the bucket are too old to count and
the rest are within the limit, from which no span holds more than `MaxHits`.

**Harmonics.** `CleansAlternate` says that what the search for swings keeps
alternates between peaks and valleys, whatever it was given;
`FiveEndAsTheyBegin` that the first and last of five alternating pivots are of
one kind; the four detectors ask for two.

**Twins.** `Opposite` relates two histories of which one is the other upside down;
`MirrorIsOpposite` says that the run's mirror image is one, mean true range included.
What the detectors compute turns with the history, one lemma each: extremes change
places (`ExtremesOver`), sums and the division that rounds towards zero change sign
(`TotalTurns`, `QuotTurns`), so do the slope of a fitted line, its residuals and the
curvature of a parabola (`SlopeTurns`, `ResidualsTurn`, `ParabolaTurns`), variances
stay (`VarianceTurns`). From these follow the twins, a lemma for each group, and
`TwinCalls` for the registry. `Opposite` is symmetric, so one direction is enough.
That the histories of the run are of whole numbers is the invariant `HistoryOK`.

**Recursive functions.** Sums, running extremes and the cleaning of pivots are
recursive functions. Their unfolding, and each property by induction, is proved by
the least natural number that would be a counterexample (`LeastNat`), and the
minimum of a finite set by the well-founded order on its subsets
(`MinimalOfFinite`).

### Only model-checked

* **Liveness** (`PendingResolved`, `ExitDetected`, `EveryCardDecided`, `EveryTapRouted`,
  `WritersFinish`, `Healed`, `NothingWaitsForever`) and anything that speaks of
  `ENABLED`: TLAPS does not do liveness under fairness.
* **`NoSideFavoured`**: the other 30 formations (`TwinsMirror`), and the layers, traps
  and indicators (`SidesScoredAlike`). It holds for the histories drawn and within a
  tolerance of the rounding, not for every history: a price near a threshold given
  in per cent of itself calls one side only, a breakout that meets its threshold
  exactly counts for one side, and a bar that is a peak and a trough at once is
  taken for a peak first. A theorem would need assumptions on the history that the
  code does not make. Of the few rows without such a threshold (wedges, three
  drives, the confluence of averages) the mirror was not proved: it needs that the
  swings found are in order of time, so that no slope divides by zero.

## 6. Where code and documentation disagree

Five have a run that ends in the counterexample, and an entry under `findings`.

1. **`EscapedPlacement`.** `atomic_placement.py:22-24` promises that all orders
   succeed or the position is closed. A timeout of any order call escapes
   `place_with_sltp`, entry executed, no stop. The reconciler later sets the row
   to `open`, without order ids.
2. **`ExitLeavesOpen`.** `payload_builders.py:259-261` says the exit monitor moves
   a row to `closed`. Nothing in the running program does (only
   `tools/round_trip_test_trade.py:263`, for its own test trade): an exited row stays
   `open`, keeps its symbol blocked at the gate and its place in the open count.
3. **`GhostReconciled`.** `telegram_polling.py:570-571` leaves a ghost to the
   reconciler, which reads only `pending` rows.
4. **`OneEntryPerSymbol`.** The gate of `symbol_position_gate.py` looks at `open`
   rows; a placement on its way is `pending` and invisible.
5. **`HonestRows`.** `entry_price` is hashed at INSERT and updated in Phase 3, so
   the verifier reports every placed live trade whose fill price is not the price
   it was inserted with.

What follows was met while modelling. The models do it the way the code does.

**Live trades.** `exchanges/binance_live.py:26` says that a 5xx bubbles up to the caller, and
the docstring of `OrderRejected` that it is a 4xx; `:253`, `:408` and `:479` raise it
for every status from 400 up. Behind a 5xx the order may have been executed, so
`atomic_placement.py:26` ("if fails, no position, raise") may leave a position: the
row is `failed`, no order rests, nobody is told. The model records such attempts in
`masked`, and `NoSilentNakedPosition` and `Coherent` leave out these and no others.
`_close_live_trade_and_cooldown` ("single atomic close") guards its
UPDATE but not its UPSERT: when the liquidation monitor was first, the cooldown is
overwritten and the row is not, against `docs/ARCHITECTURE.md:523-525`.
`max_concurrent_positions` is compared with a count taken before the placement
begins, of `open` rows only, and not at all on approvals. A skip overwrites
`approved` (`telegram/trade_signals.py:184`). An approve that arrives after the
timeout but before the next auto-skip is honoured. A tap before the dispatcher's
commit is answered as already resolved.

**Audit.** An error in one table's walk leaves the round's transaction aborted, and
later tables are not checked, although the round is documented to continue.
`trading/preflight.py` says that a failing check keeps live trading from starting,
and the verifier's alert that writes are blocked until the chain is healed; a broken
chain is reported, the vault loads, and orders are placed.

**Dispatch.** Of the kill switches the dispatcher evaluates the funding rate only
(`dispatcher.py:456`), although its docstring (`:30`) says all of them apply;
`blocked_killswitch` is never produced. The symbol gate fails open before the card
because the approval asks again; hybrid and automatic entries take the same path
and nobody asks again. A failed statement aborts the transaction, so the statements
behind it fail open too; the borrow veto selects a column that does not exist and
so disables the gates of every short where it is switched on. The regime is fetched
a second time for the log. `mode_at_open` records the mode of an object read
earlier. A card is posted before its deduplication row is committed. A Kelly
fraction of 0 still sends a card, with margin 0. The percentage sizing of a
placeholder never reaches the minimum notional.

**Predictions.** The SHORT penalty and the tier bonus of the docstrings
(`core/scoring/aggregator.py`) are not what is computed. `direction_calibration` is
never passed. The pattern-statistics cache is never invalidated, and its cold-start
threshold switches the accuracies off. The embeddings of the first checkpoint
stay in use after a hot swap (`rl/predictor_glue.py`), and `n_trades_for_asset` is
always 0. The smoothing history is kept by symbol, so timeframes share it. Live
lanes write `BTC/USDT` and never find snapshots stored under `BTCUSDT`. A failed
query of layer 9 aborts the session. A refit of `p_win` truncates the good file
before it writes the new one.

**Patterns.** The harmonic detectors ask for a first and a last pivot of one kind
*and* of two kinds apart and never fire; `HarmonicsNeverFire` proves it. Swing
prominences of 0.5 and 0.01 (0.3 for smart-money swings) are absolute prices. Some
bars are called for both sides. The RSI of a market that does not move is 100, and
layer 3 calls it LONG with strength 0. Layer 2 grows more confident with opposing
fires. Break of structure counts upward, change of character and sweep downward,
when both hold. Traps whose inputs are always `None` never fire.

**Supervision.** The error streak is not cleared at the threshold, as its comment says.
The wait of a restart is documented to be "bounded by `_CANCEL_TIMEOUT_SECONDS`", and
the warning to be followed by "spawning replacement anyway"
(`ops/worker_supervisor.py:107,126`). `asyncio.wait_for` of Python 3.11 cancels the old
task when the time is up and then waits for it without a limit: a task that hangs in its
clean-up keeps the watchdog, and every other worker, waiting. The `except
CancelledError` that is meant for the old task also swallows a cancel of the watchdog
itself; during that second wait, which only a shutdown can interrupt, the replacement is
started beside the old task. `cancel_all` is "called from the lifespan finally", and has
no caller.

**Control.** `set_paused` is documented as atomic with its audit row; it writes four
keys and then the row. A rolled-back flush of check events loses what it held,
because the watermark moved. `find_silent_checks` cannot report anything.
`auto_promote.py` promises one step a day: a request that overlaps the daily task
can add one, and a stale write can restore a higher mode. `compute_gates_from_db`
has no upper limit on `closed_at`; `span_days` is the window asked for. A user's
request for fully automatic trading always fails. `evaluate_auto_demote` and
`is_tripped` have no caller. A patch of the threshold alone can disable a switch
again.

**Checkpoints.** `POST` register inserts 0 into a BOOLEAN column. `PATCH` never
loads what it activates. The API takes a missing Sharpe ratio for 0.0, the
registrar for undecidable. A swap is judged against a champion that may have been
superseded since.

**Shadow trading.** A paused worker drops candles, exits included. A lost answer of
the commit at an open leaves a row that blocks the lane until a restart. A stop hit
in a bar whose commit failed is looked at again only in the next bar. `bars_held`
starts again at a restart. A failure of the "best-effort" observation (`worker.py:1227`)
rolls back the open it shares a session with.

**Fleet and feed.** "A symbol that no longer qualifies is retained, not cancelled,
while it still has an open row" (`ws/futures_poll.py:292-295`); the safety valve of
30 symbols (`:457-466`) ranks by liquidity and knows nothing of open rows, so beyond
30 an open symbol may be the one that is not started. Removal is documented to need five
unanimous failures; API errors count as failures. A newcomer whose last sample was
severe has no event. The watermark's docstring (`ws/futures_poll.py:208-214`) says that
an exception in the consumer keeps it back; the consumer's `continue` after a failed
persist (`ws/live_prediction.py:369`) moves it. "At-most-once" does not survive a crash
between persisting and saving. The REST seed contains the candle still forming.

**Market data.** The limiter is not first come, first served. A header forgets
grants still under way and leaves the refill clock alone; a full bucket and its
refill allow twice the capacity in a window. Waiters of the daily bucket all
proceed at midnight without looking again. The refresh loop of the vote cache finds
its entries still valid and fetches nothing.

**News.** The macro interval starts again without a fetch when an iteration spans
its end. A failing crypto fetch skips the macro one. The cursor is the newest
`published_at`, so what appears late is behind it. Of an article in two feeds the
first one's assets are kept.

**Healer.** The freshness detector promises "any universe symbol with no prediction"
and skips pairs without a row. A failed query leaves a stall's streak as it was. A
reminder that was sent is not cleared when the pair is fresh again, so a second drop of
the same pairs within it is not told. A failed look-up of the baseline makes the sweep
a first one, which complains of nothing and replaces the baseline. Keys of the layers
never count as having varied. A failed query of the first section aborts the session,
and the sweep is over for a day. Types are known before they are paged: a crash
in between loses the page for ever.

**Start.** The preflight opens the vault at one fixed path and the key cache the one at
`VAULT_SECRETS_PATH`; when only the second is bad, the gate has passed and nothing
trades, which is only logged. The permissions of the key that trades are then not
the ones that were checked.

**Studies.** The loader of bars raises `NotImplementedError`, so every backtest call
fails and every study ends as failed. A study whose trials all failed is `completed`
with a Sharpe ratio of -1e6 when its optimiser returns. A restart or a failed last
update leaves a row that says `running` for ever.

**Tax.** Nothing calls `record_tax_event` or the matcher; only the export runs, over an
empty table. The profit of a SHORT has the sign of a LONG's. A year begins in April of
the zone `closed_at` carries. A sale whose event cannot be recorded has consumed its
lots in memory.

**Accounts.** Only the check of a code is limited, not the request for a new secret,
which replaces the old one. A target that is promoted goes on being viewed. An
administrator may deactivate itself by PATCH, which DELETE refuses; two may demote
each other. Two first log-ins at once are an error 500. A stop that was slow is
journaled after a newer start. `LockoutTracker` has no caller.

## 7. Abstractions

TradeLifecycle
* All trades belong to the one operator account whose keys the monitors use, and
  entries on one symbol go the same way, so the position is the set of entries.
* `closePosition` orders disappear with the position, as Binance does it. They
  can outlive the attempt that placed them, which `orders` shows.
* `close_position` reads the position and then sends one reduce-only order; both
  are one step. A reduce-only order cannot open a position, so what could happen
  in between only turns a close into a refusal, which is modelled.
* A 4xx means that the order was not executed. A 5xx, which the client reports as the
  same rejection, may hide an execution of the entry, of a protective order or of a
  close; any other exception leaves it open too, and escapes.
* The order in which a monitor visits rows is arbitrary. Its Binance read and its
  later write are separate steps in the reconciler and in the exit pass.
* `stale` stands for two timers, the reconciler's 60 s and the (longer) hold
  timeout, so a timeout exit is allowed a little too early. No property says when
  a timeout may happen.
* The liquidation buffer is a nondeterministic choice: a float computed from the
  leverage and a price.
* The gates that do not read what placements write are in `DispatchGates`; here
  any placement may begin.

TelegramApproval
* `adjust` stands for every update that leaves `response` alone.
* Telegram's 24 h retention and 100 updates per answer are left out.
* There is one poller task, as `main.py` starts it.

AuditChain
* A hash is the sequence of what was hashed: equal hashes mean equal histories.
* `Lossy` marks tables whose hashed columns may not read back as passed: JSONB is
  reformatted, and optional `ghost_*` keys left out of a payload come back as
  NULL. `Rewritten` marks tables with a hashed column that is updated later.
* A statement sees what was committed when it began (READ COMMITTED). The SQLite
  branch without a lock, which only tests use, is left out.
* A transaction writes to one chained table: every caller of `insert_with_chain`
  opens a session for its own rows, so no transaction waits for a second table's
  lock while it has a first.
* The verifier reads each table in one statement. Its schedule, heartbeat and
  pause check are left out.

Control and Background
* The machines of a composition share no state in the models, so only one moves.
* The trading gates judge a window of closed trades; the figures are one verdict per
  day. A checkpoint is its Sharpe ratio or the reason it has none.
* Gates work in hundredths and ticks; a trained policy is any choice of action.
* A worker honours a cancellation at its next await, unless it hangs in its clean-up.
  Work between heartbeats is not modelled.
* `FetchTimeout` bounds a whole request; `httpx` bounds each of its phases.
* Depth and spread of a book are the verdict of a sample. Paper prices are units of
  risk from the entry.
* A kline response is a time and a verdict; an article its source, times and place
  in the store.

The desk
* What a detector of the healer reads is its parameter: any set of exceptions, pairs,
  flags. Which rows make a column suspicious is a query and left out.
* A vault is good, without keys, sealed to this passphrase, or too short to have a
  header; encryption itself is left out.
* The optimiser is a choice of its outcome, a trade's profit a choice of `Payoffs`.
* Quantities are whole numbers with a whole `Tolerance`, where the code has floats and
  1e-9; so the comparisons are kept and the rounding is not.
* Sessions, tokens and the codes themselves are left out; a request of an active user
  has one.

Signals
* Prices are whole numbers around 1000, averages integers with rounding; the
  comparisons of a detector are kept, its confidence and evidence left out.
* `Lopsided` names the detectors whose thresholds are per cent of the price itself
  or which look at peaks only; a mirrored history is not called alike by design.
* Two traps need 366 and 744 bars and are not reached by histories of 201.

## 8. Not modelled

Rows of `components` in `PROJECT.json` with status `not_modelled` give the reason for
each. The scanner scores the symbols of the universe from indicators alone and keeps the
newest score in memory for the dashboard; nothing that trades reads it. The dashboard,
the scripts and the migrations are pages, reports and one-off jobs around what the
modelled parts write.

Those with status `partly` say what is left out: of the Binance client the signing
and the filter cache; of the dispatcher the wording of cards; of champion and
challenger the gates on `ml_checkpoints`; of the pattern library the 61 wrappers of
TA-Lib, which is not in this repository; of the brain its training; of the data
adapters the parsing of each service; of the news the classifier, the extraction of
assets and the parsing of feeds; of the backtester its costs and statistics; of the tax
records the export; of the HTTP API the routes that only read.

## 9. Plan

1. Abstract specifications for the machines of `Background` and `Control`, as
   `LiveTradeLedger` is for `TradeLifecycle`: a limiter that only counts, a
   supervisor with one task or none, a registry with one champion; and the proof
   that each machine implements its own.
2. The rest of `TwinsMirror` that does hold for every history: wedges, three drives
   and the confluence of averages, from what `find_swing_highs` returns.
3. The composition of `TelegramApproval` with `TradeLifecycle`: an approved card is
   one attempt, so at most one entry per card.
4. The scanner's cycle, the external watchdog script, and the end of `main.py`'s
   lifespan task by task.
5. The kill switches that have no caller, the replay buffer, and the open of a paper
   trade that its observation rolls back.
6. The lock orders of the two monitors, for the deadlock hazard.
