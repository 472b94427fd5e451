# A TLA+ model of Dhan-Bot

Dhan-Bot is one asyncio process that trades NIFTY options at the broker Dhan on
signals from Upstox. It keeps its obligations in a SQLite ledger, places IOC
limit orders, reconciles them by reading the broker's books, and is restarted by
systemd whenever it stops. This directory holds TLA+ modules of its core, TLC
runs on small instances, and TLAPS proofs for every instance. Paths below are
relative to the repository; `orders.py` stands for `dhan_cas_bot/orders.py`.

## 1. The system

| Part | State | Operations | Talks to | Hard because |
|---|---|---|---|---|
| Order manager (`orders.py`) | `order_lock`, `reconcile_lock`, `account_revision` | `submit`, `reconcile`, `_rate_attempt`, `confirm_historical_order` | ledger, broker | awaits inside locks; unknown outcomes; reads served at different moments; crash between transactions |
| Ledger (`ledger.py`) | intents, attempts, orders, fills, charges, counters, metadata, lifecycles, settlements | one transaction per record | everyone | order of transactions; late answers |
| Account refresh (`account_refresh.py`) | `revision`, `observed`, `healthy`, seen events | `invalidate`, `order_event`, `refresh`, `run` | order manager, runtime | a snapshot that is stale when used |
| Runtime (`runtime.py`) | status flags | `recover`, `permit_entry`, `arm`, `disarm` | engines | admission is a conjunction of facts of different age |
| Session engine (`engine.py`) | active lifecycle, exit latch, observations | `cycle`, `_enter`, `restore`, `on_*` | order manager, exit manager | inputs change across awaits; restart |
| Directional, shock, seconds engines | plans, consumed signals, latches | `update`, `enter_locked`, `manage_locked` | session engine | latches and restarts |
| Exit manager (`exit_manager.py`, `exits.py`) | none | `reduce` | order manager | two sales of one holding |
| Route qualification (`route.py`, `service.py` 603-670) | `route_probe` metadata, probe counters, echoes, failed epochs | `qualify`, `managed_exit_route`, `rejected_probe_resolved` | order socket, order manager | a proof is bound to one connection; late replies; durable allowance |
| Route recovery (`route_recovery.py`) | incidents | `recover_owned_route` | broker, ledger | releasing an unknown order |
| Transport (`transport.py`), feeds | bounded queue, epoch | `consume`, `run` | service callbacks | frames left over from an old connection |
| Market subscriptions (`market_subscriptions.py`) | wanted and applied contracts, epoch | `sync` | the market socket, books | a change half sent on a socket that is replaced |
| Read scheduler (`read_scheduler.py`) | waiters, worker | `acquire`, `_drain` | broker reads | cancelled waiters; a worker that ends |
| Token cache (`auth.py`), rotation (`service.py` 691-715) | `dhan_token.json`, its lock | `session_token` | all clients | two processes replace one token |
| Upgrade tools (`ops/upgrade-session-strategies.py`, `ops/activate-profit-exit.py`) | configuration, unit, marker, ledger | `main` | systemd, ledger | several files and a restart, one step of which fails |
| Service loop (`service.py`) | the tasks | `serve_session`, `run_service` | all | one loop awaits while others change state |
| Official feed and auction signal (`service.py` 345-459, `engine.py` 63-190, 358-432, `strategy.py`) | status, reference, observations, streaks | `on_status`, `on_iep`, `on_ltp`, `on_book`, `find_opportunity`, `current_inputs` | session engine | two feeds that reconnect; late and repeated frames; an entry behind a lock |
| Minutes (`stream_minutes.py`, `strategy_inputs.py`) | streamed rows, conflicts, cache | `accept`, `fetch`, `refresh` | charts, strategies | a stream and a poll of different age |
| Seconds inputs (`future_input.py`, `seconds_strategies.py`, `seconds_engine.py`) | tape, fits, samples | `future_tick`, `ingest`, `evaluate`, `candidate` | two sockets, directional engine | each socket clears a part; a cached evaluation |
| Sizes and contracts (`risk.py`, `strategy.py`, `directional.py` 105-174, `volatility_shock.py` 182-244) | none | `find_opportunity`, `entry_assessment`, `candidate`, `select_shock_candidate` | engines | costs that jump; quotes that are missing |
| Simulated account (`seconds_paper.py`, `seconds_observer.py`) | rows, their file | `step`, `run` | a socket of its own | kills between two saves |
| Strategy rules and ranking (`expanded_strategies.py`, `session_strategies.py`, `volatility_shock.py`, `strategy_arbiter.py`) | a ranking, kept for five seconds | `evaluate`, `evaluate_completed_shock`, `scores`, `select_executable`, `compare_auction` | inputs, engines | gaps, mirror images, samples that keep arriving |
| Optional sources (`strategy_features.py`, `strategy_inputs.py` 159-410) | cache, retry times, the collection under way, option minutes | `refresh`, `auxiliary`, `available_features`, `wanted_options` | Upstox, charts | a background task that hangs beside the evaluations |
| Recording (`replay_journal.py`, `service.py`) | two queues, `health`, `recorder_failed` | `capture`, the workers | files, ledger | a bounded queue written by another thread |
| Incidents and memory (`dashboard/operations.py`, `dashboard/learning.py`, `ops/incident-repair.py`) | files of their own | `advance_incidents`, `archive_reviews`, `choose_incidents` | each other's files | kills, stale and unreadable files |
| Activation (`ops/activate-live.py`, `release.py`, `session_refresh.py`, `cli.py`) | mandate, configuration, marker, unit, ledger | `main` of each | systemd, the service | five programs change the same files |
| Parsing, dashboards, research | - | - | - | read-only or offline |

What makes the core correct: a sale never exceeds what is held, whatever is in
flight; an order whose outcome is unknown keeps its reservation; a fill is
counted once and never lost; what looks fresh is true; a proof of the order route
belongs to the connection that is up; probe allowances are durable; a signal is
entered once, on time and on what is still so; a latched exit is offered until it is sold; books come
from the connection that is up; entries leave exits their place in the rate
windows; a repair or an upgrade that is interrupted does nothing twice and leaves
nothing half done.

`PROJECT.json` lists every component, the hazards with the properties that would
catch them, and the source lines of every definition.

## 2. Modules

| Module | What it is |
|---|---|
| `Oms` | `OrderManager.submit` and `reconcile`, the ledger rows they write, the refresh loop, the broker |
| `Exposure` | what `Oms` promises of a security: sale lots are put at the exchange's disposal only while bought lots cover them |
| `MCOms` | instances of `Oms` |
| `OmsProofs`, `RouteProofs`, `DirectionalProofs` | proofs about the module they are named after |
| `SessionProofs` | proofs about `Signal`, `Inputs` and `Seconds`, as `MCSession` composes them, and about `Lifecycle` |
| `OperationsProofs` | proofs about `Incidents`, `Sizing` and `Candidates`, as `MCOperations` composes them |
| `RecordsProofs` | proofs about `Recorder` and `Memory`, likewise |
| `ServicesProofs` | proofs about the parts of `MCServices` |
| `Sums` | lemmas about sums over finite sets and least elements, for the other proof modules |
| `Route` | the qualification of the order route in the main loop |
| `MCRoute` | instances of `Route` |
| `Lifecycle` | the life of a CAS position in the session engine: entry, exit latch, final value, settlement, closing, allocation of capital |
| `MCLifecycle` | an instance of `Lifecycle` for liveness |
| `Signal` | the official feed, the reference, the streaks, and the entry that waits for the order lock |
| `Inputs` | the completed minutes: stream, charts, cache, evaluation |
| `Seconds` | the tape of the seconds strategies, its two sockets, and an entry across `funds()` and the lock |
| `MCSession` | `Lifecycle`, `Signal`, `Inputs` and `Seconds`, one at a time, in one instance: they share no state |
| `Rules` | what the minute strategies say of a day |
| `Features` | the calendar, the options and the optional sources they are told of |
| `Arbiter` | which of several signals gets the position |
| `Sizing` | fees, and how much is bought at which limit |
| `Candidates` | which contract a minute signal and a shock buy |
| `Recorder` | the journal and the observations of what was received |
| `Incidents` | what is wrong with the trader, and the agents that are called |
| `Memory` | what is remembered of past days |
| `MCOperations` | `Oms` and these eight, one at a time, in one instance |
| `Directional` | the owner of directional, seconds and shock positions: evaluations, entry, ratchet, exit, closing |
| `MCDirectional` | instances of `Directional` |
| `Feed` | the market feed: runner, queue, handler of frames, subscriptions |
| `Recovery` | the repair of a probe of unknown outcome, with the trader that is stopped for it |
| `Rates` | the rate windows and the places kept for exits |
| `Tokens` | the shared broker session and its rotation |
| `Reads` | the read scheduler |
| `Deploy` | the two tools that upgrade the service |
| `Paper` | the simulated account of a seconds strategy and the process that saves it |
| `Activation` | how the service gets to send orders: verification, activation, refresh, enable, disarm |
| `MCServices` | the last eight, one at a time, in one instance: they share no state |

### Oms

One security, one day. An intent's quantity is a set of lots, so `traded`,
`fills` and reservations are sets and "how much" is a cardinality.

The process is one asyncio loop, so the code between two awaits is one action:
`submit` is `SubmitBuy`, or `SubmitSell` - `ServePositions` -
`SellDispatch`/`SellRefused`, and then `SubmitAck` or `SubmitUnknown`;
`reconcile` is `RecStart`, `ServeOrders` and `ServeTrades` in either order (the
GETs are concurrent; the broker serves each at one moment), `Gather`,
`ServeLookup` for each order the book does not list, and `RecApply` or
`RecChanged`. `order_lock` is "`sub` is idle"; `reconcile_lock` is that there is
one `rec`. `account_revision` is only ever compared for equality, and is kept as
the two facts that matter: `rec.stale`, and `account = "stale"`.

The ledger is `led` (intents.state), `saved` (orders.state), `fills`, and `born`
(`ORDER BY created_at`). A crash loses `sub`, `rec` and `account`. Since every
ledger call is a transaction of its own, a crash can also fall between two of
them: `CrashAfterCreate`, `CrashAfterAccepted`, `CrashInApply`. The crash between
STARTED and the POST is a POST that is lost (`Discard`).

The broker is external. A POST may be lost, refused, or arrive after the client
has given up. `RowsLag` lets the order book serve any earlier row of an order,
except that an order seen ended stays listed: `reconcile` falls back to the saved
terminal row (`orders.py` 189-190). `ReportsFilled` says whether order rows carry
`filledQty`. Trades and positions are assumed current when served.

Not in `Oms`: several securities, the day roll and historical receipts,
`RECOVERY_CLOSED`, prices and fees, identity mismatches that raise. A rate window
is a refusal that may happen at any time (`RateAbort`). `order_by_correlation` is
taken to exist, as it does in `broker.py`.

### Route

The main loop decides at the head of an iteration: sell a filled probe
(`SellStart`), else set `verified` (`Verify`), else start `qualify`
(`QualifyStart`), and then the engine buys, sells or closes (`Enter`,
`SellStart`, `CloseLifecycle`). `job` is what the loop awaits, with the values it
captured before the await: the epoch and the counters. `conn.n` numbers the
connections over all processes; `echoed`, `seen`, `verified`, `failed` are
memory, the rest is durable. After a disconnect (`"draining"`) queued frames are
still processed.

`Reconcile` is a whole reconciliation in one step: it knows every order that
ended. `Oms` is the justification: a closed intent is settled
(`ClosedIsSettled`), and a fresh snapshot with nothing pending is true
(`ClearIsTrue`).

`open` is the conjunction of window, calendar, arming, clock and verified
software; it may end once. The choice of the contract, the debit cap of the whole
mandate and the two-second cooldown are left out; a probe is filled wholly or not
at all (it is one lot); the entry of a strategy is one step; there is one managed
position.

### Lifecycle

`SessionEngine.cycle` and `_enter` for CAS positions. The engine lock makes the
cycle one sequence; `cyc` is the await it is in (`ledger_report`, `funds` before a
settlement is recorded, `funds` before closing, `funds` before an entry) with what
it captured. The branches of `cycle` are `SettleStart`, `CloseStart`,
`SellSlice`, `Exit` and `EntryStart`; whether prices ask for an exit, a slice or
an entry is a choice, the reasons that do not depend on prices are `MustExit`.
After the awaits come `SettleMatched`/`SettleUnmatched`, `SettleRecord`, `Close`,
`Enter`/`EntryDropped`; any of them may fail instead (`CycleFails`: the main loop
catches the exception and invalidates the account).

The ledger side is `state bankroll bought gone debit credit fees posted` per
lifecycle (`lifecycle_totals` is `Held`, `Spent`, `Loss`, `Reserved`), `exit`
(the reason kept in `peaks:`), `debits` (`depth_debits`), `final` and `disarmed`.
`latched` is `exit_reason`; `up`, `market`, `books` are the feeds; `clock` is the
phase. `hold`, `flow` and `receipt` are what the broker knows, and the properties
compare the two sides.

An order is placed, ends and is resolved in three steps (`Enter`/`Exit`, `End`,
`Refresh`); `Oms` is what lies behind them. A lost order stays pending for ever,
as the code has it. One price: a lot reserves `Price` and costs one of `Costs`, so
fees are part of the lot's cost, and charges reported later are `LateCharge`.
`Match` compares the lots of a receipt only: that its amount must fit the final value
(`settlement_cash.py` 11-14, 31) is left out, and no property rests on it.
`timeexit` starts at 15:38:30; the half minute to 15:39, in which there is neither
an entry nor a time exit, is counted to it.

Not in `Lifecycle`: the auction observations (module `Signal`), several contracts, the route probe's
debit, the scope "session" of the cap, `status.state`. The latter only repeats
what the model has: `RECOVERING` is set with a stale snapshot and cleared by the
next refresh, `SETTLEMENT_PENDING` admits the additions of the final-value branch.

Two things the model made plain. The final-value branch (`engine.py` 292-300)
looks at `exit_reason` only: after a restart a position whose exit is in `peaks:`
may be held for settlement, or enlarged, once the final value is known;
`NotEnlarged` says so. And `FINAL_VALUE_REVISED` is kept in memory until the
next cycle writes it; a crash in between forgets the exit but not the disarming.

### Directional

`directional.py` with its adapters `shock_engine.py` and `seconds_engine.py`. The
input worker evaluates at any time (`UpdateMinute`, `TapeSignals`, `ShockBar`);
the main loop enters (`EnterStart`/`EnterShockStart`, then `Enter`,
`EntryConflict` or `EntryDropped` behind `funds()`), manages (`Manage`,
`ManageShock`) and closes (`CloseStart`, `Close`). A key is what
`directional-signal:` names, a family what `family_key` returns; `Window` is when
an entry on an evaluation may be posted. The ledger side is `recorded consumed
families bar life exit guard reboundExited lastClosed`; `signals`, `samples` and
`sample` are memory. `CrashInEnter`, `CrashInClose` and `CrashInManage` fall between
two transactions of one handler. Time is in ticks of half a minute.

`first dropped best breached closedAt` are history: they are read by properties
only, so that "late", "dropped" and "seen below the floor" do not depend on what
the code remembers.

Which strategy signals, prices, the choice of the contract, the auction
comparison and the seconds tape are choices of this module (`Candidates` and
`Seconds` have two of them); one contract, one day.
An expired position that the broker has cleared stays open in `RECOVERING`: the
mismatch is tested first (`directional.py` 334) and there is no settlement.
`PositionsEnd` therefore ends at expiry for an exit.

A pass reads the clock before the seconds strategies are evaluated
(`directional.py` 222), so a signal of this pass is not due before the next one,
within a quarter of a second; with ticks of half a minute the module does not see
it.

One thing the model made plain. `ShockEngine.invalidate` consumes the episode it
holds in memory; after a restart it holds none, so a feed that drops then does not
consume the episode the ledger still has. `ReconnectConsumes` speaks of episodes
that were held.

### Signal

`signal` counts the connections of the official feed and `snapshot` is
`UpstoxFeedClient.snapshot_epoch`: the first index of a connection is the
provider's, of any age, and is no observation. `heard` is what a reference may be
made of, `reference` what it became and `frozen` the row `references_frozen`;
`streaks` are the observations under which a contract lags. `Decide` is `_enter` as
it resumes from `funds()`, and `Leave` the moment under `order_lock` at which
`current_inputs` is asked. `fresh` is history, kept by an observer who only sees
the feeds (`Note`): what was heard since the contract last did not lag. A restart
loses all but `frozen`. Within `MCSession` one instance runs the auction from a
reference, the other one makes the reference.

### Inputs

A minute is named by the moment it is complete; the clock counts minutes. `OnStream`
is `CompletedIndexMinutes.accept`, `FromStream` the merge of its rows into the
cache, `Ask`, `Serve` and `Receive` a chart request that may be answered late,
without a minute, or with the one still forming; a failed one asks for all again.
`versions` and `holes` are history: what the feed sent and what the charts left
out.

Two things the model made plain. A minute that is sent with two values is dropped
from the stream, but the first value may have been taken into the cache before the
second one came, and stays. And a hole that the charts left is asked for again only
while the overlap reaches it, that is for two minutes, or when a request failed:
`NoHoleOfOurOwn` excepts the holes the charts had when they were last asked.

### Seconds

Every row, quote and fit carries the two connections it was observed on (`from`),
which the code does not keep: it is what the property compares. `MarketConnect`,
`MarketDisconnect`, `FutureConnect` and `FutureDisconnect` clear what the four
handlers clear, which differs. `Evaluate` is `SecondsTape.evaluate`; `refreshed` is
its cache of a quarter of a second. An entry is `Choose`, `Candidate` behind
`funds()` and `Dispatch` under the lock, and evaluates anew each time. What a rule
computes is a choice (`Emit`), and what it rests on is one of the contract's `Grounds`:
its response to the future (`"beta"`), its place on the curve (`"curve"`), both fitted and
kept for five seconds, or the flow of its quotes, which needs no fit. The response is
asked for whenever the contract is quoted; so is the curve of a contract in `Between`,
whose two neighbours are taken to be quoted whenever it is. The calendar is known, and
the exits are those of `Directional`.

`FutureInput.receive` lets an identical frame renew the freshness of the futures,
deliberately, while `docs/SECONDS-STRATEGIES-2026-10-15.md` says that repeated
frames cannot; the model follows the code.

### Sizing and Candidates

Their states are inputs, and their one step is the decision. `Sizing` has the fee
schedule with its rounding, once for every child order, the sizes `find_opportunity`
tries, its final-value sibling, and the price ceiling of `entry_assessment`.
`SizedWithinMeans` asks of the bisections that they miss nothing, which is not plain
since the cost is no smooth function of the size. That the sizes tried contain the
best of all is not claimed: `docs/BUILD-DEPLOY-PLAN.md` 91 calls them a heuristic.
The loop of a bisection is unrolled: `Halve` is a turn of it, which changes nothing once
the loop would have ended.

In `Candidates` contracts are numbered from the money outwards; no volume stands for
too little of it or of open interest, and no ask for a book that is missing, stale,
crossed or too wide (and, for a shock, for a contract about to expire or without
volatility). The fees are a brokerage and a part of the turnover. The value of a
shock scenario is an input.

### Paper

`row` is the row of one strategy in `PaperLab.rows`, `disk` the file. `Step` is
`PaperLab.step`, which has no await: `AwaitQuote`, `Buy`, `Sell`, `Watch` and
`Signal` are its branches. `Save` is the save of every two seconds, `Stop` the
`finally` of `run` and `Kill` what skips it. One contract and one unit; whether the
profit guard or the future asks for an exit is a choice.

### Feed

`conn` is where `WebSocketRunner.run` is, `link` the socket, `wire` what the
library buffers, `queue` the bounded queue of `consume`. `Notice` is the `finally`
of `receive`: the books and the epoch go at once. Behind it a socket closed in
order drains its queue, one that ended with an error cancels it. `Handle` and
`HandleBad` are `record_dhan` for a frame with one book; `sync` is what
`MarketSubscriptions.sync` awaits, one contract per message. What the selectors
want is a choice (`Wish`), so is what the broker sends.

Two things the model made plain. The notice waits for the frames that the library
has already buffered, while the queue is full: the comment at `transport.py` 106
is about the queue only. And `last_packets` keeps a contract that was retired, so
one that is wanted again on the same connection has no book until its packet
changes (`service.py` 443); nothing is claimed of that.

### Recovery

One probe whose POST was answered by an HTTP error. `tool.at` is where
`recover-unknown-route.py` is between the dry run (`Begin`) and its `finally`
(`Finish`); the four reads of `flat_read` are served one by one, and the order may
turn up, trade or end between any two. `notes` are the incidents `route-reset:*`.
The trader is stopped, killed, or started by systemd; it holds `writer.lock` while
it is up. `Reconcile` is the part of `reconcile` that meets this intent. The check
of the configuration, the day, and the digest beyond intent, order and fill are
left out.

### Rates, Tokens, Reads

`Rates` is `_rate_attempt` with what decides it: pending intents, lots held, the
rows of `rate_events`. `Wasted` in its property is what the code does not promise:
a sale that is not filled has used a place nobody reserved. The lots of a probe are
no lifecycle's and are not reserved for (`orders.py` 105); there are none in
`Rates`. An intent whose process stopped before the POST is one that ends unfilled.

`Tokens` is `session_token` of two processes and the test the main loop makes
while `order_lock` is free. `Reads` is `acquire` and `_drain`; a read of high
priority may overtake the others for ever, so `TurnIsPassed` speaks of whoever is
next.

### Deploy

`kind` says which tool runs. `step` is the statement it is at; `Fail` may happen at
each of them and leads to the compensation. `service` carries the unit and the
configuration it was started with, so that "what runs is what is installed" can be
said. Taken as given: the tool is not killed, the compensation does not fail, and
nobody edits the configuration behind the comparison.

For `activate-profit-exit.py` nothing is claimed of what runs: when nothing was
migrated its compensation does not stop the service again (113), and a service that
failed may be restarted by systemd on the new unit while the files are restored;
`systemctl start` then finds it running. It also writes back the payload it read
before the start (116), over what a service that was up for a moment may have
recorded there.

### Activation

`steps` of `activate-live.py`, the verification, the daily restart and the service
run side by side; each may be killed between two of its steps. `source` counts
versions, `marker` is the one that is marked as verified. Account checks and the
amount are left out.

What the model made plain. `release.py` takes the digest twice (62 and 67-73), so
that a version put there in between gets the marker (`slipped`). The restart of
`session_refresh.py` is a check and then an act: it may restart a funded engine if
an activation comes between. An activation that was killed cannot be repeated: it
refuses, since it is already configured. `software_verified` is of the source on the
disk when a session starts, not of the running process.

### Rules

A day is a record of levels, volumes, options and published facts, and of what is
`there`; a rule answers a side, nothing to buy, or that it does not know. Look-backs
are shorter than in the code and a minute is one level, so what is kept is which
minutes and sources a rule reads, how it compares them, and its signs.
`RulesAreSound` asks of every rule that a later minute changes nothing, that a gap
gives no signal, and that the mirrored day gives the mirrored answer. With
`OPTION_ACCEL_OI` the declining open interest may pick the other side than
`OPTION_ACCEL` alone.

### Features

`task` is the background collection; `Collected` and `TimesOut` are its two ends.
Time is in half minutes. Change of the day is left out: the service loop ends the
session first. One instance of `MCOperations` has sources and no options, the other
options and no sources, since they only meet in `RefreshEnd`.

The published sources come as one: if one of them hangs past 30 seconds the others of
them are withheld for this collection, even if they were cached. The comment at
`strategy_inputs.py` 304 promises the candles of BANK and IT only.

### Arbiter

What is ranked are closed positions, live ones only, and a ranking is used for `Age`,
five seconds. `Recent` are the lifecycles `scores` looks at, `Attempts` and `Trades` those
of them that count for an engine. Gains, costs and frictions are in tenths of the
exposure. `CancelledNeverHelps` holds
while fewer than 256 lifecycles are closed: beyond that a cancelled attempt pushes an
old one out of what is looked at.

### Recorder, Incidents, Memory

`Recorder`: `offered` is history, what was received for a log; `disk` what was
written, with a row torn by a write that broke off. `late` are the batches whose task was
cancelled on the way out (`service.py` 772): their threads go on (`LateWritten`,
`LateFails`), also in the next session of the process. A write may fail before it numbers
its rows, in the middle of it, or behind it. `Incidents`: the list of those handled is
not cut (`incident-repair.py` 79 keeps the last 1024). A check that fails may have replaced
the file before (`CheckFails`). A kill between the
save of the runner's state and the start of the agent uses up a place of the budget,
and the incident is not tried again. `Memory`: lifecycles outside the window are gone
from the review; `DaysAreRemembered` is bounded to days that are within the window
when they are first seen; the cash that is remembered is left out.

## 3. Runs

| Run | Shows | Bounds |
|---|---|---|
| `oms_two_sales` | `NoOversell`; `Oms` implements `Exposure` | 2 lots bought by one order, 2 sales of one lot, no faults; the sales are symmetric |
| `oms_crash` | `TypeOK AbortedNeverSent ClearIsTrue LedgerNotShort AcceptedIsResolved` | a purchase of 2 lots, a sale of 1, 2 faults |
| `oms_no_filled_qty` | `ClosedIsSettled` violated without `filledQty` | 1 fault |
| `route_probes` | `TypeOK ProbesAreSafe AllowanceIsUsed` (`ProbesAreSafe` is `AllowanceHolds`, `ProbeAlone` and the action property `PaidFor`) | 2 probes, 2 connections, 2 incidents |
| `route_sale` | `VerifiedIsCurrent ProbeNotShort` | 2 probes, 2 sales of them or of a position, 2 connections, 2 incidents |
| `route_cutoff` | `NoProbeAfterCutoff` violated | 1 probe |
| `session` | `TypeOK ClosedIsOver PurchasesWithinBounds CapitalIsGuarded SignalIsSound InputsAreCurrent` | 2 lifecycles, 2 market snapshots of 2 lots, 2 faults; interchangeable lifecycles; 5 frames of 2 connections in the auction, 6 for a reference of 3, 1 restart; 4 minutes, 2 connections, 2 failed or incomplete answers; 2 connections of each socket, 5 instants, 1 fault |
| `lifecycle_live` | `PositionsEnd`: an expired position is closed, an exit is retried | 1 lifecycle of 2 lots sold one by one, 2 market snapshots, 2 faults |
| `directional` | `TypeOK OneEntryPerFamily FloorBinds EntryOnTime ReconnectConsumes PositionsEnd` | 4 configurations: two strategies of a family, a rebound, seconds with a minute signal and expiry, two shock episodes; 2 lifecycles, 5 ticks, 1 fault |
| `shock_cooldown` | `CooldownHolds` violated | two shock episodes, 1 fault |
| `services` | `TypesOK FeedIsFollowed ProbeIsRepaired EntriesLeaveRoom SupersededIsDropped TurnIsPassed AuthorityIsSound PaperIsExact` | 2 contracts, 2 connections of 3 frames, a queue of 2, 2 wishes; 2 crashes; 4 intents of 1 or 3 lots in 2 windows; 2 processes, 3 tokens, 1 fault; 3 tasks, 4 reads; 2 failures of the service; 2 episodes in 3 seconds, 1 kill; 2 versions of the source, 3 starts of the tools |
| `operations` | `ClosedIsSettled LedgerNeverForgets RulesAreSound ArbitrationIsSound SizedWithinMeans RecordsAreTrue IncidentsAreHandled` | a purchase and a sale with rows that may lag, 1 fault; days of 10 minutes; 3 closed lifecycles, 2 instants and a ranking of one; inputs of 2 or 3 prices, 2 contracts; queues of 2 rows and 3 receipts, 2 starts, 1 failure; 4 instants of 2 traders, 1 kill; 3 days, 3 lifecycles, 1 kill; 3 sources, 2 options, 5 half minutes, 1 failure |

Two lots let an order be partly filled; two sales are the least that can race; one
purchase and one sale are the least that need an order between rows; two faults
let a restart be interrupted. In `Route` two connections are the least a stale
proof needs, and two probes the least that a second attempt needs.

In `Lifecycle` two lots are the least that can be bought in two orders or sold in
two; two lifecycles the least in which a loss, or a charge that comes late, must
bind the next bankroll, and the ceiling, the cap and the capital are chosen so
that the second one runs into each; a second snapshot lets the feeds come back
after a restart, when only the ledger remembers an exit.

In the other parts of `session`: two connections of a feed let an observation of the
first meet the second; three observations are what a reference needs there, and
the frames leave room for late and repeated ones; two observations make a streak, and the
others end it; four minutes are more than a row is kept; the clock of `Seconds` runs
past the warm-up, the life of a fit and an episode, so that a dispatch on the second
connections is reached. In `operations` the inputs of `Sizing` have a freeze quantity that is no
whole number of lots, so that an order is full at less than it; those of
`Candidates` have prices at which two ticks are more than 0.4 per cent; a queue of two rows
lets a batch hold two while the third receipt waits, or finds it full.

In `Directional` a signal of the first minute can be entered, left, and evaluated
again within the bound of the clock; the second lifecycle is what would break the
family, the episode and the cooldown. In `services`, two connections let a frame or
a change of the first meet the second; a queue of two holds frames when the
socket goes; two crashes kill the tool and then the trader; the windows leave room
for two sales, and an entry of three lots needs two; three tasks let one wait
behind a cancelled one while a third is pushed as the worker ends.

`LedgerNotShort` is checked without lagging rows only: with them a sale's row can
be served while the row of the purchase it sells is not, and the ledger is short
until the next batch (`lifecycle_totals` raises and the cycle is repeated). The
proof assumes the same.

### What the three violations say

* `oms_no_filled_qty`. `orders.py` 234 takes the fills it knows as the expected
  quantity when a cancelled order's row does not carry `filledQty`. If the trades
  were read before the order traded and the order book after it was cancelled,
  the intent is closed and its fill unknown. With `filledQty` the property holds
  and is proved. The tests' broker (`tests/conftest.py` 24) serves such rows.
* `route_cutoff`. `service.py` 648 tests the window; `qualify` then awaits
  `funds()` and posts without testing it again, unlike entries, which pass
  `pre_dispatch` (`engine.py` 418-428).

* `shock_cooldown`. `directional.py` 346-347 writes `shock-last-closed:` after the
  transaction that closes the position. If the process stops in between, the
  position is closed for good and the mark never written, and the next episode is
  entered within the 15 minutes `docs/VOLATILITY-SHOCK-OPERATIONS.md` 38 promises.

A related behaviour that contradicts no document: when `funds()` fails before an
attempt is consumed, `service.py` 669 still books the epoch as failed, and
`rejected_probe_resolved` cannot clear it (there is no rejected order), so the
epoch waits for a reconnect. `AllowanceIsUsed` therefore speaks of epochs that
were not tried yet or whose last probe was rejected.

### Fairness

`Oms`: every HTTP call ends (client timeouts), the broker ends an IOC order,
`AccountRefresh.run` loops for ever. Taking `order_lock` is strongly fair:
`asyncio.Lock` is first in, first out. Submissions and faults are never owed.
`Route`: the main loop and the refresh loop run, HTTP calls end, and a liquid
contract exists for a probe; connections, events, entries and incidents are
never owed.
`Lifecycle`: the refresh loop runs, orders end, clearing happens and is stated,
and what the cycle awaits ends. The starts of a cycle are strongly fair: the
refresh loop wakes the main loop with every fresh snapshot. An exit is owed only
for a reason of `MustExit`. The feeds need not come back, the clock need not move,
the final value need not be published.
`Directional`: time passes, feeds and inputs come back, orders end, the refresh
loop runs and calls end; closing and offering an exit as in `Lifecycle`. Entries,
signals, prices and faults are never owed.
`MCServices`: the tasks of the feed run and the subscriptions loop comes round
every half second; neither is owed by a broken socket. The repair goes on until it
is killed; systemd starts the trader again (`Restart=on-failure`; strongly fair,
since the tool stops it), somebody removes the drop-in a killed tool leaves, and a
running trader reconciles (strongly fair for the same reason). The main loop meets
`order_lock` free now and then and whoever holds it gives it back. The worker of the
read scheduler wakes up, systemd starts what is to run, and the activation goes on until
it is killed. Connections, frames, wishes, tokens and faults are never
owed.

## 4. Proofs

Every theorem is of the module's `Spec` (those of `SessionProofs` of `Spec` of `Lifecycle`
or of `SessionSpec` of `MCSession`, those of `OperationsProofs` and `RecordsProofs` of
`Operations` of `MCOperations`, those of `ServicesProofs` of that of `MCServices`), for all values of its constants: any finite
set of intents, lots, orders or lifecycles, any bound on faults, connections or
time. The only assumptions besides those in the table are named in the module that
declares the constants, and TLC evaluates them in the runs:

* the `ConstantsAssumption` of `Oms`, `Route`, `Lifecycle` and `Directional`: the kinds of
  the constants; the markers for "nothing" are no orders, lifecycles or keys; in
  `Directional` the position carried over from the day before is of no family that may be
  entered today (`family_key` has the day in it); in `Lifecycle` a lot costs at most the
  price it reserves (an IOC limit order);
* `ServicesAssumption`: prices are positive, amounts and bounds natural numbers, the trader
  is one of the processes and the bootstrap contracts are some of the contracts;
* `SessionAssumption`: ages, bounds and forecasts are natural numbers, the values of a
  minute positive, and a row is kept at least as long as it is accepted;
* `OperationsAssumption`: amounts are natural numbers, a lot is no more than the freeze
  quantity, prices, rates and what is wrong with a trader are finite sets; a log has a
  capacity and a batch a size, both natural numbers, there is at least one day, and at
  least one lifecycle is looked back at; and the
  brokerage of an order, in the unit of the fees, is no less than a freeze quantity in
  lots (2000 paise against some thirty lots). The last is what `MostIsTaken` needs: a lot
  more may cost the rounding of three fees, and the gain of a lot outweighs it because
  three times the charges were earned with at most so many lots.

What a composition fixes in a definition stays fixed in the theorem: the auction of
`SignalIsSoundHolds` has one contract, and the incidents have the classes `Incidents`
names.

| Theorem | Says | Assumes |
|---|---|---|
| `TypeCorrect` | `[]TypeOK` of `Oms` | - |
| `NoOversellCorrect` | `[]NoOversell` | - |
| `AbortedNeverSentCorrect` | `[]AbortedNeverSent` | - |
| `ImplementsExposureCorrect` | `Spec => Abstract!Spec` | - |
| `ClosedIsSettledCorrect` | `[]ClosedIsSettled` | `ReportsFilled` |
| `ClearIsTrueCorrect` | `[]ClearIsTrue` | `ReportsFilled` |
| `LedgerNeverForgetsCorrect` | the action property | `ReportsFilled` |
| `LedgerNotShortCorrect` | `[]LedgerNotShort` | `ReportsFilled`, `~RowsLag` |
| `RouteTypeCorrect` | `[]TypeOK` of `Route` | - |
| `RouteVerifiedIsCurrent` | `[]VerifiedIsCurrent` | - |
| `RouteProbesAreSafe` | `ProbesAreSafe`: allowance, solitude, and the action property `PaidFor` | - |
| `RouteProbeNotShort` | `[]ProbeNotShort` | - |
| `LifecycleTypeCorrect` | `[]TypeOK` of `Lifecycle` | - |
| `ClosedIsOverHolds` | `[]ClosedIsOver` | - |
| `PurchasesWithinBoundsHolds` | `[]PurchasesWithinBounds` | - |
| `CapitalIsGuardedHolds` | the action property | - |
| `DirectionalTypeCorrect` | `[]TypeOK` of `Directional` | - |
| `OneEntryPerFamilyHolds` | `[]OneEntryPerFamily` | - |
| `FloorBindsHolds` | `[]FloorBinds` | - |
| `EntryOnTimeHolds`, `ReconnectConsumesHolds` | the two action properties | - |
| `EntriesLeaveRoomHolds` | `[]EntriesLeaveRoom` of `Rates` | - |
| `PaperIsExactHolds` | `PaperIsExact`: two balances and an action property | - |
| `TypesOKHolds` | `[]TypesOK` of `MCServices` | - |
| `BooksAreLiveHolds`, `NothingSkippedHolds` | the safety half of `FeedIsFollowed` | - |
| `ResetOnceHolds` | the safety half of `ProbeIsRepaired` | - |
| `SecondsAreCurrentHolds`, `InputsAreCurrentHolds` | `InputsAreCurrent`: `Inputs` and `Seconds` | - |
| `SignalIsSoundHolds` | `SignalIsSound`: streaks, the entry, the reference, and two action properties | - |
| `IncidentsAreHandledHolds` | `[]IncidentsAreHandled` | - |
| `SizedWithinMeansHolds` | `[]SizedWithinMeans` of `Sizing` and `Candidates` | - |
| `RecordsAreTrueHolds` | `RecordsAreTrue`: `[]RecordingIsTrue` of `Recorder`, `[]MemoryIsTrue` of `Memory` and an action property | - |
| `AllOrNothingHolds`, `OrdersAreAuthorisedHolds`, `VerifiedIsTestedHolds`, `FundedNotRestartedHolds` | the safety half of `AuthorityIsSound` | - |

Each inductive invariant was given to TLC on the run's instance before it was proved.
A proof has one step per action; the frame lemmas of each module (`SafeFrame`,
`Unmoved`, `CycleKept`, ...) dispose of what an action leaves alone.

### Oms

**`SafeInv`.** `NoOversell` speaks of the exchange, `submit` decides on the
ledger. The link is `HeldCovers`: the position read covers every committed sale
the ledger does not count as pending. It survives a sale ending during the await
only because an ended sale is either still pending, or closed and in the position
(`ClosedIsEnded`), and it rests on `SentIsRecorded` (what may trade is never
`none`, `PENDING_SEND` or `ABORTED`: STARTED is committed before the POST) and on
`KnownIsTrue` (a terminal state the process knows of is the order's).

**`SettledInv`.** A batch may be older than the ledger it is applied to, and its
reads are of different moments. `BatchIsComplete` says what saves it: a terminal
row carries the true quantity, so `filled >= expected` fails when the trades were
read too early; and when the order was known as ended before the batch, the fence
makes the batch's trades complete. `AfterIsSettled`, `SettledWalk` and
`AfterKeeps` carry this through `RecApply` and `CrashInApply`.

**`WalkInv`.** `LedgerNotShort` is not inductive by any margin: what matters is every
prefix of the batch that a crash may leave applied. `SalesFollowBuys` says it of all
of them: with `j` the rank up to which the batch is applied and `k` the rank up to
which the exchange is seen, the sales of rank at most `j` (`k`) are covered by the purchases of
rank *below* it. A new sale has a rank above all others (`BornInOrder`), so for it the claim is
`NoOversell`, and below its rank nothing changed; serving the trades turns `k` into
`j`; applying a batch fixes `j`. `BatchShows` says that no trade of a batch is skipped
because the order book does not show its order, which is where lagging rows would
break it.

The refinement needs one fact more per step: a dispatched sale is a `Reserve`
because `HeldCovers` and `CoversSale` bound the lots; everything else is a `Buy`,
`Sell`, `Release` or stutter.

### Route

`RouteInv` adds to the four safety properties what they rest on. `SentHere`: a witness
that carries the epoch of the connected socket was posted in it, which makes a late reply or
a queued frame harmless. `LedgerIsTrue`: the ledger says of no order what the broker
would deny. `ReadyInv`: what `service.py` 648 tested before the await of `funds()`
still holds when the order is posted, counters included, since only the main loop
starts orders and reserves.

### Lifecycle

`LifecycleInv` relates the ledger to the broker. `OrderInv`: an order belongs to an open
lifecycle, costs no more than was reserved for it and sells no more than is held.
`BookInv`: what is held and what was paid is what the ledger has and what an ended
order has yet to bring, in the three stages of a position: before clearing, after it,
and after the settlement was booked; this is what makes a second settlement of the
same receipt impossible. `SettleInv` and `EntryInv`: what a cycle captured before an
await is still so after it, because no order is pending meanwhile (`CycleInv`).
`LatchInv`: when nothing is open, a set `exit_reason` has disarmed, so that an
entry that found nothing open finds no latch. `SpendInv`: depth is debited before the order is sent, and the sums stay within
the cap.

The sums need induction over a set, which the prover does not do with operators as
parameters. `Sums` goes round it: of the subsets for which a claim about
`SumFunctionOnSet` fails one is minimal (`MinimalSubset`, by cardinality), and removing an element of
that one gives the contradiction. `SumUpdate`, `SumMonotonic` and `SumRestrict` are
what the proofs use.

### Directional

`DirectionalInv`: whoever is in the book left the row of its family (`FamilyInv`), which
an entry tests behind the lock; the first evaluation of a signal is the one that is
remembered (`SignalInv`), for the seconds strategies by their bucket and for the
others by `recorded`, also across a restart; the peak in the ledger is the best that
was ever seen (`PeakInv`); an episode that was dropped is consumed; a sale offers no
more than its row holds (`OrderInv`).

### The session's inputs

**`TapeInv`.** Everything the tape holds is marked with the two connections it was
observed on, and the four handlers clear different halves of it; `OnTape` says that what
is left is always of the pair that is up, `Offered` the same of the books, `Attempted`
what an entry carries across `funds()` and the lock. No fit outlives either
of the connections it was made on, which is what the cached evaluation rests on.

**`MinutesInv`.** `Streamed`: a row that is offered had one value on its connection.
`Cached` and `Asked`: every minute before one in the cache is there too, or is a
hole that a chart left in an answer, because a request starts where the overlap of the
last one did; the answer may be late, and is still about the minutes it was asked for.

**`SignalInv`, `ReferenceInv`.** A streak is a sequence, what an observer heard a set;
`Streaks` says that the identities of the one are among the other, also while an entry
holds a copy of the streak behind the lock (`Bid`). A reference is made of what was heard
on one connection (`Heard`), is sound when it is made, and `FrozenStep` says that it and
its row only change together and only from nothing.

### The incidents

**`FileInv`** says of each incident of the file what was found since it began, by position
in the file, which `Advance` keeps. **`RunnerInv`** counts: the agents a day began are at
most the tries the runner saved for it, one less while a try is saved and not begun
(`Counted`); whoever is in an agent's hands is in `handled` (`Handled`), and leaves it
only through `retry`, whose moment is the end of the last agent and the pause
(`Repeated`). A kill leaves the count too high, never too low.

### Sizes and contracts

`SizingInv` and `CandidatesInv` say of the decision what is to be shown, and of the
question that it is well typed; the work is in what a function of the question computes.

`BisectFinds` is about the loop of `find_opportunity`: over a test that fails for all
larger sizes once it failed, it ends with the largest size that passes. The prover has no
induction over data, so the interval after each turn is treated by contradiction, with
the least turn at which it is wrong or too wide (`LoopUnrolls`, `HalfIsBetween`,
`LeastNatural`). That the test is such a test is `EntryRises`: each fee is rounded up by a
division, one child order is charged by another (`FeesRise`, `CostRises`, `PartRises`).

`NearestIsRight` goes through what makes the loop of `candidate` go on. `MostIsRight` needs that a
shock buys as much of a contract as it can: `Pays` is not a condition that holds of a
larger quantity by its form, since its fees are rounded. `Outpaces` and `MorePays` say
that it does, and that more is left at the end.

### The records

**`RecorderInv`** is a statement about one log, held of both. While its worker is there
it is `LogState`. `Fits` is always true: a row that waits is so far above every row of its
session on disk that it can be written behind it, also when rows before it are lost, and
the numbers of the journal leave room for exactly those. `Complete` is true while the loop
believes that nothing is lost (`Told`): the rows of the present session on disk are the
first receipts, in whatever places late batches of earlier ones have left them, and the
batch and the queue are all the others. Once the worker is gone the rows are `Settled`.
`LatesTrue` says of the late batches that each is of a session that is over for this log,
no two of the same one, and that it fits behind what is on disk: so they may be written in
any order (`OrderedApart`). A row torn by a failed write is of no session; a
restart begins a new one, of which nothing is on disk yet. One lemma for each thing that
can happen to a log (`StateOnReceipt`, the batch, the write, its failure, the loss of what
does not fit, the end of the worker) makes the actions short.

**`MemoryInv`.** What is remembered was computed from the lifecycles of a window, when some of a day may
have left it: `RowTrue` counts against all of them. `LivesTrue` says that lifecycles follow
each other, and `AuditTrue` that fewer than the window holds followed a day there is a
health file of. So only the least day of a window that is cut off can have lost some
(`LaterDaysAreWhole`), and for that day the row that is there already is kept.
`ArchiveKeeps` follows: merging a new result into the archive
loses no trade, no attempt, and no result that was known.

### The services

The parts of `MCServices` share no state, so a step of the composition is a step of a
part or leaves it alone (`PartsStep`), and each part has an invariant of its own.

**`RoomInv`.** `EntriesLeaveRoom` rounds what may have to be sold up to whole sales
(`Sales`), so the argument is about divisions: a sale of a whole child makes one sale
less (`SalesChild`), which pays for the place it uses; a smaller one is `Wasted`; a
purchase was let in by a test on the same sum, and buying less than was asked for
leaves more room (`SalesMonotonic`). Time only takes events out of a window.

**`FeedInv`.** `Flow`: the frames in the queue and on the wire are numbered on from what
was handled and all came on the connection that is up, or was the last; the mark of the end is behind
them. That is why a drained queue brings no book back: when a new connection starts,
nothing of the old one is left (`FlowNone`). `Sockets`: a change being sent was begun
on an open connection, hence never on one that is still subscribing, whose broker
therefore sends nothing before `Subscribe`.

**`RecoveryInv`**: the incident that a reset was begun is written before the broker is
asked and never taken back, and where it is written there was at most one
(`ResetNoted`). A kill between the note and the reset leaves none, not two. **`DeployInv`** says
at each step of a tool which files are new, and in the compensation which are not
yet back (`Forward`, `Back`, `Payloads`), and what systemd can have started (`Services`).

**`ActivationInv`.** `Authority` chains the witnesses of an activation back to front: a
session that writes was started by systemd without the interlock, the interlock is
lifted by a step that comes after the ledger names the source, and that after the
operator's wish. A kill leaves a prefix of the steps, so the chain survives it.
`Proven` carries the marker: whatever it names passed, or slipped in.

**`PaperInv`** (`Balanced`): an open position leaves the fees of three orders in cash, which is
what makes the sale payable; a purchase that waits has its signal; and what is on disk
counts no more than what is in memory, so that a save never goes back.

### Only model-checked

* All liveness properties and whatever rests on ENABLED: out of the prover's reach. Among
  them are `WantedIsSubscribed`, `LateOrderIsRecorded`, `SupersededIsDropped`,
  `TurnIsPassed` and `ActivationTakesEffect` of the services. That `Sizing` finds a best
  choice whenever there is one is not claimed either.
* `RulesAreSound` and `ArbitrationIsSound`: `Rules` and `Arbiter` are look-backs, sums and
  sorts over a day or a list. What these compute for every input is induction over data.

## 5. Not modelled

The regressions of `seconds_strategies.py`, the pricing of a shock scenario and what the
optional sources compute: functions of price series whose results are choices of
`Directional`, `Seconds` and `Rules`. Decoding (`broker.py`, `dhan_feed.py`,
`upstox_signal.py`, `proto.py`), parsing and validation, because nothing here depends
on it but what is accepted. `confirm_historical_order` and the day roll. The states
`runtime.py` reports. Telemetry and the pages of the dashboard only observe.
`check-connections` and the edits of the roster in `cli.py`, and commissioning, run
before the process. `research/` is offline.

## 6. Plan

1. `confirm_historical_order` against exact trades, over two days; arming and the
   states of `runtime.py`; the order feed in `Feed`; the ranking of strategies.
