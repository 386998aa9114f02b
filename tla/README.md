# A verification project for poly-bot

poly-bot (`src/`) trades binary "up or down" markets on the Polymarket exchange.
Strategies turn market data into intents to buy or sell; an executor submits
them under a circuit breaker and a rate limiter; a ledger books what the user
WebSocket says was traded; a sync task corrects the ledger from the exchange's
REST answers. This directory models that program in TLA+, checks the models
with TLC and proves theorems about them with TLAPS. Paths below are relative to
the repository's crate, so `risk/circuit_breaker.rs` is
`src/src/risk/circuit_breaker.rs`.

## 1. Inventory

### The parts, their state and their operations

| Part | State | Operations | What makes it correct |
|---|---|---|---|
| Circuit breaker, `risk/circuit_breaker.rs` | `state`, `open_reason`, `opened_at` behind three `RwLock`s; atomic counters of a window and of the half-open trial | `is_trading_allowed`, `record_order_submitted`, `record_order_result`, `record_ws_disconnect/reconnect`, `record_reconciliation_failure`, `record_daily_loss`, `manual_open`, `force_close` | halts are served, then lifted; a trip is never forgotten; a trial counts only its own successes; the threads that share it do not wait for each other |
| Rate limiter, `risk/rate_limiter.rs` | deque of the instants of granted requests | `try_acquire`, `check`, `stats` | neither window is granted more than its threshold; it opens again |
| Executor, `execution/executor.rs` | none of its own | `execute`, `execute_batch`, `execute_grouped`, quantization, `process_response`, `cancel_all_orders` | the legs of a group are balanced or trading halts; sizes are what the exchange accepts |
| Execution of intents, `orchestrator/execution.rs` | none | `process_intents`, `execute_intents`, `handle_execution_result`, `simulate_paper_fills` | every result is handled once; paper fills book what live fills would |
| Ledger, `ledger/mod.rs`, `ledger/cash.rs`, `ledger/positions.rs` | cash (available, reserved), positions, fills, `seen_fill_ids` | `process_fill`, `apply_server_cancel`, reserve, release, settle, `sync_from_exchange`, `force_close` | it agrees with the wallet; nothing is booked twice |
| Open orders, `ledger/orders.rs` | a map by local id, a map of clones by exchange id | `add`, `link_order_id`, `transition`, `apply_fill`, `remove_terminal` | both maps find the same order; what is done stays done |
| User WebSocket, `websocket/user.rs` | the condition ids of the start, a channel to the event loop | connect, reconnect, `to_fill` | every trade of the wallet arrives, with the wallet's side |
| Set-up, `orchestrator/auth.rs`, `orchestrator/setup.rs` | builds all of the above | balance and recent trades at the start | a restart rebuilds the ledger |
| Sync task, `sync/mod.rs` | none but its timers | `sync_cash`, `sync_orders`, `sync_positions`, redemption | drift is removed and none introduced |
| Event loop, `orchestrator/mod.rs`, `handlers.rs`, `heartbeat.rs`, `shutdown.rs` | order books, market registry, router | biased `select!` over channels, ticks and the kill signal | nothing starves; paused means no intents |
| Kill switch, `kill_switch.rs` | an `AtomicBool`, a `Notify` | `activate`, `wait_for_kill` | a kill is seen, by whoever waits or comes later |
| Risk limits, `risk/limits.rs` | exposure, daily loss and counts per market | check, record, reset | used by its tests only |
| Reconciliation, `risk/reconciliation.rs`, `execution/state_machine.rs` | the last result | one comparison of server and ledger | started by nothing in the program |
| Order tracker, cancellation, `execution/order_tracker.rs`, `execution/cancellation.rs` | three indices of orders | `track`, `on_fill`, `on_cancel`, expiry | `track` is called by nothing in the program |
| Policies, `execution/policy.rs` | none | intent to order parameters | prices on the tick, a maker's order below the ask |
| Order book, `state/order_book.rs` | levels of both sides of each token | snapshot, level update, best prices | it is the exchange's book once everything sent is handled, best levels first |
| Router, registry, `strategy/router.rs`, `strategy/market_pair.rs` | strategies with their subscriptions, markets by condition and by token | routing, conflict resolution, registration | an event reaches the strategies of its market; an arb's legs stay together; both indexes agree |
| Directional strategies, `strategy/{late_entry,contrarian,tbo_trend,tbt_divergence}.rs` | price history, entries tracked, close orders pending, cooldowns | on book change, on fill, on tick | signals are what they are documented to be; one bet per market; what is due is sold, once |
| Arbitrage strategies, `strategy/{arbitrage,maker_rebate_arb,temporal_arb}.rs`, `edge_calculator.rs` | exposure, cooldowns, pending arbs | on book change, on tick, on shutdown | a pair pays its edge at the prices of its orders; stakes stay within the limit |
| Price feeds, `feeds/*.rs` | a record per asset with a rolling window, the back-off | connect, trade, reconnect | the momentum shown is a recent one |
| Market WebSocket, discovery, API server, dashboard, alerts, metrics, redemption | connections and caches | I/O | see "Not modelled" |

### How they interact

The event loop owns the router and the strategies and is the only consumer of
the channels of both WebSockets and of the timers. The price feed is a task of
its own that writes a map the temporal strategy reads. A handler
that yields intents spawns a task per batch (`process_intents`), so tasks run
`execute_grouped` while the event loop handles the next message and other tasks
do the same; the breaker and the limiter are shared by all of them. The sync
task and the API server are further tasks that write the ledger, the pause flag
and the strategies' switches from outside the event loop. Shared state is behind
one lock per field: methods that touch several fields are not atomic.

Some wires are missing, and the models are of the program without them: nothing
calls `StrategyRouter::on_fill`, nothing adds orders to the ledger or to the
order tracker, nothing reserves cash, and the runtime configuration that the API
changes is read by nothing.

### What is hard

Every hazard is in `PROJECT.json` at the line where it bites. They come in these groups:

- *One method, several locks*: the breaker's methods interleave between a read
  of `state` and the write that rests on it, and one of them holds a guard
  across a call that takes another.
- *Read, await, write*: each job of the sync task applies an answer that may be
  older than what the event loop booked in the meantime.
- *Delivery*: the exchange sends a trade for each status, sends it again after a
  reconnect, not at all for some markets; a restart reads trades over another path.
- *Partial failure*: one leg of a group fails, its answer is lost, its unwind
  times out, the breaker opens in between.
- *Two copies*: an order is kept twice and updated in both places separately.
- *Limits*: a window whose deque is full, a size below a dollar, a lot at a price
  that does not divide a dollar, a price rounded after its edge was checked.
- *Bookkeeping of intentions*: what a strategy remembers of its orders (claims,
  cooldowns, pending exits, pending arbs) against what became of them.
- *One loop for everything*: which branch is ready when, and what is read
  between a check and a wait.

## 2. The modules

| Module | Code | Builds on |
|---|---|---|
| `BreakerPromise` | none: the abstract specification of the breaker | |
| `CircuitBreaker` | `risk/circuit_breaker.rs`, a method per step | refines `BreakerPromise` |
| `BreakerLocks` | the same file, a lock operation per step | refines `BreakerPromise` where no thread reports |
| `CircuitBreakerProofs` | | theorems about `CircuitBreaker` |
| `RateLimiter` | `risk/rate_limiter.rs` | |
| `OpenOrders` | `ledger/orders.rs` | |
| `LedgerProofs` | | theorems about `OpenOrders`, `FillBooking` and `PaperTrading` |
| `ConcurrencyProofs` | | theorems about `BreakerLocks` and `EventLoop` |
| `ExecutionProofs` | | theorems about `QuantizeSize`, `GroupExecution` and `RateLimiter` |
| `ArbStrategiesProofs` | | theorems about `ArbStrategies` |
| `DirectionalProofs` | | theorems about `Directional` |
| `MarketDataProofs` | | theorems about `OrderBook`, `PriceFeed` and `PriceSignals` |
| `SumLemmas` | | finite sums and induction, for the modules above |
| `FillBooking` | `ledger/mod.rs`, `cash.rs`, `positions.rs`, `websocket/user.rs`, `sync/mod.rs`, `orchestrator/auth.rs`, `setup.rs`, `handlers.rs` | |
| `PaperTrading` | `simulate_paper_fills` of `orchestrator/execution.rs`, `ledger/positions.rs`, `cash.rs` | |
| `QuantizeSize` | `quantize_size_for_usdc_precision` of `execution/executor.rs` | |
| `GroupExecution` | `execution/executor.rs`, `orchestrator/execution.rs` | instance of `CircuitBreaker`, extends `QuantizeSize` |
| `Policy` | `execution/policy.rs` | |
| `Edge` | `strategy/edge_calculator.rs` | |
| `ArbStrategies` | `strategy/{arbitrage,maker_rebate_arb,temporal_arb}.rs` | extends `Edge`, `Policy` |
| `Directional` | `strategy/{late_entry,contrarian,tbo_trend,tbt_divergence}.rs`: entries, fills, exits | |
| `PriceSignals` | the same files: what they see in the prices | |
| `PriceFeed` | `feeds/{mod,binance}.rs` | |
| `OrderBook` | `state/order_book.rs`, `websocket/market.rs`, `orchestrator/handlers.rs` | |
| `Router` | `strategy/router.rs`, `market_pair.rs` | |
| `EventLoop` | `orchestrator/{mod,handlers,heartbeat,shutdown,execution}.rs`, `kill_switch.rs`, `api/controls.rs` | extends `Router` |
| `MC...` | | instances for TLC |

Components that share no state are checked side by side: in `MCGates`,
`MCConcurrency`, `MCLedger` and `MCEntries` a behaviour is of one part (`gate`,
`part`) and leaves the others as they were built, so the state space is a sum and
not a product.

**`CircuitBreaker`.** The variables are the fields of `CircuitBreaker`: the
three behind locks and the atomics. An instant is kept as its age in ticks,
saturating where the code stops telling ages apart (`reset_timeout`,
`window_duration`). Each public method that changes state is one action, with the window reset and the
`open()` or `close()` it may end in. The reject rate is the fraction
`RejectNum / RejectDen`. `MaxCount` bounds the counters.

**`BreakerLocks`.** The same methods as threads run them: each lock operation is
a step and `pc` says where a thread is. Two guards live longer than a statement
and are variables: the write guard of `state` in `open()` and `close()`, and the
read guard of `opened_at` that the scrutinee of `if let` keeps until the end of
its block. The window's counters are left out: which errors trip is
`CircuitBreaker`'s matter.

**`BreakerPromise`.** What the executor relies on: a trip halts, a halt ends in a
trial not before `reset_timeout`, or earlier when the WebSocket that caused it is
back, and a trial ends by its successes or by another trip. It has no counters
but the successes.

**`RateLimiter`.** The deque holds ages; the ghost `grants` counts what was ever
granted, by age, and is what the properties compare with the thresholds.

**`OpenOrders`.** The two maps. `link_order_id` stores a clone under the
exchange id, and `transition` and `apply_fill` update the original and then the
fields of the clone, if there is one. The transition table of
`OrderState::can_transition_to` is `CanTransition`. Fills may be larger than
what is left.

**`FillBooking`.** The exchange, the socket, the event loop's booking, the sync
task's cash and position jobs, and a restart. The exchange's own `wallet` and
`holdings` are what the ledger is compared with. A job of the sync task has its
REST call between what it reads and what it writes. A share costs one unit and
there are no fees, so a trade's size is its notional. `reserved` is left out
because nothing in the live path reserves.

**`PaperTrading`.** A simulated fill withdraws its notional, is booked by
`process_fill` and moves the position: averaged, reduced, closed or turned
round, with the realised profit and the fee. Money is counted in parts of a
price unit, so small that averages are whole. `keyed` says whether `PRIVATE_KEY`
is set, in which case the sync task runs beside the simulation.

**`GroupExecution`.** A task per group. `SubmitLeg` is a leg's way past the
breaker and the limiter, `LegExecuted`, `LegRejected`, `LegFailed` are the ways
its answer comes back, `Compare` is what follows the join, and
the unwind passes the same gate. `RecordLeg` is `handle_execution_result`, which
tells the breaker again what `process_response` told it. Every call of the breaker
is `CircuitBreaker`'s action of that name. The market itself (`bought`,
`resting`) is kept beside what the answers say (`filled`, `unwind`). The rate
limiter may refuse at any time. Strategies build groups of two buys of one
size, so at most one leg is unwound; `IntentsAssumption` is the minimum size
the strategies keep. What is submitted of a leg is `Submitted`, its size
quantized at its own price.

**`QuantizeSize`, `Policy`, `Edge`.** Pure operators over integers. Prices are
thousandths of a dollar in the first, integers of any one unit in the second (the
ticks and the offset too), cents in the third, whose edges are ten-thousandths of
a cent; sizes are hundredths of a share in the first and whole shares in the others.

**`ArbStrategies`.** One strategy on several markets; `math_gtc` is
`arbitrage.rs` with `use_maker_execution`. Books are inputs of the event that
looks at them. `exposure`, `cooling` and `pending` are the strategy's fields;
`resting`, `held` and `unwinds` what the exchange and the ledger have. Orders
are what the policy makes of the intents. The ghosts `stake` (what a market's
orders cost) and `sent` (the last pair at the prices of its orders) are what the
limits and the edge are compared with.

**`Directional`.** One strategy on one market, from the entry intent through
orders in flight, partial fills and kills to the exit. A price is a level, and
what makes a token worth buying is an input (`good`). `routed` says whether the
host delivers fills to `on_fill`, as the trait promises and the unit tests do;
in the running program it is `FALSE`.

**`PriceSignals`.** The history of mids of a token and its complement, the drop
of `contrarian`, the breakout with its confirmations of `tbo_trend` and the
divergence of `tbt_divergence`, with its relative strength index as a fraction.
The ghosts `rises` and `waited` count what the documentation speaks of.

**`PriceFeed`.** The connection with its back-off and the record with its
window. The ghosts say how old the price is that the window starts from.

**`OrderBook`.** The exchange's book, a stream that breaks and is opened again,
the channel that `refresh_markets` may drop, and the copy. The handler of level
updates is in the code though the SDK's stream only sends snapshots today; the
two kinds of stream are two values of `updates`.

**`Router`, `EventLoop`.** What strategies answer is left open within what they
may answer. An iteration of the loop takes the first branch that is ready, in
the order of the biased `select!`; `wait_for_kill` has its two steps, the look at
the flag and the registration of a waiter. Beside the loop run the WebSocket
task, spawned executions, the timers, the API and whoever kills the bot. Of
messages only their number is kept.

## 3. What the runs check

| Run | Shows |
|---|---|
| `gates` | *Breaker*: it keeps its trip recorded, is never closed at the threshold of fatal errors, starts trials at zero, lifts halts, and implements `BreakerPromise`, liveness included. *Limiter*: no window is granted more than its threshold, and a full burst window opens again. |
| `ledger` | *Orders*: both maps agree, an active order has something left, and an order that is done is never active again. *Trades*: over a disconnect and a restart, with trades sent once per status and again on reconnect, the positions agree with the wallet once everything sent is booked. Two kinds of trades are excepted in the property, because the code gets them wrong: a maker's trade booked by a restart (`load_recent_trades` takes the taker's side) and tokens of markets registered after the start, which the user socket never hears of. *Repair*: with those and with trades that fail on chain, the sync task brings cash back to the wallet's and forgets what is sold. *Paper*: cash, positions at their cost, realised profits and fees of a paper session always add up to what it started with. |
| `group_pair` | Two concurrent groups of FOK legs: each returns with legs that are equal at the exchange, or with the breaker just opened, whichever of its orders is refused, rejected or times out and whatever the other group does to the breaker. |
| `group_finish` | One group, FOK or GTC, with lost answers: it finishes, and halts on every residual that its answers show. Each leg it submits has a notional of whole cents and of a dollar at least, and is the largest such size its intent allows. |
| `directional` | Each of the four strategies, with fills routed and not: it never has both tokens of a market or more than one bet, in positions and orders together; the close orders of all but `late_entry` never add up to more than is held; a tracked position that is due is put up for sale, again if the sale fails. |
| `entries` | *Book*: once what was sent is handled, the copy is the exchange's book, best levels first. *Feed*: a silence spoils the window it ends with and no other. *Signals*: a drop is one of the last `lookback_secs`, a breakout has its confirmations, a divergence diverges and expires. *Arbs*: the stake of all markets stays within `max_total_exposure` (for all but the maker, whose resting orders nothing cancels); the maker's reservations are covered by its exposure; a pair pays its edge at the prices of the orders; the maker's orders do not cross; its unwinds sell no leg twice before the shutdown. |
| `concurrency` | *Locks*: with every kind of caller of the breaker at once, whoever can read `state` finds the reason and the instant that belong to it; `is_trading_allowed` starts a trial only of a halt that has lasted, though it looks at `state` and `opened_at` before it writes; and a halt ends early only by the WebSocket, an operator or a call that was running when the breaker tripped. *Loop*: every way to pull the kill switch stops a loop that gets to its last branch again and again; a trip is never announced twice; an arb's legs are executed together or not at all; the registry's indexes agree and the feed is what they know. |
| `breaker_stuck` (violation) | With two threads that ask and one that trips, one holds the read guard of `opened_at` and waits for `state`, another holds `state` and waits for `opened_at`: the halt is never lifted. |
| `unwind_misread` (violation) | One leg fills, the other is refused, and the unwind sells the whole excess. `process_response` compares the dollars it took with its shares, so it counts as a partial fill: the breaker opens, "residual exposure remains" is logged, and nothing is left of the group at the exchange. |
| `limiter_lockout` (violation) | Once the deque holds `sustained_threshold` timestamps, requests are refused before anything prunes it, for ever. |
| `exits_unrouted` (violation) | `StrategyRouter::on_fill` has no caller, so a strategy that bought never learns of it and never sells. |
| `feed_silence` (violation) | The window that follows a silence starts from the price before it, so its change is not the short-term momentum that is documented. |

Every module has a type invariant; the breaker's is among the properties of
`gates`, the others (`DirTypeOK`, `LoopTypeOK`, ...) state the ranges of the
variables and hold in the same instances.

### Met while modelling

Besides the five violations above, these are in the code as the models have it.
No run is about them; they are excepted or assumed where a property touches them.

- *Subscriptions are frozen.* `StrategyRouter::register` reads
  `subscribed_markets()` once; rounds registered by a refresh reach only
  strategies that subscribe to nothing in particular, and the user socket
  keeps the condition ids of the start (`orchestrator/mod.rs:118` expects the
  bot to pick up new rounds).
- *Exposure is for life.* `arbitrage.rs` and `temporal_arb.rs` only give back
  exposure in `on_fill`; the limit is one on everything ever bought. The maker
  gives it back when neither leg was filled.
- *Stacked makers.* An arb past its time-out is forgotten while its orders rest;
  nothing cancels them and the next arb is posted beside them.
- *Pause.* `handle_tick` does not look at `is_paused`.
- *Shutdown.* The last intents become a spawned task that dies with the runtime
  (`unwinding = "lost"` in `EventLoop`).
- *Starvation.* The kill switch is the last branch of a biased `select!`.
- *Partial exits.* A partly filled close order untracks the position
  (`contrarian.rs:512`); what is left is held. `late_entry` marks no close order
  as pending and sells again on every tick; its module documentation says it
  has no early exits, its `on_tick` is a stop-loss.
- *Rounding.* A taker's sell is rounded up to the tick as its buy is
  (`policy.rs:211`); a maker offset smaller than a tick is floored away and one
  of a tick or more is not in the edge that was checked.
- *Mixed batches.* `execute_intents` takes a batch for a group if its first
  intent is of one.
- *Paper mode with a key.* The sync task overwrites the simulated cash and
  positions.
- *Runtime configuration.* The API stores it; nothing but the API reads it.

### Bounds

- *Breaker*: two ticks to reset and three for the window, so a window can outlive
  a halt and the other way round; three errors to trip by count, one reject in
  three to trip by rate, so each can be first; counters up to four, one past the threshold.
- *Locks*: two threads of each kind reach every pair of methods in every
  interleaving; more threads of a kind find the same guards taken. The history
  variable `overlapped` keeps the calls that the last trip fell into. Two that
  ask and one that trips are the least that can wait for each other
  (`breaker_stuck`).
- *Limiter*: windows of two and six ticks for two and four requests: two bursts
  fit in the sustained window and three do not.
- *Open orders*: two orders and two exchange ids are the least with which one
  order's id could point to another; sizes 1 and 2 give partial, exact and
  overrunning fills; ids are reused, up to three orders.
- *Fills*: two trades, two tokens, two sizes, one disconnect and one restart at any point: a trade can be sent
  for two statuses, once more on the reconnect and be replayed. A third trade
  was tried and adds nothing new.
- *Paper*: four fills of one or two shares at two prices in two tokens, up to
  three shares long or short: averages of unequal sizes, reductions and
  reversals; 216 parts keep the averages of four fills whole.
- *Groups*: a pair whose legs are quantized to different sizes and one whose
  legs are not; two groups suffice for one to trip the breaker at every step of
  the other and to hold what the other sells. `group_finish` takes one group at
  a time through prices with every divisor of a hundred that tells lots apart, up to
  both ends, with sizes from the least allowed to past every lot.
- *Directional*: a bet of three shares, so an order can be filled in part twice
  over; holds, cooldown and the minute of a pending exit are two units long and
  an answer takes up to one, so an order can be answered before and after each;
  two orders in flight, which bounds only `late_entry`'s repeated sales. Orders
  are answered in the order they were sent, as the exchange matches a
  fill-and-kill order when it comes; were they answered in any order,
  `SellsCovered` would be false for bets of three shares.
- *Signals*: a look-back of four updates over three or four mids, of both tokens.
- *Arbs*: two markets, four tops of book (thin and off the tick, deeper, dearer,
  one-sided) for each token, ticks of two cents, two levels of cash, an
  exposure limit that three pairs reach. A maker's stake is bounded by
  `MaxStake`, four pairs in one market and one in the other.
- *Book*: three prices, one size, one unread message, both kinds of stream.
  *Feed*: a window of two seconds, silences of up to six and sleeps of up to four.
- *Loop*: one unread message per channel, one execution in flight, two rounds,
  three strategies: one that subscribes to nothing, one paired, one single.

### Fairness

- The heartbeat asks `is_trading_allowed` every ten seconds
  (`orchestrator/heartbeat.rs:19`, `:99`), hence `WF(IsTradingAllowed)` and, in
  `breaker_stuck`, threads that ask again and again; nobody is assumed to force, trip or report.
- Time passes (`WF(Tick)`, `WF(LimiterTick)`, `WF(Elapse)`).
- A thread inside a method goes on if the lock it needs stays free (weak fairness
  per thread): all that is assumed of `std::sync::RwLock` and the scheduler.
- The event loop drains its channel and the socket reconnects after five
  seconds. The timers of the sync task go off again and again: strong fairness of
  the start of each job, as the other job may be running when it is due.
- A spawned task is run until it is done; a request that is not answered fails
  in the end; the timeout of the unwind fires. The exchange need not answer, and
  nobody need trade with a leg that rests.
- The runtime polls the loop, the 100 ms interval elapses, a call of `kill()`
  returns. Nothing is assumed of the other branches: that they leave the loop
  time for its last one is the premise of `KillStops`.
- For `directional`: the loop ticks, orders are answered (filled or killed) and
  time passes.

The models may stop where their bounds say so, and there deadlock is not
checked: trades and orders that run out (`ledger`), stakes (`entries`), a loop
that has exited (`concurrency`). In `concurrency` and `breaker_stuck` threads
may wait for each other for ever, which is what `breaker_stuck` is about: that
every call returns is not true of the code, so no passing run says so.

## 4. What is proved

All theorems hold for every value of the constants that satisfies the modules'
assumptions: thresholds, timeouts and the number of successes are any naturals
(positive where the code's zero would make no sense), the sets of groups, ids,
trades, sizes, prices, markets and books are arbitrary (finite where something is summed
or sorted over them), and the markers `NoReason`, `NotOpened`, `NoOrder`, `NoId`, `NoTrade`
are none of the values they stand beside. TLC evaluates the assumptions in the
instances of section 3.

Each argument has the same shape: an inductive invariant that holds at the start,
is preserved by every action (one lemma or step per action), and implies the
property.

**`CircuitBreakerProofs`.** The inductive invariant is `TypeOK`,
`TripIsRecorded`, `ClosedBelowThreshold` and `TrialStartsAtZero` together. None
is inductive alone: that the successes stay below the limit needs that a trial starts
from zero, and that a halt's age is a number when it is compared
needs `TripIsRecorded`. `CloseEstablishesIInv` and `KeepWindowIsFresh` are the
lemmas about `close()` and the window; `StepPreservesIInv` has a step per
method. `Refinement` shows the safety of `BreakerPromise`, method by
method (`StepRefines`).

**`LedgerProofs`, the orders.** The inductive invariant adds to `TypeOK` and
`IndexesAgree` that every order in the maps is sound (`OrdersSound`: what is left is the
size less what was filled, and is positive while the order is active).
`ReplacedPreserves` is the heart: replacing an order in both maps by a sound one
that keeps its exchange id, or takes one that is free, preserves the invariant;
each operation is shown to be such a replacement. `DoneAlwaysStaysDone` follows
from the transition table and the invariant. Nothing is assumed about how
large fills are or how often they come.

**`LedgerProofs`, the fills.** `Net(t)` of a set of trades is the signed sum of what
they move of token `t`. `BookingInv` says that the exchange's holdings are the net of
the trades that stand (`HeldCounted`), that the ledger's positions are the net of
the trades in `seen`, unless a restart booked a maker's trade or the sync task corrects
positions (`BookedCounted`), that what is in the channel was executed
(`Announced`), and that while the socket is up every executed trade of a token of the
start is in `seen` or in the channel (`Delivered`). Once the socket is up and the channel empty, the two sets of trades differ by
failed ones only; hence `CountedOnce`, and `PositionsTraded` under the conditions
of the part of the run `ledger` that is about trades. Both have `~PositionSync`
as a hypothesis: the positions job of the sync task overwrites positions with an
answer that may be older than what was booked meanwhile, and with it only
convergence is true, which is TLC's. `FailuresHappen` is no hypothesis of `CountedOnce`: it
speaks of the tokens none of whose trades failed. The trades are any finite set.

**`LedgerProofs`, paper trading.** A fill moves money between the cash and the
cost of a position, whether it opens, adds to, reduces, closes or turns the
position round (`FillCost`): what leaves is in the realised profit and the fee. What
is summed over the tokens changes at one of them (`SumUpdate`). The theorem is
about behaviours whose averages are exact (`FillsExactly`), which 216 parts of
a price unit make so in the instance; the code's 28 decimals are as little exact as
any fixed number of parts.

**`ConcurrencyProofs`, the locks.** `LocksIInv` says that the write guard of
`state` is held exactly by the thread between the two writes of `open()` or
`close()` (`OneWriter`), what that thread has written by then (`HalfWritten`),
and that a thread about to lift a halt still holds the read guard under which it
found the halt old enough (`LiftersRead`). `QuietStep`, `GuardTaken` and
`GuardDropped` are the three kinds of step there are. From it follow
`LocksAlwaysRecord` (whoever can read `state` finds the reason and the instant
that belong to it, for any number of threads of every kind),
`ChecksAlwaysServe` (a check starts a trial only of a halt that has lasted,
whoever else is in the middle of a call: `LifterLifts` is the step, and the read
guard that outlives the `if let` is why it holds) and `InterleavedRefinement` (the
safety of `BreakerPromise`). The last is about threads that ask, trip and force the
breaker closed (`NoReports`) and only about them: a thread that reports a result or
a reconnect acts on a state that it read under an earlier guard, and with one TLC
finds the refinement violated. What then remains true is `EarlyEndsOverlap`, which
only TLC checks.
`LocksAssumption` is a premise of these theorems and not an assumption of
the module.

**`ConcurrencyProofs`, the loop.** `LoopIInv` adds to the three properties that
an announced trip is remembered, or about to be, for as long as the breaker is open
(`Announced`) and that what is enabled is registered. `WholeAnswers` and `ResolveTogether` are about
the router: what all strategies answer together consists of whole answers, and
the conflict resolution, which removes entries in a token with an exit, does not
tear an arb's legs apart.

**`ExecutionProofs`, the lots.** A lot is 100 / gcd(cents, 100). That Euclid's
recursion exists as a function on the tables is `RowsExist`; that it ends with a
common divisor that is a combination of both numbers is `GcdDivides` (`Bezout`),
so exactly the multiples of the lot are worth whole cents (`LotsInCents`,
`CentsInLots`). With `GroupIInv` this gives `AlwaysInCents` and
`IntentsAlwaysServed` for all prices and sizes.

**`ExecutionProofs`, the groups.** `GroupIInv` is the type of what the tasks hold
and `ExcessUnwound`: a group that unwinds sells the leg that its answers say is the
longer one, in the size that quantizing makes of the difference. It needs nothing
of the exchange, so `ResidualAlwaysHalts` holds for both order types and with lost
answers. `MarketIInv` adds that the answers are the truth (`AnswersTell`), under
`FOKsAnswered`: legs that fill at once or not at all and answers that arrive, the
conditions of the run `group_pair`. Then a group returns with equal legs at the
exchange, or with the breaker open (`AlwaysDeltaNeutral`), for any number of
groups beside each other. In both theorems every unwind ends with the breaker open:
one that is not answered, refused or killed because the code asks for it, one that
is sold because its dollars are less than its shares (`SoldLooksPartial`, from
`SalesAssumption`: a share is worth less than a dollar). `SharedBreakerKept` shows that every step of the
composition is a step of `CircuitBreaker` on the shared breaker or leaves it alone.

**`ExecutionProofs`, the limiter.** The code compares the thresholds with the
deque; the properties speak of what was granted. `Remembered` connects the two:
up to the sustained window, the deque holds as many timestamps of each age as
requests were granted, so nothing granted is forgotten and nothing counted twice,
whether or not it was pruned. That the deque is sorted, as the count of the burst
window by its first young entry requires, is part of the invariant.

**`ArbStrategiesProofs`.** `ExposureCounts`: strategies that give nothing back
count at least what they have at stake, over all markets. `OneUnwind`: while an
unwind of the maker is unanswered its market has no other. `PairsPayTheirEdge`
and `MakersNeverCross` are inductive with them and rest on the arithmetic of two
roundings (of the strategy's limit and of the policy's tick). They need what
`OffsetAssumption` and `BooksAssumption` say: the maker's offset is less than a
tick, as it is by default, and books are not crossed. With an offset of a tick or
more `StakeWithinLimit`, `PairsPayTheirEdge` and `MakersNeverCross` are false.

**`DirectionalProofs`.** An entry that waits for its answer is younger than the
cooldown it started (`EntriesOnCooldown`), no entry waits behind a close order
(`EntriesFirst`), and a close order has its mark, as old as itself, until it is
filled in part (`ExitsMarked`). Without them neither `OneBetPerMarket` nor
`SellsCovered` is inductive. `DirAssumption` has answers within less than the
cooldown and than the expiry of a pending exit: orders are fill-and-kill, while the
shortest cooldown is ten seconds and the expiry a minute. Nothing in the code
enforces it (the position sync, once a minute, only zeroes positions), so it is an
assumption about the exchange.

**`MarketDataProofs`.** `ReplayAgrees`: handling the unread messages one by one
on the copy would give the exchange's levels. It is inductive because a message
is appended for each change and taken from the front, whatever their number;
`BookAgrees` is the case without messages, with both sides sorted
(`BooksRanked`). For the feed, `WindowAges` relates the age of the price the window
starts from to the silence before it.

**`MarketDataProofs`, the signals.** `SignalsIInv` has one conjunct per detector.
*Drop*: the observations are ordered by age, so what an update leaves in the history
is no older than the window, and the oldest mid, which the detector compares with, is
the witness of the property (`TimedPushed`). *Breakout*: the code counts updates
above the rolling high, the property counts updates that rose; what is above the high of the
history is above the mid before it (`AboveIsRise`), so the count never exceeds the
rises, provided that it is zero until the history is full. *Divergence*: a signal is
as old as the updates since it, exists only with a full history, and is found where
`Diverges` holds (`DivergenceFound`). Nothing is assumed of the index of relative
strength but that both lows have one.

**`SumLemmas`.** The library's induction theorems take an operator as a
parameter, which none of the provers can instantiate. Induction is done over sets
instead: a set of naturals that contains 0 and with every number the next is all
of them (`SetInduction`), from the well-foundedness of the naturals.

Every safety property that a run checks is a theorem but for one. Only
model-checked are

- `EarlyEndsOverlap`, which needs the history of the calls in flight at a trip;
- every liveness property, those of `BreakerPromise` included, which are out of
  the prover's reach like `ENABLED`;
- that fills, failures and the whole sync task together converge
  (`RepairedCashConverges`, `LostIsForgotten`), which is liveness too;
- the five violations: a theorem cannot say that a behaviour exists.

`ProfitsAddUp` is proved where averages are exact, and false where they are
rounded, by less than a part for each share of the position.

## 5. Abstractions to know of

- Statistics (`total_filled`, `total_canceled`, trade counts, latency, metrics),
  logging and alerts are left out, but for `total_created`, which bounds the
  orders, and the breaker's alert.
- A call of the limiter takes less than a tick; the instant it reads before it
  takes the mutex is therefore the instant it pushes.
- `taking_amount` is what the code compares with the size, for buys and for
  sells. What a sell takes is dollars, so an unwind that is sold below a dollar a
  share never counts as fully filled (`SaleStatus`); `FinishUnwind` has the branch
  for one that is, and no reachable state takes it. Were it taken, the legs would
  be equal only to the lot of an unwind, a share: that is what
  `quantize_size_for_usdc_precision` makes of a smaller excess.
- The alert of a trip is awaited inside the heartbeat (`Alerted`), and what is kept
  is the sample from before it. The alerts that `execute_grouped` sends hold up one
  task and are left out.
- Every order of a trial is counted twice by the code (`process_response` and
  `handle_execution_result`); `GroupExecution` does the same, so no property
  says how many orders a trial takes.
- `record_ws_disconnect`, `record_daily_loss`, `record_order_submitted` and
  `record_reconciliation_failure` are modelled though the running program calls
  none of them: they are the breaker's interface.
- Redemption is off (`REDEEM_ENABLED=false`) and every trade is younger than the
  two hours a restart looks back.
- The order job of the sync task compares the exchange's orders with the
  ledger's, of which the running program has none; it is left out.
- Profit targets and stop-losses of the directional strategies are levels of the
  price, not percentages of a mid; `Directional` says nothing of their amounts.
- Books, fair values and external prices are inputs of the arbitrage strategies,
  not the state of `OrderBook` and `PriceFeed`: a book may be anything between
  two looks at it, and a stale one is a book like any other.
- Divisions are those of integers; the code's `Decimal` has 28 digits. Sizes are
  whole shares where the code rounds down to hundredths.
- A strategy that is switched off by the API keeps its positions and pending
  arbs; `Directional` has that (`SetEnabled`), `ArbStrategies` knows only the
  shutdown.

## 6. The plan

Modelled so far, in the order of importance: the breaker and the executor, the
ledger's orders and fills, the limiter; then the event loop with the kill
switch, routing, the order book, the strategies with edge and policy, the price
feed and paper trading. What is left:

1. **Proofs**: the drift of a paper session whose averages are rounded, as a bound;
   the type invariants of the remaining modules as theorems of their own.
2. **Composition**: strategies on top of `OrderBook` and `GroupExecution`, so
   that an intent is made of a book and answered by the executor.
3. **Once the program calls them**: reservations and `apply_server_cancel` with
   the order job of the sync task, `OrderTracker` and `CancellationManager`,
   `ReconciliationLoop`, `RiskLimits`.

## 7. Not modelled

- *Not called*: risk limits, reconciliation and the order state machine, the
  order tracker's maps, cancellation, cash reservations. They are libraries with
  unit tests; in the running program their state never changes, so a model would
  be of a program that does not exist yet.
- *No state that a decision reads*: cryptography, HTTP, JSON and WebSocket
  framing, market discovery, configuration parsing, the API server's formatting,
  the dashboard, alerts, latency and metrics.
- *Off by default*: redemption, a sequence of transactions on chain.

`PROJECT.json` lists every component with what is still missing.
