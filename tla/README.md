# Verification project for final-bot

`final-bot` is a Rust market maker for the 15-minute BTC up/down markets of
Polymarket. It quotes both outcome tokens of a market, tracks its orders and
inventory through websockets and REST calls, completes unpaired inventory with
taker orders, and merges or redeems paired shares on chain. It is a set of
tokio tasks connected by bounded channels; there is almost no shared memory, so
what can go wrong is the order in which messages, REST answers and websocket
events meet.

This directory holds TLA+ models of that system, the TLC runs that check them,
and the proofs TLAPS checks. Source paths below are relative to the repository
root; `om` stands for `src/execution/order_manager.rs`.

## 1. The system

| component | state it keeps | operations | talks to |
|---|---|---|---|
| OrderManager (`om`) | per market: cache of live orders, order-id index, tick cache, backoff; one InFlight slot (generation, stage, pending command); limiters | commands, internal messages of its stages, user order updates, reseeds | strategy (commands), exchange (REST), user websocket, reconciliation, StateManager (order updates) |
| Reconciliation (`src/reconciliation.rs`) | last resync time | startup snapshot; on reconnect: positions and open orders | exchange, data API, StateManager, OrderManager |
| StateManager (`src/state/`) | per market: identity, books, prices, alpha, inventory, orders, `quoting_enabled`, cutoff; markout trackers; tick throttles | one handler per `AppEvent` | every feed; emits quote ticks |
| Tick fan-out (`src/main.rs`) | none | forward each tick with `try_send` | strategy, inventory, rewards, watchdog |
| Strategy engine (`src/strategy/`) | chase limiter | latest tick to one command, or to a completion | StateManager (ticks), OrderManager, completion executor |
| Quote engine, risk (`src/strategy/`) | none (pure) | prices, sizes, caps, budget, final safety | strategy engine |
| User websocket (`src/clients/clob_ws_user.rs`) | session, FillTracker of the session, reconnect backoff | frames to fills, order updates, heartbeats | StateManager, OrderManager, reconciliation |
| Market websocket, RTDS (`src/clients/`) | session, books, subscriptions | frames to book and price updates | StateManager |
| CLOB REST client (`src/clients/clob_rest.rs`) | fee-rate cache, sign mutex | sign, post, cancel, heartbeat supervisor | exchange |
| Completion executor (`src/execution/completion.rs`) | last completion per market | cancel sweep, then a taker order | exchange |
| Inventory engine and on-chain worker (`src/inventory/`) | interval, backoff, ops per minute, readiness | merge, redeem | chain, data API, StateManager |
| Desync watchdog (`src/inventory/desync_watchdog.rs`) | latest ticks, mismatch start times | compare inventory with the data API | process (fatal) |
| Market discovery (`src/market_discovery.rs`) | tracked markets | poll, track, subscribe | StateManager, market websocket |
| Event log and replay (`src/persistence/`) | bounded buffer, open file, sequence numbers | append, rotate, replay | disk |
| Alpha (`src/alpha/`) | per-market filters | floating-point signals | StateManager |
| Wiring, health, shutdown (`src/main.rs`, `src/ops/`) | halt reason, feed times, shutdown flag | start, timer ticks, fatal shutdown | everything |

What is hard in it:

- *interleaving*: a stage of OrderManager runs while user updates, commands and
  reseeds change the cache it was planned from; the exchange acts at any time;
- *ordering*: a REST answer and the websocket events about the same orders
  arrive in either order;
- *partial failure*: batches are accepted in part, REST calls err after they
  took effect, reverts fail, cancels are refused;
- *loss*: `try_send` on full channels, dropped sessions, drained ticks;
- *staleness*: time, cutoff, backoff and gates are read before an await and
  used after it.

`PROJECT.json` lists the main ones at their lines with the properties that
cover them; section 3 lists where the code is not what its documents say.

What makes each component correct: OrderManager never forgets an order that
can still fill, never has two orders for one intent, carries out stops, and its
cache converges to the exchange; StateManager's inventory equals the fills and
its gate closes when a feed is stale, the market is over or trading is halted,
and the strategy turns every closed gate into a stop; inventory operations run
once and in bounds; the event log loses nothing it accepted and keeps order.

## 2. Modules

| module | models |
|---|---|
| `OrderDiff` | `diff_orders`, `needs_update`, debouncing and tick inference, as pure operators |
| `OrderManager` | the loop of one market in live mode, its spawned stages, the reseed of reconciliation, with exchange and user websocket as environment |
| `OrderManagerProperties` | what OrderManager promises |
| `OrderManagerInvariant` | `Inductive`, the inductive invariant of the proofs |
| `MCOrderManager` | TLC's commands and symmetry |
| `OrderManagerProofs` | lemmas on `OrderDiff`, and its theorems, section 4 |
| `QuotePipeline` | the path from an event of StateManager to a command of OrderManager: gate, quote ticks, fan-out, strategy loop, channels |
| `MCQuotePipeline` | a warm start for the run of two markets |
| `InventoryLedger` | how StateManager's inventory follows the account: user websocket sessions and FillTracker, position seeds, merges |
| `MCInventoryLedger` | who sells, and symmetry |
| `InventoryLedgerProofs` | its theorems, section 4 |
| `Quoting`, `QuotingProperties`, `MCQuoting` | one pass of the strategy engine over a snapshot: pricing, chase limiter, inventory rules, completion, repair pricing, reward hints, budget, final safety; what is claimed of the command that leaves it; configurations and markets for TLC |
| `StrategyProofs` | the theorems about `QuotePipeline` and about `Quoting`, section 4 |
| `MarketFeed`, `MarketFeedProperties`, `MarketFeedProofs` | market discovery, its events to StateManager, its commands to the market websocket, and that loop's sessions; its theorems, section 4 |
| `Settlement`, `SettlementProperties`, `MCSettlement`, `SettlementProofs` | merges and redeems of markets that end, the shared budget of operations, the on-chain worker and its readiness cache, the desync watchdog; its theorems, section 4 |
| `RecordLog`, `Replay`, `EventLog`, `EventLogProperties`, `EventLogProofs` | the lossy log that is promised; the readers of a log; the logger task, its buffer and its files; that a replay of its files implements that log; its theorems, section 4 |
| `Lifecycle`, `LifecycleProperties`, `LifecycleProofs` | the process from start to exit, heartbeats, shutdown, crashes and restarts, and what rests on the exchange meanwhile; its theorems, section 4 |
| `FoldTheorems` | the laws of the fold over a sequence that the proofs about channels share |

### OrderManager: state and actions

The slot (`gen`, `busy`, `stage`, `current`, `pending`, `failed`) is
`InFlight`; `live` and `index` are `MarketOrderCache.live` and
`order_id_index`, `ticks`, `tracked`, `backoff` its other fields;
`cancelStages` and `postStages` are the spawned `run_cancel_stage` and
`run_post_stage` tasks, `internal` the `tx_internal` channel, `seedq` the
`rx_order_seed` channel, `sweeps` the detached cancels (`cancel_on_fill` and
the cancel of unknown orders). `book` and `ws` are the exchange's orders and
one FIFO of user updates per order.

| action | code |
|---|---|
| `ExecCommand` | `on_exec_nonblocking` and, when the slot is idle, `start_for_cmd` |
| `CancelStep`, `PostStep` | one REST call of a stage and the message it sends |
| `CancelBatch`, `CancelFinished`, `PostBatch`, `PostFinished`, `DropStale` | `on_internal_msg`, the last for messages of another generation |
| `UserOrderUpdate` | `handle_user_order_update` and `apply_user_order_update` |
| `SweepStep` | `cancel_on_fill`, the cancel of an unknown order |
| `Resync`, `ApplySeed` | `map_open_orders` after a reconnect, `apply_seed_orders` |
| `Fill`, `SweptByOther`, `LoseUpdate`, `ClockTick` | the environment |

`Finish` is `finish_and_maybe_start_next`: it runs the pending command, or the
command whose cancels are done, inside the same step, as the code does.

Abstractions, all of them data: prices and sizes are small integers (ticks and
shares); a map entry that is absent is `None`; a stage's batches are any split
of its work into full batches in level order (the code's order within a level
is that of a HashMap); an answer names each order as placed, refused as
post-only or refused as an error; a user update always carries the matched size
and is stamped with the time it is handled; rejections over the websocket and
changes of an order's size or price by the exchange are left out; the fill and
unknown-order limiters and the orders-per-minute limiter are a nondeterministic
answer (`LimiterAnswers`, `RateLimited`); dry-run mode, logging and the events
for StateManager are left out. The exchange may reuse no order id
(`Ids == Keys \X 1..MaxPerKey` only names them by the key they were posted for).

### QuotePipeline: state and actions

`markets` is `StateManager.markets`, reduced to what the gate of the timer tick
and the strategy read; `halted` and `userFresh` are the parts of `HealthState`
the gate reads; `outbox` holds the ticks the loop of `run` has still to send,
so that the receivers run between two of its `try_send`s as they do on a
multi-threaded runtime. `raw`, `strategy`, `exec` and `completions` are the
channels, `hand` is what the strategy is sending, `asked` what OrderManager was
last told. `geo`, `late` and `breaks` are the world. `verdict` is a history
field: what a timer tick found when it judged the market.

| action | code |
|---|---|
| `MarketDiscovered`, `SetTrackedMarkets`, `MarketWsUpdate`, `UserWsFill`, `GeoblockStatus`, `UserWsHeartbeat` | the handler of that event in `apply_event` |
| `ExposureEvent`, `FeedEvent` | the handlers that only change the exposure of a market, or what its staleness is computed from; silence ages a feed |
| `TimerTick`, `EmitTick` | `apply_event` of a timer tick with `update_alpha`; the sends of `run` |
| `FanOut` | the fan-out task of `src/main.rs` |
| `StrategyTake`, `StrategySend`, `StrategyComplete` | one pass of `StrategyEngine::run_with_logger` |
| `ExecReceive`, `CompletionReceive` | the receivers; the first stands for module `OrderManager` |

What the pricing produces is a free choice of `StrategyTake`, within the guards
at the top of `build_desired_orders`; the throttles of 25 ms are a free choice
to send nothing; prices, sizes and inventory are only present as `exposed`.

### InventoryLedger: state and actions

`status`, `matched` and `held` are the exchange and the account. `stream`,
`tracker`, `conn` belong to the user websocket session, `resync` is what
reconciliation has fetched and not yet sent, `events` the channel `tx_events`,
`inv` and `lastTrade` StateManager's `InventoryState`, `snapshot` and `cooling`
the inventory engine, `queue` and `worker` the on-chain worker. `emitted`,
`quiet` and `blurred` are history.

| action | code |
|---|---|
| `SessionUp`, `SessionDown` | `run_with_order_updates` around `run_session`, with their connection events |
| `Read` | `handle_text` with `FillTracker::apply` |
| `ResyncSkip`, `ResyncFetch`, `ResyncSend` | the resync loop: a skipped event, the fetch of positions, the seed of `map_positions` |
| `ApplyFill`, `ApplySeed`, `ApplyMerge` | the handlers of StateManager |
| `Tick`, `EngineTick`, `IntervalPasses` | the inventory engine, for merges |
| `WorkerTake`, `MergeMined`, `MergeDone` | the on-chain worker and the chain |
| `Place`, `Match`, `Cancel` | the exchange |

Abstractions: one market; shares are counted in units of the smallest match;
prices and costs are left out; a time stamp only tells a match before the
connect of its session from one after it, and exchange stamps may be off by
that much, because they have whole seconds; a tick is any moment at which the
engine's snapshot catches up; a disconnect event changes nothing and is left
out; redeems and operations per minute are in `Settlement`.

### Quoting: state and actions

A snapshot is `MarketState` as the functions read it, a configuration the
fields of the validated sections; prices are thousandths of a dollar, sizes
hundredths of a share, and the tolerances of the floating-point code become
exact comparisons. The only state a pass leaves for the next is `limiter`
(`Level0ChaseLimiter.last_by_token`). `QuotingAssumption` holds what
`TradingConfig::validate`, `InventoryConfig::validate` and
`CompletionConfig::validate` accept, and the types of the numbers that are read;
`Market` is what StateManager can send, any combination of it.

| operator, action | code |
|---|---|
| `FirstTick`, `NextTick` (`Pass`) | one iteration of `run_with_logger` |
| `MayBid` | the early returns of `build_desired_orders` |
| `BuildDesired` with `TopPrice`, `ClampUpward`, `CombinedCap`, `BuyLadder`, `MakerSells` | `build_desired_orders` and its helpers |
| `AdjustForInventory`, `TakerCompletion`, `RepairPricing` | `risk.rs` |
| `RewardHints` | `apply_reward_hints` |
| `MarketBudget`, `FinalSafety`, `Decide` | the tail of the pass in `engine.rs` |

### MarketFeed: state and actions

`pc`, `slugs`, `desired`, `out` are one pass of discovery (`out` is the event
it waits to send), `lastTracked`, `lastSent`, `cache`, `seeded`, `subscribed`
what it keeps; `conn` and `wanted` are `MarketWsLoop`, `server` and `broken` its
session. A market is named by the start of its interval, and its two tokens
are one.

| action | code |
|---|---|
| `Poll`, `FetchCurrent`, `FetchPrevious`, `SeedTicks`, `SendCommand`, `Send`, `FetchFails` | the loop of `MarketDiscoveryLoop::run` |
| `Apply` | `apply_event` for tracking, identities and tick sizes |
| `Connect`, `ConnectFails`, `HandleCommand`, `QueueCommand`, `SessionEnds`, `BackoffOver` | `MarketWsLoop::run`, `handle_command` |
| `Clock`, `GammaChanges`, `Break` | the environment |

### Settlement: state and actions

`latest` is the last tick of each market, held by the inventory loop and by the
watchdog alike; `gate`, `last`, `ops` are `InventoryEngine`, `queue`, `worker`,
`cache` the on-chain worker, `since` and `fatal` the watchdog. `spent` and
`lost` are history.

| action | code |
|---|---|
| `TakeTick`, `IntervalTick`, `RefreshReadiness` | `InventoryLoop::run` with `InventoryEngine::tick` |
| `TakeRequest`, `Report`, `CallFails` | `spawn_onchain_worker` |
| `Check` | `DesyncWatchdog::check`, `spawn_desync_watchdog` |
| `Apply`, `Drop` | the handlers of StateManager |
| `Fill`, `Ends`, `Mine`, `Advance` | exchange, market, chain, clock |

Its unit of time is some ten seconds: events and ticks get through within one
unit (ticks come five times a second). Time stamps of fills are taken to grow,
so that more full sets mean a new trade, and the Data API to be current.

### EventLog: state and actions

| action | code |
|---|---|
| `Offer` | a producer's `try_send` |
| `Handle`, `FlushTick` | `handle_event`, the flush ticker behind the biased select |
| `Write`, `OpenFails`, `WriteFails`, `FlushFails` | `flush_buffer` |
| `Rotate`, `RotateOver`, `RenameFails` | `maybe_rotate`, `SizeRotationHook::rotate` |
| `RemoveOldest`, `RemoveFails`, `ListFails`, `PruneDone` | `prune_to_budget` |
| `Start`, `Stop`, `Crash` | `with_rotation_hook`, `Drop`, the end of the process at any step |

Each file operation is a step, because the process can die between two. A line
and its newline are two writes (`src/persistence/event_log.rs:306-307`), so a
write that is cut short leaves a part of a line (`"part"` of `Ends`), or a line
without its newline (`"bare"`), which a replay reads as the event it is. What is
appended next continues that line, and the two do not parse as one. Bytes are
counted per line; a part counts one.

### Lifecycle: state and actions

`phase` is where `main` is, `seed` and `asked` what startup reconciliation
found, `stop` the shutdown flag, `fatal` the reason in `fatal_tx`; `pc`, `wait`,
`call`, `ok` are `run_heartbeat_supervisor`; `net` are posts under way, `book`
what rests, `armed` and `silent` the exchange's view of the heartbeats. `heard`,
`missed`, `late`, `kept` are history.

| action | code |
|---|---|
| `Start`, `Reconcile`, `ReconcileFails` | `main` up to `StartupReconciler::run`; any failed lookup ends the process |
| `CleanUp`, `CleanUpFails` | the startup cancels: `cancel_all_orders`, or `cancel_orders` of what could not be mapped |
| `Spawn` | the tasks; OrderManager seeded with `orders_by_slug` |
| `BeatTick`, `BeatOk`, `BeatFails`, `GiveUp` | the heartbeat supervisor and its task in `main` |
| `Signal`, `WatchdogAlarm` | `listen_for_shutdown`, the fatal path of the watchdog |
| `LoopEnds`, `LoopBreaks`, `CancelAtExit`, `Exit`, `Crash` | the two ends of the main loop (shutdown, and a StateManager that has gone), the last cancel-all, the return of `main`, a kill |
| `Post` | any post stage, until the process is gone |
| `BeatHeard`, `DeadMan`, `Land`, `Refused`, `Leave`, `Advance` | exchange, network, clock |

Time is kept as ages that stop where no comparison changes. The heartbeats that
the SDK can send by itself (`Cargo.toml:20`) are left out; missed ticks of the
interval are one tick; the lookups of startup are one step. They see the orders
of the current and the next market, and of the one before in its grace time, and
of these only where Gamma returns the market (`src/reconciliation.rs:83-98`,
`113-118`, `316-330`): `Reconcile` looks at any part of what rests.

### How the modules meet

`Lifecycle` gives OrderManager its initial cache, `MarketFeed` gives
`QuotePipeline` its discoveries, `QuotePipeline` says when a command may ask
for quotes, `Quoting` what it asks for, and `OrderManager` what becomes of it;
the fills that follow are `InventoryLedger`'s, and what is left when the market
ends is `Settlement`'s. Where two modules share a component, each keeps the
part of its state that its own question needs, and makes the rest a free choice.

## 3. Runs

Every `om_*` run checks module `MCOrderManager`; all switch deadlock checking
off because the bounds on commands, time and faults let a finite behaviour end.

| run | instance | shows |
|---|---|---|
| `om_protocol` | two tokens, one level, all faults (one of them), one reseed, two commands, rate limiting | types, index and cache, one stage per slot, posts on free keys, no live order forgotten |
| `om_relevel` | one token, two levels, reseed that renames levels, debouncing, limiter refusals | cancels aimed at their own order |
| `om_book` | two tokens, three kinds of failing calls, refused legs, lost updates, fairness; no reseed, no ambiguous post error, no failing cancel call | every resting order is accounted for; one order per key; a stop empties the book; a pending command gets its turn |

Bounds. `MaxPerKey` = 2 orders per key are enough for a replacement and for a
duplicate; `MaxCmds` = 2 or 3 commands give quote, stop and re-quote, with one
of them pending; one fault suffices to reach every error path and every pair of
a path with any interleaving; `MaxTime` is as small as the run's question
allows, because time only matters to backoff, cutoff and debouncing.

`SYMMETRY` over the two tokens is used where the commands treat them alike and
only safety is checked.

Fairness (`FairSpec`): the loop keeps serving its channels and user updates,
and every REST call ends. The first is tokio's scheduling of the select loop;
the second is an assumption: the REST client sets no timeout, so a call that
hangs wedges the slot of its market. No fairness is assumed of the strategy,
of the exchange's fills or of the clock.

The `qp_*` runs check `QuotePipeline`:

| run | instance | shows |
|---|---|---|
| `qp_market` | one market, fairness, channels of capacity one, one broken condition | types and capacities; `SnapshotsAreSound`; only judged-open markets are quoted; a blocked market is stopped, an open one is offered again and again |

Channels of capacity one reach both full and empty, `qp_starved` adds a backlog
of two ticks;
`MaxBreaks` bounds how often a condition turns bad, one break
being enough to close an open market in every state of the pipeline. Fairness:
each task runs while it has work (tokio), the main loop's timer never stops,
and the receivers of the two command channels keep receiving: for the executor
this again assumes that REST calls end. The CHECK_DEADLOCK switch is off
because a market that is never discovered gives the system nothing to do.

`il_ledger` checks `MCInventoryLedger`; deadlock checking is off because
orders, sessions and merges are bounded. Sell orders are in the model and in its
proofs, and in no run.

| run | instance | shows |
|---|---|---|
| `il_ledger` | a buy order of two shares per token, two sessions that repeat open orders, resyncs that may be skipped, two merges, every fault of the chain | types, no negative inventory; `NoFillTwice`; `InventoryIsExact` across partial fills, reconnects and merges that race fills |

`InventoryIsExact` says precisely when the inventory can be trusted: it is
`blurred` from the start of the process, from the loss of a session or of a
receipt, and from a clamped loss that overtook the gain it needed, until a seed
that nothing raced. Two sessions and two shares per order are enough for an
order to be filled in part in one session and repeated in the next; two merges
are enough for one to be asked for while the other is under way.

The other components have a run each:

| run | instance | shows |
|---|---|---|
| `qt_pass` | every pair of seven books, six inventories, two configurations and the variants of alpha's answers; a second pass after a book has changed | caps, distance to the ask, profit of a repair and pairing hold of the command that leaves the pass; from one pass to the next the bid climbs no faster than the limiter allows, while the combined cap has nothing to lower |
| `mf_feed` | an interval boundary and the end of the grace time pass, channels of one, one failure of any kind, two sessions | StateManager follows discovery with identity and tick size, the websocket serves what is wanted; in the end both are current, unless discovery has died or a session has without telling |
| `settle` | one market that fills, closes, resolves and may be dropped, one failure of any kind | operations within their budget; inventory follows the chain; resolved markets settle; lasting mismatches stop the program |
| `el_log` | two sizes of line, channel and buffer of two, four events, three processes, one failure of any kind | `EventLog`, read by `Replay`, implements `RecordLog`; the buffer keeps its limits; bytes and losses are counted; accepted events leave the memory |
| `life` | two orders, one of them not mappable, two processes | what rests when trading starts is known, or one of the exceptions the property names; the supervisor acts before the exchange; nothing outlives the process; lost heartbeats end it |

Bounds. Two passes suffice for `qt_pass`, because a pass reads nothing of
earlier ones but the limiter, which keeps one price per token. One failure
reaches every error path of the feed, the settlement and the log, and with two
sessions or processes what comes after it (`el_log` has three: one to leave a line
without newline, one to garble it, one to go on behind it); `MaxNow` lets one
market go from current to previous to dropped, and another from next to current. With `Interval` =
`Hold` = 1 and `Minute` = 2 units every order of interval, minute and hold
occurs. Its one market makes merges and redeems compete for the one operation
a minute and the one place in the channel; more markets would only compete for
the same two (TLC does not finish two with every fault). In `life`, `ExchangeGrace` is the least that the assumptions allow; two
processes are one restart. Deadlock is checked in `life` only: the others have
bounded inputs, and the watchdog of `settle` ends the program.

Fairness. `mf_feed`: discovery, StateManager and the websocket loop take their
steps, and a connect ends. It is not assumed that a dead session ends: the loop
sends no ping and reads without a timeout, so `FeedSettles` leaves out a session
that is dead for good. `settle`: the loop, the worker, StateManager and
the watchdog run, ticks of every tracked market arrive, the Data API answers
again and again, time passes. `el_log`: the logger task runs; nothing is
assumed of producers. `life`: REST calls end (no call longer than `CallMax`),
tasks and clocks run, a post arrives or is lost, and the exchange carries out
its cancel for silent accounts. That calls end is an assumption everywhere: the
code sets no timeouts.

Refinement. `ImplementsRecordLog` instantiates `RecordLog` with the ids in
channel and buffer as `pending` and what a replay of the files returns, oldest
file first, as `stored`: crashes, failing writes and pruning map to its `Cut`,
`Store`, `Lose` and `Prune`, and no step stores an event twice or out of order.
Both `Cut` and `Store` may spoil the last stored event, which is what an append
does to a line without newline. A file of one run whose lines all parse is
replayed as by default, strictly and by sequence number
(`src/persistence/replay.rs:13-19`). The default refuses a file with a garbled
line and mixes the runs of a file that a restart went on with: such a file is
read in the order of its lines and not strictly, which are options of
`src/bin/replay.rs`.

Two more runs expect a violation, each of a sentence of the repository's own
documents; `PROJECT.json` lists them under "findings":

| run | violated | why |
|---|---|---|
| `om_ghost` | cache converges to exchange state | a PostBatch message resurrects an order the websocket already reported dead |
| `qp_starved` | blocked markets are stopped | with two markets the strategy can discard the stop of one of them for ever: it keeps the newest tick of any market |

Divergences seen while modelling that have no run of their own, because the
code shows them in one place:

- the gate of the timer tick does not read `identity.restricted`
  (`src/state/state_manager.rs:715`), which `FULL_SPEC.md:219-221` requires;
- `MarketState::new` sets `quoting_enabled`, so a market with unpaired inventory
  can get a taker completion between its discovery and the first timer tick,
  halted or not (`src/state/market_state.rs:102`);
- a post call that errs after the exchange placed its orders ends the stage with
  nothing entered in the cache, and the next command posts the keys again
  (`om:1484`), against "no duplicate orders per (token, level) intent across
  retries/restarts" (`03_EXECUTION_CORRECTNESS.md:130`);
- `apply_seed_orders` abandons the running stage by moving to a new generation
  (`om:470`): a post the seed was read too early to see rests untracked, and its
  key is posted again, against the same sentence;
- `apply_backoff` counts from the start of the failed stage (`om:2174`): a call
  that fails late leaves a backoff that is already over;
- the cutoff is read when a stage starts (`om:704-707`): a stage that waits on a
  slow call, or has batches left, places orders after it, against "after
  `cutoff_ts_ms`, *no new placements* can occur"
  (`07_ACTIONABLE_FIXES_AND_REFACTORING.md:37`, `FULL_SPEC.md:828`);
- a seed is only compared with the last fill that was handled, and no fill with
  a seed (`src/state/state_manager.rs:976`): a fill between the connect of a
  session and the fetch of the positions is counted twice, against "inventory ==
  fills" (`07_ACTIONABLE_FIXES_AND_REFACTORING.md:71-72`); `InventoryIsExact`
  leaves such seeds out;
- one error of Gamma ends discovery for good (`src/market_discovery.rs:92`), and
  with it the websocket loop once its commands are read, while main only logs
  it (`src/main.rs:407-411`, `FULL_SPEC.md:140`); `last_best` of the websocket
  survives sessions; the session sends no ping and reads without a timeout
  (`src/clients/clob_ws_market.rs:103`), so one that died without a word is read
  for ever unless a command has to be written, and only StateManager's staleness
  gate keeps its markets from being quoted;
- `enforce_final_safety` drops every order of the excess token, so maker sells
  (`src/config.rs:258`) never leave a pass; the chase limiter moves its time
  stamp on even when it allows nothing (`src/strategy/quote_engine.rs:59-71`),
  so passes closer than a tick's worth of time never climb; it remembers the
  price before `enforce_combined_cap` (`171-198`), so a bid that the combined cap
  has lowered may jump back at once, against "limit how fast level-0 price can
  move upward"; alpha's caps are two parts of the target (`src/alpha/mod.rs:121-129`)
  and leave the combined cap nothing to lower; repair pricing and
  reward hints are not limited (`src/config.rs:290`); `min_ticks_from_ask` = 0 is
  valid;
- a market dropped before a tick said it was closed is never redeemed
  (`src/state/state_manager.rs:621`, `FULL_SPEC.md:187`); neither `latest` map is
  ever pruned, so a dropped market that is redeemed later stops the process as a
  desync; a failed fetch does not clear a hold (`src/inventory/desync_watchdog.rs:196-206`);
  an operation counts even if its request found no room; with the default six
  operations a minute, merges every ten seconds can starve redeems;
- sequence numbers restart with the process while the file goes on
  (`src/persistence/event_log.rs:154`, `300-303`): the default replay interleaves
  the runs of such a file (`TASK_BREAKDOWN.md:443`); events in the channel are
  lost at shutdown (`FULL_SPEC.md:678-681`); a failed write leaves its line
  counted in `buffer_bytes` (`306-311`) and a piece that garbles the next line; a
  tear between a line and its newline (`306-307`) leaves an event that can be
  read until the next append garbles both; one such line makes the default
  replay refuse the whole file (`src/persistence/replay.rs:209-214`);
  two rotations within a millisecond overwrite a file (`112`, `379`);
- the answer of the startup cancel-all may list orders as not canceled, and
  nobody looks (`src/main.rs:188`, `TODO.md:54` "Startup cancel-all
  fail-closed"); after the cancel-all of the shutdown, or of the heartbeat
  supervisor, the tasks go on posting until the process is gone
  (`05_RISK_AND_FAILURE_MODES.md:110-111`, `FULL_SPEC.md:673-677`); a post of an
  earlier process that lands after startup has looked stays unknown until a
  resync; with `startup_cancel_all` off (it is on by default), orders of markets
  that startup does not look at, older ones or those Gamma does not return
  (`src/reconciliation.rs:83-98`), are neither taken over nor canceled, and
  trading starts;
- a completion whose cancel sweep fails is sent all the same
  (`src/execution/completion.rs:138`); its rate limit compares the stamps of
  commands (`100`), so a backlog goes out back to back;
- an order seed is skipped while StateManager mirrors any live order
  (`src/state/state_manager.rs:952`), and order updates for it are dropped when
  its channel is full (`om:2145`): the exposure of a market may keep orders that
  are gone;
- a resync that finds no open order sends no seed (`src/reconciliation.rs:287`),
  so what died while the websocket was down stays cached until a cancel of it
  is refused for good; a cancel call that errs ends its stage, and its command,
  even a stop, waits for the next one (`om:1420`); no REST call has a timeout
  (`om:1462`, `src/clients/clob_rest.rs:772`).

## 4. Theorems

Every theorem holds for every value of the constants that satisfies the named
assumptions of its module (numbers of markets, orders, tokens, levels,
sessions, commands and retries, capacities, limits, and every set of faults);
what it assumes beyond them is in its statement, and below.

| theorem | states | assumes |
|---|---|---|
| *OrderManager* | | |
| `TypeCorrect` | `Spec => []TypeOK` | |
| `OneStagePerCommand` | `Spec => []BusyMeansOneStage` | |
| `InvariantHolds` | `Spec => []Inductive` | |
| `IndexIsInverse` | `Spec => []CacheConsistent` | |
| `CancelsAreAimed` | `Spec => []CancelsHitOwnOrder` | |
| `PostsLandFree` | `Spec => []PostsLandOnFreeKeys` | |
| `OnlyDeadOrdersAreForgotten` | `Spec => ForgetsOnlyDeadOrders` | |
| `EveryOrderIsAccounted` | `Spec => []NoOrphanedOrder` | `Accountable` |
| `NeverDoublePosted` | `Spec => []OneOrderPerKey` | `Accountable` |
| *QuotePipeline* | | |
| `QuotePipelineTyped` | `Spec => []TypeOK` | |
| `SnapshotsSound` | `Spec => []SnapshotsAreSound` | |
| `QuotesAreOpen` | `Spec => []OnlyOpenMarketsAreQuoted` | |
| *Quoting* | | |
| `QuotingInvariant` | `QuotingSpec => [](QuotingTyped /\ CommandSafe /\ ClimbKept)` | |
| `PairsFitTheTarget` | `QuotingSpec => []CombinedCapHolds` | |
| `BidsOffTheAsk` | `QuotingSpec => []BidsStayOffTheAsk` | |
| `RepairsPay` | `QuotingSpec => []RepairPays` | |
| `PairedOrRepaired` | `QuotingSpec => []PairedOrRepair` | |
| `ClimbBounded` | `QuotingSpec => ClimbIsBounded` | in the property: caps that fit the target together |
| *InventoryLedger* | | |
| `LedgerTyped` | `Spec => []TypeOK` | |
| `NothingFillsTwice` | `Spec => []NoFillTwice` | |
| `InventoryFollowsTheAccount` | `Spec => []InventoryIsExact` | `Replays` |
| *MarketFeed* | | |
| `FeedTyped` | `Spec => []TypeOK` | |
| `SubscriptionsAlwaysFollow` | `Spec => []SubscriptionsFollow` | |
| `IdentitiesStayCurrent` | `Spec => []IdentitiesAreCurrent` | |
| *Settlement* | | |
| `SettlementTyped` | `Spec => []TypeOK` | |
| `MarketsStayOnTheChain` | `Spec => []MarketsFollowTheChain` | |
| `OperationsStayBudgeted` | `Spec => []OperationsAreBudgeted` | `MaxLag <= Minute` |
| *EventLog* | | |
| `LogTyped` | `Spec => []TypeOK` | |
| `BufferStaysBounded` | `Spec => []BufferBytesCoverBuffer` | `MaxEvents >= 1` |
| `LinesStayInOrder` | `Spec => []InOrder` | |
| `LogIsImplemented` | `Spec => ImplementsRecordLog` | |
| `LossesCounted` | `Spec => []LossesAreCounted` | |
| *Lifecycle* | | |
| `LifecycleTyped` | `Spec => []TypeOK` | |
| `RestartIsSafe` | `Spec => []StartKnowsWhatRests` | in the property: orders that landed late, that the exchange kept, or, without `startup_cancel_all`, of markets startup did not look at |
| `SupervisorIsFirst` | `Spec => []SupervisorActsFirst` | |

The hypotheses in the last column are not for the prover's sake: without them
TLC finds the property violated. Two are part of the property's own statement.

- The caps of `ClimbIsBounded` and the exceptions of `StartKnowsWhatRests` are
  what the code does without them: section 3.

- `Accountable` says that nobody reseeds the cache, that a post call that errs
  has placed nothing, and that the cancels that undo a partial batch succeed.
  Section 3 names the lines that lose or double an order otherwise (`om:470`,
  `om:1484`).
- `Replays`: the exchange repeats the open orders to a new session. If it does
  not, the first message of an order may be a fill, and the FillTracker takes it
  for the baseline. `src/` does not say which it is.
- `MaxLag <= Minute`: a tick waits for the inventory loop no longer than a
  minute. An operation is stamped with the time of the tick that led to it
  (`src/inventory/engine.rs:214-251`), so an older one may be pruned as it is entered.
- `MaxEvents >= 1`: `buffer_max_events` = 0 is a legal value
  (`src/persistence/runtime.rs:19` provides for it), and `push_line` then keeps
  one line all the same (`src/persistence/event_log.rs:275`).

### Arguments

**OrderManager.** None of the safety properties is inductive alone.
`CacheConsistent` needs that an accepted order is new to the index
(`AnswersAreNew`) and lands on a free key (`PostsLandOnFreeKeys`); that needs
that a stage's posts have distinct keys and were planned on keys the cache did
not hold (`PostsAreDistinct`), and that nothing but the stage fills a key while
it runs, which is what one stage per generation (`BusyMeansOneStage`,
`SlotPhase`) and the dropping of stale messages give. `ForgetsOnlyDeadOrders`
further needs that what the exchange reports is true (`BookSound`,
`UpdatesAreTrue`, `OrdersAreTrue`). `Inductive` is the conjunction.
`NoOrphanedOrder` adds `Accounting`: while nothing moves the slot on, no stage
and no message is of another generation (`NothingStale`), so every answer is
entered, and an order rests under the key it was posted for (`HomeKeys`).
`OneOrderPerKey` follows without an induction of its own: two orders of one key
would both be accounted for, and a key is in at most one of cache, answer and
revert.

`OrderManagerProofs` takes them in that order: the plans of a diff, types, slot
and generations, exchange and messages, cache and in-flight work, accounting.

**QuotePipeline.** `SnapshotsAreSound` is the inductive invariant: the halt
mirrors the last geoblock answer, hence what the gate enables is open, and no
channel separates `quoting_enabled` from the verdict it was computed with; zero
caps exclude the snapshots that were never judged. It is the first part of
`StrategyProofs`; the second is about a pass.

**Quoting.** The five claims are of the command that leaves a pass, and every
stage may undo what an earlier one established, so the argument goes stage by
stage. `BuildDesired` establishes all of it: the rounds of `enforce_combined_cap`
end below the target, because each takes a thousandth or more and there are as
many as are needed (`CapFits`); the levels of a ladder are no dearer than its
top; the top is off the ask and within the limiter's allowance (`ClampLowers`).
Each later stage has a lemma that says which orders are left and what became of
their prices: with a gap, `AdjustForInventory` drops the bids of the excess token, so
the new prices of `RepairPricing`, which pay and stay off the ask, have no pair
to spoil;
`RewardHints` raises at most one bid of each token, checks the pair again with
the price the other one has by then, and has no pair to raise while there is a
gap; `MarketBudget` and `FinalSafety` only drop orders, and the last of them
looks at the pairing again, which is why `PairedOrRepair` survives a budget that
prunes one token away. `DecidedSafe` puts them together, and `CommandSafe` is
what all five claims follow from.

`RepairPays` rests on a fact about the fee that no line of the code states:
`max_taker_price` finds a price at which a pair just pays, and every price below
it is used as if it paid too. Fees fall above one half, so that needs
`CostGrows`: when the price falls by `d` thousandths, the rounded fee rises by at
most `d`. From one pass to the next only the limiter matters: its entries are
typed, whatever was seen was seen at or before `now` (`QuotingTyped`), and as long
as nothing is repaired, no reward is chased and the caps fit the target, a bid
that a pass sends is the price the limiter keeps, rounded to a tick
(`ClimbKept`): the combined cap has no round to go (`CapFits`). That is the
induction that `ClimbIsBounded` needs.

`Market` leaves books, inventories, caps and scores independent of each other, so
the theorems hold of more snapshots than StateManager can send. They are about
exact arithmetic: what `f64` loses within the code's tolerances of 1e-12 is
outside, and so are ticks finer than a tenth of a cent.

**InventoryLedger, fills.** `NoFillTwice` alone says nothing of what is on its
way. The invariant `Counted` adds that every message of the session is true and
no older than the fills already counted (`MessagesAreNews`), that the messages
about one order come in the order of its matches (`MessagesAreOrdered`), and
that the tracker is never behind the fills (`TrackerCoversFills`): hence
whichever message is first may set the baseline.

**InventoryLedger, exactness.** `InventoryIsExact` only speaks of settled
states; the invariant speaks of all of them, by saying what the inventory *will*
be. `Booked` is the fold of the events under way over the inventory, `Ahead`
the fold of the messages under way over the tracker, `Untold` the merge that is
mined and not yet told, and from a clean seed on

    Booked(t) + Ahead(t).gain = held[t] + Untold        (Balanced)

A match changes both sides at once, because the tracker that has read all
messages knows what was matched before (`TrackersCatchUp`, where the repeated
orders of `Replays` are needed); reading moves shares from the second term to
the first; a merge goes from `Untold` into the events. A seed is exact because
in a session without matches no message is a fill (`QuietSession`), and it is
not ignored in favour of an older one because stamps follow connects
(`StampsFollowConnects`, `SeedIsNewest`): what is ignored before it, it makes
irrelevant (`SeedForgets`). A loss that has to be clamped would leave the
account below zero, unless something else is under way, which is what `blurred`
records.

**MarketFeed.** Both properties say what a reader will have once it has read its
channel, and are inductive in that form. `SubscriptionsFollow` is, as it stands;
`IdentitiesAreCurrent` needs that the tick sizes, which are sent once per
market, are there or on their way (`SeededOnce`), and that a market that left
the window of the clock never comes back (`Polled`).

**Settlement.** `ChainFollowed` adds to the inventory what the events under way
will make of it, and the one transaction that is mined and not reported; a
redeem is only of a resolved market (`RedeemsAreResolved`), which no fill
follows. `OperationsAreBudgeted` needs that the stamps that are kept are those
that count (`Aligned`), at a distance of at most `MaxLag`.

**EventLog.** `BufferBytesCoverBuffer` is inductive with the types. It rests on
the sum of bytes over a sequence (`BytesConcat`, `BytesCut`) and on eviction
stopping at the first count that fits (`EvictedEnough`).

The refinement needs to know what a replay returns, which orders the lines of
each file by their keys. `InOrder` makes that simple: the lines of each file,
the lines of the buffer, and the current file with the buffer behind it are
numbered upwards, because a run never gives a number twice (`Newest`) and a run
has a number that no file has yet. So the order by number, of a file of one run,
and the order of the file agree, and a replay returns the lines that parse
(`EventsAreKept`), one file after the other (`StoredConcat`). Appending to a
torn file costs the last event that is stored, if only its newline is missing,
and the first line that is appended (`AppendAdds`). What is left of
each action is a cut of a sequence: evicting, pruning or replacing leaves a part
out (`CutAdds`), a write moves a first part from what waits to what is stored
(`StoreStep`, also when some of it is lost on the way). Nothing is assumed
beyond `LogAssumption`.

`LossesAreCounted` compares the numbers between the oldest and the newest line of
a run, but what is lost next lies behind the newest line. So the invariant
`Accounted` counts to the last number that was given: behind every number that
a line has, no more are missing than `dropped` says (`DropsCover`). A line that
is lost without being counted must then be older than every line that is left:
pruning takes the oldest file unless a removal failed (`scan = 1`), and the lines
that an append joins are the last of one run and the first of the next
(`TearsAreOld`). That no two
lines have the same number is the order of `AllLines`, over all files and the
buffer.

**Lifecycle.** `LifecycleAssumption` repeats `HeartbeatsConfig::validate` and
adds that the exchange is at least as patient as the grace time with an interval
and a call, and the grace time with two calls: what the supervisor may take in
the worst case. `StartKnowsWhatRests` needs its counterparts in the phases
before trading (what rests of earlier processes is seeded, asked to be canceled,
where startup did not look, or late). `SupervisorActsFirst` is about the decision
to give up; the cancel-all that follows is best effort in the code, so `GiveUp`
may leave any order, and what becomes of those is the question of
`NothingOutlivesTheProcess`. `SupervisorActsFirst` needs the bounds that relate the silence the
exchange sees to the clocks of the supervisor: the silence is at most the age of
the last good heartbeat while it waits, plus that of the call it makes, and that
age is within the grace time whenever a call has returned and the supervisor has
not given up.

**Folds.** Channels are sequences, and what a channel will do is a fold, which
the library defines by recursion. `FoldTheorems` proves its laws for an
operator that is a constant of the module (`FoldHasRun`: a fold is the last
value of a run that takes one element at a time), from the well-foundedness of
the natural numbers: a claim about all prefixes is proved by contradiction at
the shortest one it fails for. The other modules instantiate it with their
operators (`Posted`, `HeardOf`, `EventOp`, `SizeOp`, `StoreOp` and so on).

### What is only model-checked

- No invariant or action property of a passing run: each has its theorem.
- Everything temporal under fairness, which is out of the prover's reach:
  `StopEmptiesBook`, `PendingGetsItsTurn`, `BlockedMarketsAreStopped`,
  `OpenMarketsAreOffered`, `FeedSettles`, `ClosureIsLearned`,
  `ResolvedMarketsSettle`, `DesyncIsCaught`, `AcceptedEventsLeave`,
  `NothingOutlivesTheProcess`, `HeartbeatLossEndsTrading`.
- The runs that expect violations.

## 5. Not modelled, and what could come next

Not modelled, with the reason:

- RTDS websocket: a feed without state others depend on; its freshness is an
  input of `QuotePipeline`.
- Parsing, signing, HTTP, the fee-rate cache, transaction building, metrics and
  HTTP servers: input and output, no control.
- Alpha: floating-point filters; their answers are inputs of `Quoting` and
  their staleness gates are in `QuotePipeline`.
- The order mirror of StateManager, markout and pair-protection cooldowns:
  they feed scoring, exposure and cooling, which are choices of the models.
- The scoring feedback of the reward engine: what makes a hint wanted is a choice.
- The cancel sweep and rate limit of the completion executor: a sequence of two
  calls and a comparison, whose faults are visible in the code (section 3).
- The stress runner of replay and `edge_stats`: offline tools.

Next: the books that a market websocket session builds from its updates; the
order mirror with the scoring of rewards; an
abstract ledger of intents that OrderManager refines.
