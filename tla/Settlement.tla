----------------------------- MODULE Settlement -----------------------------
(***************************************************************************)
(* From shares back to collateral, and the watchdog beside it.             *)
(*                                                                         *)
(*   StateManager --ticks--> InventoryLoop --requests--> on-chain worker   *)
(*        ^     \                                             |            *)
(*        |      `--ticks--> DesyncWatchdog <--positions-- chain           *)
(*        `-------------------- events <----------------------'            *)
(*                                                                         *)
(* InventoryLedger follows the fills and merges of one market; here are    *)
(* several markets that close, resolve and leave StateManager, the budget  *)
(* of operations they share, redeems, and what the watchdog makes of it.   *)
(* A share here is a batch of merge.batch_sets.  Time is kept as ages that *)
(* stop growing where nothing reads them any more; its unit is some ten    *)
(* seconds, in which StateManager empties its channel and a tick of every  *)
(* tracked market gets through (they come five times a second).            *)
(***************************************************************************)
EXTENDS Integers, Sequences, FiniteSets, SequencesExt

CONSTANTS
  Markets,      \* the markets, by condition id
  Start,        \* what the account holds of each market at the start
  MinSets,      \* merge.min_sets, in batches
  Interval,     \* merge.interval_s
  Minute,       \* the window of merge.max_ops_per_minute
  MaxOps,       \* merge.max_ops_per_minute
  QueueCap,     \* capacity of the worker's channel (256)
  Ttl,          \* READINESS_TTL_MS
  Hold,         \* desync_watchdog_mismatch_hold_s
  MaxLag,       \* bound: how long a tick waits for the inventory loop
  Buys,         \* bound: which tokens of which markets are bought
  Ending,       \* bound: the markets that end
  MaxFills,     \* bound: fills
  Faults,       \* kinds of failures that may happen
  MaxFaults     \* bound: failures of any kind

FaultKinds ==
  {"fill",      \* a fill never reaches StateManager
   "rpc",       \* a read of the chain errs
   "revert",    \* a transaction is not mined
   "report",    \* a transaction is mined, but its call errs or tx_events is full
   "dropped"}   \* a market leaves the tracked set

ASSUME SettlementAssumption ==
  /\ IsFiniteSet(Markets) /\ Start \in [Markets -> [up : Nat, down : Nat]]
  /\ MinSets \in Nat \ {0} /\ Interval \in Nat \ {0} /\ Minute \in Nat /\ MaxOps \in Nat \ {0}
  /\ QueueCap \in Nat \ {0} /\ Ttl \in Nat /\ Hold \in Nat
  /\ Buys \subseteq Markets \X {"up", "down"} /\ Ending \subseteq Markets
  /\ MaxLag \in Nat /\ MaxFills \in Nat /\ MaxFaults \in Nat
  /\ Faults \subseteq FaultKinds

VARIABLES
  chain,        \* what the account holds of each market
  stage,        \* of each market: "open", "closed" (and StateManager knows), "resolved"
  inv,          \* StateManager: inventory of the tracked markets
  tracked,      \* StateManager: its markets
  events,       \* tx_events
  latest,       \* the last tick of each market: latest of InventoryLoop, and with it
                \* last_full_sets, and latest of DesyncWatchdog
  gate,         \* InventoryEngine.readiness
  last, ops,    \* ages: last_merge_ms and last_redeem_ms, recent_ops
  queue, worker,\* the worker: its channel, the request it executes
  cache,        \* the worker's ReadinessCache, by kind of request
  since,        \* DesyncWatchdog: ages of mismatch_since
  fatal,        \* the watchdog has stopped the program
  fills, faults,\* counters of the bounds
  spent,        \* history: true ages of the operations requested
  lost          \* history: StateManager has missed something

money    == <<chain, stage, fills>>
state    == <<inv, tracked>>
engine   == <<latest, gate, last, ops, spent>>
onchain  == <<worker, cache>>
watchdog == <<since, fatal>>
failures == <<faults, lost>>
vars == <<money, state, events, engine, queue, onchain, watchdog, failures>>

Kinds == {"merge", "redeem"}
NoTick == [absent |-> TRUE]
Idle == [mined |-> FALSE]
Never == -1      \* an age that does not run
Yes == -2        \* an answer that is kept for good
LongAgo == Interval + MaxLag   \* an age no interval has to wait for
Empty == [up |-> 0, down |-> 0]
Held(h) == h.up + h.down > 0
FullSets(h) == IF h.up <= h.down THEN h.up ELSE h.down    \* mergeable_base_units
Minus(h, n) == [up |-> h.up - n, down |-> h.down - n]
MinusOrNone(h, n) ==          \* each side stops at 0
  [up |-> IF n >= h.up THEN 0 ELSE h.up - n, down |-> IF n >= h.down THEN 0 ELSE h.down - n]

Holding == [up : Nat, down : Nat]
Requests == [kind : Kinds, market : Markets, sets : Nat]
Event == [kind : {"fill"}, market : Markets, token : {"up", "down"}] \cup Requests
Tick == [inv : Holding, closed : BOOLEAN]

TypeOK ==
  /\ chain \in [Markets -> Holding] /\ inv \in [Markets -> Holding] /\ tracked \subseteq Markets
  /\ stage \in [Markets -> {"open", "closed", "resolved"}]
  /\ events \in Seq(Event)
  /\ latest \in [Markets -> Tick \cup {NoTick}]
  /\ gate \in [Markets -> [merge : BOOLEAN, redeem : BOOLEAN]]
  /\ last \in [Kinds -> [Markets -> Nat]] /\ ops \in Seq(Nat) /\ spent \in Seq(Nat)
  /\ queue \in Seq(Requests)
  /\ worker \in {Idle} \cup [kind : Kinds, market : Markets, sets : Nat, mined : BOOLEAN]
  /\ cache \in [Kinds -> [Markets -> Nat \cup {Yes}]]
  /\ since \in [Markets -> Nat \cup {Never}]
  /\ fatal \in BOOLEAN /\ lost \in BOOLEAN /\ fills \in Nat /\ faults \in Nat

\* A failure of that kind happens.
Hit(kind) ==
  /\ kind \in Faults /\ faults < MaxFaults
  /\ faults' = faults + 1 /\ lost' = (lost \/ kind \in {"fill", "report"})
-----------------------------------------------------------------------------
(* The account and StateManager *)

Fill(m, token) ==
  /\ stage[m] = "open" /\ fills < MaxFills
  /\ fills' = fills + 1
  /\ chain' = [chain EXCEPT ![m][token] = @ + 1]
  /\ \/ events' = Append(events, [kind |-> "fill", market |-> m, token |-> token])
        /\ UNCHANGED failures
     \/ Hit("fill") /\ UNCHANGED events
  /\ UNCHANGED <<stage, state, engine, queue, onchain, watchdog>>

\* A market ends: discovery reports it closed, then its condition is resolved on chain.
Ends(m) ==
  /\ m \in Ending
  /\ \/ stage[m] = "open" /\ stage' = [stage EXCEPT ![m] = "closed"]
     \/ stage[m] = "closed" /\ stage' = [stage EXCEPT ![m] = "resolved"]
  /\ UNCHANGED <<chain, fills, state, events, engine, queue, onchain, watchdog, failures>>

\* Mutant: a redeem clears one side.
AppliedToOneSide(h, event) ==
  CASE event.kind = "fill" -> [h EXCEPT ![event.token] = @ + 1]
    [] event.kind = "merge" -> MinusOrNone(h, event.sets)
    [] event.kind = "redeem" -> [h EXCEPT !.up = 0]

\* apply_buy_fill, apply_merge and apply_redeem.
Applied(h, event) ==
  CASE event.kind = "fill" -> [h EXCEPT ![event.token] = @ + 1]
    [] event.kind = "merge" -> MinusOrNone(h, event.sets)
    [] event.kind = "redeem" -> Empty

\* StateManager takes an event; a market it does not track is ignored.
Apply ==
  /\ events # <<>> /\ events' = Tail(events)
  /\ LET e == Head(events)
     IN  inv' = IF e.market \in tracked THEN [inv EXCEPT ![e.market] = Applied(@, e)] ELSE inv
  /\ UNCHANGED <<money, tracked, engine, queue, onchain, watchdog, failures>>

\* SetTrackedMarkets without m: the grace of discovery is over, whatever has become of m.
Drop(m) ==
  /\ m \in tracked \cap Ending /\ Hit("dropped")
  /\ tracked' = tracked \ {m} /\ inv' = [inv EXCEPT ![m] = Empty]
  /\ UNCHANGED <<money, events, engine, queue, onchain, watchdog>>
-----------------------------------------------------------------------------
(* InventoryEngine.  Its clock is lag behind when a waiting tick gives it.  *)

\* The ages from the first one that is within limit.
Recent(ages, limit) ==
  LET kept == {i \in DOMAIN ages : ages[i] <= limit}
  IN  IF kept = {} THEN <<>>
      ELSE SubSeq(ages, CHOOSE i \in kept : \A j \in kept : i <= j, Len(ages))

\* prune_ops: from the front, up to the first stamp inside the window.
PruneOps(stamps, lag) == Recent(stamps, Minute + lag)

\* Mutant: the interval of a market is kept, the budget of all is not.
MayActAfterInterval(age, stamps, lag) == age - lag >= Interval

\* can_merge, can_redeem.
MayAct(age, stamps, lag) ==
  /\ age - lag >= Interval
  /\ Len(stamps) < MaxOps

\* record_merge or record_redeem, and execute: the operation counts, and a request
\* that finds the channel full is dropped.
Request(e, kind, m, sets, lag) ==
  [last |-> [e.last EXCEPT ![kind][m] = lag], ops |-> Append(e.ops, lag),
   spent |-> Append(e.spent, 0),
   queue |-> IF Len(e.queue) = QueueCap THEN e.queue
             ELSE Append(e.queue, [kind |-> kind, market |-> m, sets |-> sets])]

\* A market in the first loop of tick: merge what is complete.
MergeOne(view, e, m) ==
  IF /\ view.seen[m] # NoTick /\ gate[m].merge /\ m \notin view.fast
     /\ FullSets(view.seen[m].inv) >= MinSets
     /\ MayAct(e.last["merge"][m], e.ops, view.lag)
  THEN Request(e, "merge", m, FullSets(view.seen[m].inv), view.lag) ELSE e

\* A market in the second loop: once it is closed, redeem what there is.
RedeemOne(view, e, m) ==
  IF /\ view.seen[m] # NoTick /\ gate[m].redeem
     /\ view.seen[m].closed /\ Held(view.seen[m].inv)
     /\ MayAct(e.last["redeem"][m], e.ops, view.lag)
  THEN Request(e, "redeem", m, 0, view.lag) ELSE e

\* tick: the markets in the order of the hash map, merges before redeems.
Decide(seen, order, fast, lag) ==
  LET view == [seen |-> seen, fast |-> fast, lag |-> lag]
      start == [last |-> last, ops |-> PruneOps(ops, lag), spent |-> spent, queue |-> queue]
      afterMerges == FoldLeft(LAMBDA e, m : MergeOne(view, e, m), start, order)
      end == FoldLeft(LAMBDA e, m : RedeemOne(view, e, m), afterMerges, order)
  IN  /\ last' = end.last /\ ops' = end.ops /\ spent' = end.spent /\ queue' = end.queue

\* A tick: both readers keep it.  Sets that came by a fill may be merged at once, by
\* the clock of the tick, which may have waited lag (stamps of fills are taken to grow,
\* so that growth is a new trade).
TakeTick(m, order, fast, lag) ==
  /\ m \in tracked
  /\ latest' = [latest EXCEPT ![m] = [inv |-> inv[m], closed |-> stage[m] # "open"]]
  /\ LET before == IF latest[m] = NoTick THEN 0 ELSE FullSets(latest[m].inv)
         sets == FullSets(inv[m])
     IN  IF sets > before /\ sets >= MinSets
         THEN Decide(latest', order, fast, lag)
         ELSE UNCHANGED <<last, ops, spent, queue>>
  /\ UNCHANGED <<money, state, events, gate, onchain, watchdog, failures>>

Known == {m \in Markets : latest[m] # NoTick}

\* The timer of the loop, by the clock of the machine.
IntervalTick(order, fast) ==
  /\ Known # {}
  /\ Decide(latest, order, fast, 0)
  /\ UNCHANGED <<money, state, events, latest, gate, onchain, watchdog, failures>>

\* Mutant: readiness that was refused once stays refused.
RefreshDownwards ==
  /\ Known # {}
  /\ gate' = [m \in Markets |-> IF m \in Known /\ Held(chain[m])
                                THEN [merge |-> gate[m].merge /\ FullSets(chain[m]) > 0,
                                      redeem |-> gate[m].redeem /\ stage[m] = "resolved"]
                                ELSE gate[m]]
  /\ UNCHANGED <<money, state, events, latest, last, ops, spent, queue, onchain,
                 watchdog, failures>>

\* refresh_readiness: the Data API lists the markets with a holding, the others keep
\* the readiness they had.
RefreshReadiness ==
  /\ Known # {}
  /\ gate' = [m \in Markets |-> IF m \in Known /\ Held(chain[m])
                                THEN [merge |-> FullSets(chain[m]) > 0,
                                      redeem |-> stage[m] = "resolved"]
                                ELSE gate[m]]
  /\ UNCHANGED <<money, state, events, latest, last, ops, spent, queue, onchain,
                 watchdog, failures>>
-----------------------------------------------------------------------------
(* The on-chain worker *)

\* cached_readiness: does the cache answer?  "Yes" for ever, "no" for a while.
Cached(answer) == answer < Ttl

\* condition_prepared and condition_resolved; every market listed is prepared.
OnChain(request) == request.kind = "merge" \/ stage[request.market] = "resolved"

\* The worker takes a request and asks whether the condition is ready for it.  A read
\* that errs is kept as "no".
TakeRequest ==
  /\ worker = Idle /\ queue # <<>> /\ queue' = Tail(queue)
  /\ LET r == Head(queue)
         answer == cache[r.kind][r.market]
         Proceed(yes) ==
           worker' = IF ~yes THEN Idle
                     ELSE [kind |-> r.kind, market |-> r.market, sets |-> r.sets, mined |-> FALSE]
         Keep(value) == cache' = [cache EXCEPT ![r.kind][r.market] = value]
     IN  IF Cached(answer)
         THEN Proceed(answer = Yes) /\ UNCHANGED <<cache, failures>>
         ELSE \/ /\ Proceed(OnChain(r)) /\ Keep(IF OnChain(r) THEN Yes ELSE 0)
                 /\ UNCHANGED failures
              \/ Proceed(FALSE) /\ Keep(0) /\ Hit("rpc")
  /\ UNCHANGED <<money, state, events, engine, watchdog>>

\* The transaction is mined.  A merge of more than there is reverts; a redeem burns
\* what there is.
Mine ==
  /\ worker # Idle /\ ~worker.mined
  /\ LET m == worker.market
     IN  /\ worker.kind = "merge" => worker.sets <= FullSets(chain[m])
         /\ chain' = [chain EXCEPT ![m] = IF worker.kind = "merge" THEN Minus(@, worker.sets)
                                          ELSE Empty]
  /\ worker' = [worker EXCEPT !.mined = TRUE]
  /\ UNCHANGED <<stage, fills, state, events, engine, queue, cache, watchdog, failures>>

\* The call returns and StateManager is told, unless the call errs although the
\* transaction was mined, or tx_events has no room.
Report ==
  /\ worker.mined /\ worker' = Idle
  /\ \/ /\ events' = Append(events, [kind |-> worker.kind, market |-> worker.market,
                                     sets |-> worker.sets])
        /\ UNCHANGED failures
     \/ Hit("report") /\ UNCHANGED events
  /\ UNCHANGED <<money, state, engine, queue, cache, watchdog>>

\* The call errs and nothing was mined.
CallFails ==
  /\ worker # Idle /\ ~worker.mined /\ worker' = Idle
  /\ \/ worker.kind = "merge" /\ worker.sets > FullSets(chain[worker.market]) /\ UNCHANGED failures
     \/ Hit("revert")
  /\ UNCHANGED <<money, state, events, engine, queue, cache, watchdog>>
-----------------------------------------------------------------------------
(* DesyncWatchdog *)

\* The markets whose last tick differs from the positions.
Mismatched == {m \in Known : latest[m].inv # chain[m]}

\* Mutant: every mismatch starts the hold timer.
SinceRestarted ==
  [m \in Markets |-> IF m \notin Known THEN since[m] ELSE IF m \in Mismatched THEN 0 ELSE Never]

\* check: the hold timer starts with a mismatch and is cleared by agreement.
SinceChecked ==
  [m \in Markets |-> IF m \notin Known \/ (m \in Mismatched /\ since[m] # Never) THEN since[m]
                     ELSE IF m \in Mismatched THEN 0 ELSE Never]

\* One round; it stops the program when a mismatch has lasted.  (The loop of check
\* stops at that market: it is the last round.)
Check ==
  /\ Known # {} /\ ~fatal
  /\ since' = SinceChecked
  /\ fatal' = \E m \in Mismatched : since'[m] >= Hold
  /\ UNCHANGED <<money, state, events, engine, queue, onchain, failures>>
-----------------------------------------------------------------------------
(* Time *)

\* What the budget of a minute covers in true time: a stamp is up to MaxLag too old.
Window == Minute - MaxLag

\* An age that stops at limit.
Older(age, limit) == IF age < 0 \/ age >= limit THEN age ELSE age + 1

Settled(m) == latest[m] = [inv |-> inv[m], closed |-> stage[m] # "open"]

Advance ==
  /\ events = <<>> /\ \A m \in tracked : Settled(m)
  /\ ~worker.mined    \* a receipt comes at once or not at all
  /\ last' = [k \in Kinds |-> [m \in Markets |-> Older(last[k][m], LongAgo)]]
  /\ cache' = [k \in Kinds |-> [m \in Markets |-> Older(cache[k][m], Ttl)]]
  /\ ops' = PruneOps([i \in DOMAIN ops |-> Older(ops[i], Minute + MaxLag + 1)], MaxLag)
  /\ spent' = Recent([i \in DOMAIN spent |-> spent[i] + 1], Window - 1)
  /\ since' = [m \in Markets |-> Older(since[m], Hold)]
  /\ UNCHANGED <<money, state, events, latest, gate, queue, worker, fatal, failures>>

Init ==
  /\ chain = Start /\ stage = [m \in Markets |-> "open"] /\ fills = 0
  /\ inv = chain /\ tracked = Markets    \* reconciliation seeds StateManager at startup
  /\ events = <<>> /\ queue = <<>> /\ worker = Idle
  /\ latest = [m \in Markets |-> NoTick]
  /\ gate = [m \in Markets |-> [merge |-> TRUE, redeem |-> TRUE]]
  /\ last = [k \in Kinds |-> [m \in Markets |-> LongAgo]]
  /\ cache = [k \in Kinds |-> [m \in Markets |-> Ttl]]
  /\ ops = <<>> /\ spent = <<>>
  /\ since = [m \in Markets |-> Never] /\ fatal = FALSE
  /\ faults = 0 /\ lost = FALSE

Orders == SetToSeqs(Markets)

LoopStep ==
  \E order \in Orders, fast \in SUBSET Markets :
    \/ IntervalTick(order, fast)
    \/ \E m \in Markets, lag \in 0..MaxLag : TakeTick(m, order, fast, lag)

WorkerStep == TakeRequest \/ Mine \/ Report \/ CallFails

\* The watchdog's trigger ends everything.
Next ==
  /\ ~fatal
  /\ \/ \E buy \in Buys : Fill(buy[1], buy[2])
     \/ \E m \in Markets : Ends(m) \/ Drop(m)
     \/ Apply \/ LoopStep \/ RefreshReadiness \/ WorkerStep \/ Check \/ Advance

Spec == Init /\ [][Next]_vars
=============================================================================
