--------------------------- MODULE QuotePipeline ---------------------------
(***************************************************************************)
(* From the events StateManager applies to the commands OrderManager gets: *)
(*                                                                         *)
(*   StateManager --raw--> fan-out --strategy--> StrategyEngine --exec-->  *)
(*   OrderManager,   and   StrategyEngine --completions--> executor.       *)
(*                                                                         *)
(* StateManager keeps a state per tracked market and decides, on a timer   *)
(* tick only, whether the market may be quoted.  It sends a clone of the   *)
(* state (a quote tick) on every timer tick, and between them when a book  *)
(* breaks or a fill arrives.  Ticks are dropped by full channels and by   *)
(* the strategy, which handles the newest tick of its backlog and forgets  *)
(* the others.  Time is abstracted to what the code compares with it: the  *)
(* cutoff of a market has passed, a feed is stale.                         *)
(***************************************************************************)
EXTENDS Naturals, Sequences, SequencesExt

CONSTANTS
  Markets,        \* slugs
  RawCap,         \* capacity of tx_quote_raw (64)
  StrategyCap,    \* capacity of tx_quote_strategy
  ExecCap,        \* capacity of tx_exec (256)
  CompletionCap,  \* capacity of tx_completion (256)
  MaxBreaks       \* bound: how often a condition of quoting breaks

ASSUME BoundsAssumption ==
  /\ RawCap \in Nat \ {0} /\ StrategyCap \in Nat \ {0}
  /\ ExecCap \in Nat \ {0} /\ CompletionCap \in Nat \ {0}
  /\ MaxBreaks \in Nat

None == [untracked |-> TRUE]

VARIABLES
  markets,      \* StateManager.markets
  halted,       \* HealthState.halt_reason is set
  userFresh,    \* a user websocket heartbeat is recent
  outbox,       \* quote ticks the running handler has still to send
  raw,          \* channel to the fan-out task
  strategy,     \* channel to the strategy
  hand,         \* what the strategy is sending
  exec,         \* channel to OrderManager
  completions,  \* number of commands in the channel to the executor
  asked,        \* does OrderManager's last command of a market hold orders?
  geo,          \* the last answer of the geoblock service
  late,         \* markets whose cutoff has passed
  breaks       \* conditions broken so far (bounded by MaxBreaks)

worldVars == <<geo, late, breaks>>
stateVars == <<markets, halted, userFresh>>
pipeVars  == <<raw, strategy, hand, exec, completions, asked>>
vars      == <<stateVars, outbox, pipeVars, worldVars>>

Verdicts == {"none", "open", "shut"}

\* What the gate and the strategy read of a MarketState.  `verdict` is a history
\* field: what the conditions were when the market was last judged, "none"
\* before alpha has set the price caps.
MarketState ==
  [tradable : BOOLEAN,  \* identity: active, accepting orders and not closed
   feeds   : BOOLEAN,   \* Chainlink fresh and a book not stale
   exposed : BOOLEAN,   \* market_exposure_usdc over the cap
   enabled : BOOLEAN,   \* quoting_enabled
   verdict : Verdicts]

Tick    == [slug : Markets, enabled : BOOLEAN, verdict : Verdicts, late : BOOLEAN]
Command == [slug : Markets, quotes : BOOLEAN]
Hand    == [tick : Tick, quotes : BOOLEAN, complete : BOOLEAN, at : {"exec", "completion"}]

TypeOK ==
  /\ markets \in [Markets -> MarketState \cup {None}]
  /\ halted \in BOOLEAN /\ userFresh \in BOOLEAN
  /\ outbox \subseteq Tick
  /\ raw \in Seq(Tick) /\ Len(raw) <= RawCap
  /\ strategy \in Seq(Tick) /\ Len(strategy) <= StrategyCap
  /\ hand \in Hand \cup {None}
  /\ exec \in Seq(Command) /\ Len(exec) <= ExecCap
  /\ completions \in 0..CompletionCap
  /\ asked \in [Markets -> BOOLEAN]
  /\ geo \in {"allowed", "blocked", "unknown"}
  /\ late \subseteq Markets
  /\ breaks \in 0..MaxBreaks

Tracked == {m \in Markets : markets[m] # None}

Init ==
  /\ markets = [m \in Markets |-> None]
  /\ halted = FALSE /\ userFresh = FALSE
  /\ outbox = {} /\ raw = <<>> /\ strategy = <<>> /\ hand = None
  /\ exec = <<>> /\ completions = 0
  /\ asked = [m \in Markets |-> FALSE]
  /\ geo = "allowed" /\ late = {} /\ breaks = 0

-----------------------------------------------------------------------------
(* StateManager::run takes an event when the handler of the last one is done. *)

Idle == outbox = {}

\* A condition of quoting turns bad (bounded) or good.
Turns(bad) ==
  /\ bad => breaks < MaxBreaks
  /\ breaks' = IF bad THEN breaks + 1 ELSE breaks

TickOf(m, s) ==
  [slug |-> m, enabled |-> s.enabled, verdict |-> s.verdict, late |-> m \in late]

\* The send of maybe_emit_market_quote_tick and maybe_emit_fill_quote_tick:
\* less than 25 ms after the last tick of its kind nothing is sent, and a
\* full channel drops the tick.
MaybeEmit(tick) ==
  \/ raw' = raw
  \/ Len(raw) < RawCap /\ raw' = Append(raw, tick)

\* MarketState::new quotes until a timer tick says otherwise.
NewMarket(tradable) ==
  [tradable |-> tradable, feeds |-> FALSE, exposed |-> FALSE,
   enabled |-> TRUE, verdict |-> "none"]

\* MarketDiscovered: the identity of a market, new or known.
MarketDiscovered(m, tradable) ==
  /\ Idle /\ Turns(~tradable)
  /\ \/ markets[m] = None /\ markets' = [markets EXCEPT ![m] = NewMarket(tradable)]
     \/ /\ markets[m] # None /\ markets[m].tradable # tradable
        /\ markets' = [markets EXCEPT ![m].tradable = tradable]
  /\ UNCHANGED <<halted, userFresh, outbox, pipeVars, geo, late>>

\* SetTrackedMarkets drops a market after the end of its interval, hence
\* after its cutoff.
SetTrackedMarkets(m) ==
  /\ Idle
  /\ markets[m] # None /\ m \in late
  /\ markets' = [markets EXCEPT ![m] = None]
  /\ UNCHANGED <<halted, userFresh, outbox, pipeVars, worldVars>>

\* MarketWsUpdate: a changed book is a tick unless throttled.
MarketWsUpdate(m) ==
  /\ Idle /\ markets[m] # None
  /\ MaybeEmit(TickOf(m, markets[m]))
  /\ UNCHANGED <<stateVars, outbox, strategy, hand, exec, completions, asked, worldVars>>

\* Fill: the inventory, hence the exposure, may change; a tick unless throttled.
UserWsFill(m, exposed) ==
  /\ Idle /\ Turns(exposed) /\ markets[m] # None
  /\ markets' = [markets EXCEPT ![m].exposed = exposed]
  /\ MaybeEmit(TickOf(m, markets'[m]))
  /\ UNCHANGED <<halted, userFresh, outbox, strategy, hand, exec, completions, asked, geo, late>>

\* OrderUpdate, SeedOrders, SeedInventory, OnchainMerge, OnchainRedeem: the
\* exposure may change, nothing is sent.
ExposureEvent(m, exposed) ==
  /\ Idle /\ Turns(exposed) /\ markets[m] # None /\ markets[m].exposed # exposed
  /\ markets' = [markets EXCEPT ![m].exposed = exposed]
  /\ UNCHANGED <<halted, userFresh, outbox, pipeVars, geo, late>>

\* RTDSUpdate and the books make a market's feeds fresh; silence ages them.
FeedEvent(m, fresh) ==
  /\ Idle /\ Turns(~fresh) /\ markets[m] # None /\ markets[m].feeds # fresh
  /\ markets' = [markets EXCEPT ![m].feeds = fresh]
  /\ UNCHANGED <<halted, userFresh, outbox, pipeVars, geo, late>>

UserWsHeartbeat(fresh) ==
  /\ Idle /\ Turns(~fresh) /\ userFresh # fresh
  /\ userFresh' = fresh
  /\ UNCHANGED <<markets, halted, outbox, pipeVars, geo, late>>

\* Mutant: an answer that failed to arrive does not halt.
UnknownIgnored(answer) ==
  /\ Idle /\ Turns(answer # "allowed") /\ geo # answer
  /\ geo' = answer
  /\ halted' = IF answer = "unknown" THEN halted ELSE answer = "blocked"
  /\ UNCHANGED <<markets, userFresh, outbox, pipeVars, late>>

\* Mutant: a halt is never lifted.
HaltStays(answer) ==
  /\ Idle /\ Turns(answer # "allowed") /\ geo # answer
  /\ geo' = answer
  /\ halted' = (halted \/ answer # "allowed")
  /\ UNCHANGED <<markets, userFresh, outbox, pipeVars, late>>

\* apply_geoblock_status: only a negative answer lifts the halt.
GeoblockStatus(answer) ==
  /\ Idle /\ Turns(answer # "allowed") /\ geo # answer
  /\ geo' = answer
  /\ halted' = (answer # "allowed")
  /\ UNCHANGED <<markets, userFresh, outbox, pipeVars, late>>

CutoffPasses(m) ==
  /\ m \notin late
  /\ late' = late \cup {m}
  /\ UNCHANGED <<stateVars, outbox, pipeVars, geo, breaks>>

\* The gate of a timer tick: `quoting_enabled` of the code.
Gate(m) ==
  /\ m \notin late /\ markets[m].feeds
  /\ ~halted /\ userFresh
  /\ markets[m].tradable
  /\ ~markets[m].exposed

\* What has to hold for a market to be quoted, said of the world.
Open(m) ==
  /\ markets[m] # None /\ m \notin late /\ markets[m].feeds /\ geo = "allowed"
  /\ userFresh /\ markets[m].tradable /\ ~markets[m].exposed

Verdict(m) == IF Open(m) THEN "open" ELSE "shut"

Judged(m) == [markets[m] EXCEPT !.enabled = Gate(m), !.verdict = Verdict(m)]

\* TimerTick judges every market, then sends a tick of each.
TimerTick ==
  /\ Idle /\ Tracked # {}
  /\ markets' = [m \in Markets |-> IF m \in Tracked THEN Judged(m) ELSE None]
  /\ outbox' = {TickOf(m, markets'[m]) : m \in Tracked}
  /\ UNCHANGED <<halted, userFresh, pipeVars, worldVars>>

\* Mutant: the tick is sent without looking for room.
EmitAnyway(tick) ==
  /\ outbox' = outbox \ {tick}
  /\ raw' = Append(raw, tick)
  /\ UNCHANGED <<stateVars, strategy, hand, exec, completions, asked, worldVars>>

\* The loop over the markets sends in the order of the map, whatever it is.
EmitTick(tick) ==
  /\ outbox' = outbox \ {tick}
  /\ raw' = IF Len(raw) < RawCap THEN Append(raw, tick) ELSE raw
  /\ UNCHANGED <<stateVars, strategy, hand, exec, completions, asked, worldVars>>

-----------------------------------------------------------------------------
(* The tasks behind the channels.                                          *)

FanOut ==
  /\ raw # <<>>
  /\ raw' = Tail(raw)
  /\ strategy' = IF Len(strategy) < StrategyCap THEN Append(strategy, Head(raw)) ELSE strategy
  /\ UNCHANGED <<stateVars, outbox, hand, exec, completions, asked, worldVars>>

\* Mutant: the caps of a new market are not zero.
MayQuoteUnjudged(tick) == tick.enabled /\ ~tick.late

\* build_desired_orders: only before the cutoff, and not before alpha has
\* set the caps, which are zero in a new market.
MayQuote(tick) == tick.enabled /\ ~tick.late /\ tick.verdict # "none"

\* StrategyEngine takes the newest tick of the backlog.  Of a tick that may be
\* quoted the pricing makes orders or none; inventory may call for a taker
\* completion instead.
StrategyTake ==
  /\ hand = None /\ strategy # <<>>
  /\ strategy' = <<>>
  /\ LET tick == Last(strategy)
     IN  \E quotes, complete \in BOOLEAN :
           /\ quotes => MayQuote(tick) /\ ~complete
           /\ complete => tick.enabled
           /\ hand' = [tick |-> tick, quotes |-> quotes, complete |-> complete, at |-> "exec"]
  /\ UNCHANGED <<stateVars, outbox, raw, exec, completions, asked, worldVars>>

\* The command goes first; send waits for room.
StrategySend ==
  /\ hand # None /\ hand.at = "exec" /\ Len(exec) < ExecCap
  /\ exec' = Append(exec, [slug |-> hand.tick.slug, quotes |-> hand.quotes])
  /\ hand' = IF hand.complete THEN [hand EXCEPT !.at = "completion"] ELSE None
  /\ UNCHANGED <<stateVars, outbox, raw, strategy, completions, asked, worldVars>>

StrategyComplete ==
  /\ hand # None /\ hand.at = "completion" /\ completions < CompletionCap
  /\ completions' = completions + 1
  /\ hand' = None
  /\ UNCHANGED <<stateVars, outbox, raw, strategy, exec, asked, worldVars>>

\* OrderManager::run takes the command (its handler is module OrderManager).
ExecReceive ==
  /\ exec # <<>>
  /\ exec' = Tail(exec)
  /\ asked' = [asked EXCEPT ![Head(exec).slug] = Head(exec).quotes]
  /\ UNCHANGED <<stateVars, outbox, raw, strategy, hand, completions, worldVars>>

\* CompletionExecutor::run takes a command when the last one is answered.
CompletionReceive ==
  /\ completions # 0
  /\ completions' = completions - 1
  /\ UNCHANGED <<stateVars, outbox, raw, strategy, hand, exec, asked, worldVars>>

-----------------------------------------------------------------------------
World ==
  \/ \E m \in Markets :
       \/ \E tradable \in BOOLEAN : MarketDiscovered(m, tradable)
       \/ SetTrackedMarkets(m)
       \/ MarketWsUpdate(m)
       \/ \E exposed \in BOOLEAN : UserWsFill(m, exposed) \/ ExposureEvent(m, exposed)
       \/ \E fresh \in BOOLEAN : FeedEvent(m, fresh)
       \/ CutoffPasses(m)
  \/ \E fresh \in BOOLEAN : UserWsHeartbeat(fresh)
  \/ \E answer \in {"allowed", "blocked", "unknown"} : GeoblockStatus(answer)

Emit == \E tick \in outbox : EmitTick(tick)

Tasks ==
  \/ TimerTick \/ Emit \/ FanOut
  \/ StrategyTake \/ StrategySend \/ StrategyComplete
  \/ ExecReceive \/ CompletionReceive

Next == World \/ Tasks

Spec == Init /\ [][Next]_vars

\* Every task runs while it has work; the timer of the main loop never stops.
Fairness ==
  /\ WF_vars(TimerTick) /\ WF_vars(Emit) /\ WF_vars(FanOut)
  /\ WF_vars(StrategyTake) /\ WF_vars(StrategySend) /\ WF_vars(StrategyComplete)
  /\ WF_vars(ExecReceive) /\ WF_vars(CompletionReceive)

LiveSpec == Spec /\ Fairness

-----------------------------------------------------------------------------
(***************************************************************************)
(* Orders are only ever asked for on a snapshot of a market that a timer   *)
(* tick had judged open: a new market quotes by default (MarketState::new) *)
(* and ticks before its first judgement, in any order with the halts, and  *)
(* only its zero price caps keep the strategy from asking for orders.      *)
(***************************************************************************)
OnlyOpenMarketsAreQuoted ==
  hand # None /\ hand.quotes => hand.tick.verdict = "open" /\ ~hand.tick.late

(***************************************************************************)
(* Why it holds (the inductive invariant of the proof): the halt mirrors   *)
(* the last geoblock answer, so that whatever a timer tick enables is open *)
(* at that moment, and every snapshot on its way keeps the pair.           *)
(***************************************************************************)
Sound(snapshot) == snapshot.enabled => snapshot.verdict # "shut"

SnapshotsAreSound ==
  /\ halted <=> geo # "allowed"
  /\ \A m \in Tracked : Sound(markets[m])
  /\ \A tick \in outbox : Sound(tick)
  /\ \A n \in 1..Len(raw) : Sound(raw[n])
  /\ \A n \in 1..Len(strategy) : Sound(strategy[n])
  /\ hand # None => Sound(hand.tick) /\ (hand.quotes => MayQuote(hand.tick))

(***************************************************************************)
(* A market that stays blocked, for whatever reasons in turn, ends with    *)
(* OrderManager asked for none of its orders: neither the ticks that full  *)
(* channels drop nor those on the way from before leave it quoting.        *)
(***************************************************************************)
BlockedMarketsAreStopped ==
  \A m \in Markets : <>[](markets[m] # None /\ ~Open(m)) => <>[]~asked[m]

(***************************************************************************)
(* A market that stays open is offered to the strategy again and again,    *)
(* however it was halted, stale, exposed or closed before.                 *)
(***************************************************************************)
Offered(m) == hand # None /\ hand.tick.slug = m /\ MayQuote(hand.tick)
OpenMarketsAreOffered ==
  \A m \in Markets : <>[]Open(m) => []<>Offered(m)
=============================================================================
