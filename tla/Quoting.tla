------------------------------- MODULE Quoting -------------------------------
(***************************************************************************)
(* What the strategy engine makes of one snapshot of a market: a stop, a   *)
(* completion, or quotes that went through pricing, inventory rules,       *)
(* repair pricing, reward hints, the budget and the final safety net, each *)
(* of which changes what the one before it established.  The limiter of    *)
(* the level-0 price is what one pass leaves for the next.                 *)
(*                                                                         *)
(* Prices are thousandths of a dollar, sizes hundredths of a share, rates  *)
(* and scales percent; money is a price times a size.  The code's          *)
(* tolerances for floating point become exact comparisons.                 *)
(***************************************************************************)
EXTENDS Integers, Sequences, SequencesExt

CONSTANTS
  Configs,     \* configurations
  Snapshots,   \* markets of the first pass
  Books,       \* what a book may become before the next pass
  Delays,      \* milliseconds between passes
  MaxPasses    \* bound: passes

One     == 1000
Ceiling == 990          \* 0.99
NoPrice == -1           \* a side of a book is empty, alpha has not set a value
Tokens  == {"up", "down"}
Other(t) == IF t = "up" THEN "down" ELSE "up"

\* What this module reads of the configuration: the flags are read as such.
Numbers ==
  {"min_quote_price", "target_total_base", "target_total_min", "target_total_max",
   "max_usdc_exposure", "ladder_levels", "ladder_step_ticks", "ladder_levels_toxic",
   "ladder_step_ticks_toxic", "size_decay", "base_size_current", "base_size_next",
   "min_order_size", "base_improve_ticks", "max_improve_ticks", "min_ticks_from_ask",
   "maker_sell_trigger", "maker_sell_levels", "pair_max_levels", "pair_size_scale_min",
   "pair_extra_improve_ticks", "chase_max_up", "chase_max_up_repair", "skew_mild",
   "skew_moderate", "skew_severe", "max_unpaired_market", "max_unpaired_global",
   "emergency_window", "taker_window", "max_loss", "min_profit", "controlled_loss_skew"}

\* The numbers that the code keeps without a sign.
Unsigned ==
  {"ladder_levels", "ladder_step_ticks", "ladder_levels_toxic", "ladder_step_ticks_toxic",
   "base_improve_ticks", "max_improve_ticks", "min_ticks_from_ask", "maker_sell_levels",
   "pair_max_levels", "pair_extra_improve_ticks"}

\* The top of a book, and a market as StateManager sends it.
BookTop == [bid : Nat \cup {NoPrice}, ask : Nat \cup {NoPrice}, tick : Nat]

Market ==
  [quoting_enabled : BOOLEAN, to_cutoff : Int, cooling : BOOLEAN, fast_move : BOOLEAN,
   oracle_disagree : BOOLEAN, book : [Tokens -> BookTop],
   inv : [Tokens -> [shares : Nat, cost : Nat]], total : Int, cap : [Tokens -> Int],
   pair_level : 0..100, toxic : BOOLEAN, started : BOOLEAN, size_scalar : Nat,
   scoring : [Tokens -> {"yes", "no", "unknown"}]]

\* TradingConfig::validate, for the fields this module reads.
ValidTargets(c) ==
  /\ c.min_quote_price \in 200..One
  /\ {c.target_total_base, c.target_total_min, c.target_total_max} \subseteq 0..One
  /\ c.target_total_min <= c.target_total_base /\ c.target_total_base <= c.target_total_max

ValidTrading(c) ==
  /\ c.ladder_levels >= 2 /\ c.ladder_levels_toxic >= 1 /\ c.ladder_step_ticks_toxic >= 1
  /\ c.max_usdc_exposure > 0 /\ c.min_order_size > 0
  /\ c.maker_sell_trigger >= 0 /\ (c.maker_sell_enabled => c.maker_sell_levels > 0)
  /\ c.pair_max_levels > 0 /\ c.pair_size_scale_min \in 1..100
  /\ c.chase_max_up >= 0 /\ c.chase_max_up_repair >= 0

\* InventoryConfig::validate and CompletionConfig::validate, likewise.
ValidInventory(c) == c.max_unpaired_market > 0 /\ c.max_unpaired_global > 0

ValidCompletion(c) ==
  /\ c.max_loss >= 0 /\ c.min_profit >= 0 /\ c.controlled_loss_skew >= 0
  /\ c.completion_enabled => c.use_explicit_price_cap

ASSUME QuotingAssumption ==
  /\ \A c \in Configs : \A n \in Numbers : c[n] \in Int /\ (n \in Unsigned => c[n] >= 0)
  /\ \A c \in Configs : ValidTargets(c) /\ ValidTrading(c) /\ ValidInventory(c) /\ ValidCompletion(c)
  /\ Snapshots \subseteq Market /\ Books \subseteq BookTop
  /\ Delays \subseteq Nat /\ MaxPasses \in Nat

VARIABLES
  cfg,       \* the configuration of the process
  market,    \* the snapshot of the last tick
  now,       \* its time, milliseconds
  limiter,   \* Level0ChaseLimiter.last_by_token
  command,   \* what the pass sent
  passes     \* how many there were

quotingVars == <<cfg, market, now, limiter, command, passes>>
-----------------------------------------------------------------------------
(* Rounding *)

FloorTo(price, tick) == IF tick = 0 THEN 0 ELSE price - (price % tick)

CeilTo(price, tick) ==
  LET up == IF tick = 0 THEN 0 ELSE -FloorTo(-price, tick)
  IN  IF up > One THEN 0 ELSE up

\* round_down_to_tick of risk.rs: without a tick it rounds nothing.
RoundDown(price, tick) == IF tick = 0 THEN price ELSE FloorTo(price, tick)
RoundUp(price, tick)   == IF tick = 0 THEN price ELSE -FloorTo(-price, tick)

\* taker_fee_usdc per share: p / 4 * (p * (1 - p))^2.  It is never above FeeBound.
FeePerShare(p) ==
  LET q == (p * (One - p)) \div One IN (p * q * q) \div 4000000
FeeBound == 9
-----------------------------------------------------------------------------
(* The market *)

Shares(m, t) == m.inv[t].shares
Cost(m)      == m.inv["up"].shares * m.inv["up"].cost + m.inv["down"].shares * m.inv["down"].cost
Unpaired(m)  == IF Shares(m, "up") > Shares(m, "down")
                THEN Shares(m, "up") - Shares(m, "down") ELSE Shares(m, "down") - Shares(m, "up")
Missing(m)   == IF Shares(m, "up") < Shares(m, "down") THEN "up" ELSE "down"
Excess(m)    == Other(Missing(m))

\* The alpha values, or what replaces them while they are not set.
TargetTotal(m) == IF m.total > 0 THEN m.total ELSE cfg.target_total_base
CapOf(m, t)    == IF m.cap[t] >= 0 THEN m.cap[t] ELSE TargetTotal(m) \div 2

PairLevel(m)   == IF cfg.pair_protection_enabled THEN m.pair_level ELSE 0

ObservedBelow(book, floor) ==
  \E p \in {book.bid, book.ask} \ {NoPrice} : p < floor
-----------------------------------------------------------------------------
(* build_desired_orders *)

Improve(m, t) ==
  LET base == Min({cfg.base_improve_ticks, cfg.max_improve_ticks})
  IN  IF Unpaired(m) > 0 /\ t = Missing(m) /\ PairLevel(m) > 0
      THEN Min({base + cfg.pair_extra_improve_ticks, cfg.max_improve_ticks})
      ELSE base

PostOnlyCap(book) == book.ask - cfg.min_ticks_from_ask * book.tick

\* Mutant: the bid is improved without looking at the ask.
TopPriceAtBid(book, cap, improve) ==
  LET comp == IF book.bid # NoPrice THEN book.bid + improve * book.tick
              ELSE IF book.ask # NoPrice THEN PostOnlyCap(book) ELSE 0
  IN  FloorTo(Max({0, Min({comp, cap, Ceiling})}), book.tick)

TopPrice(book, cap, improve) ==
  LET comp ==
        IF book.ask # NoPrice
        THEN Min({IF book.bid # NoPrice THEN book.bid + improve * book.tick ELSE PostOnlyCap(book),
                  Max({0, PostOnlyCap(book)})})
        ELSE IF book.bid # NoPrice THEN book.bid ELSE 0
  IN  FloorTo(Max({0, Min({comp, cap, Ceiling})}), book.tick)

TopSellPrice(book, improve) ==
  LET floor == book.bid + Max({cfg.min_ticks_from_ask, 1}) * book.tick
      ask   == IF book.ask # NoPrice
               THEN Max({book.ask - improve * book.tick} \cup
                        (IF book.bid # NoPrice THEN {floor} ELSE {}))
               ELSE IF book.bid # NoPrice THEN floor ELSE 0
  IN  CeilTo(Max({0, Min({ask, Ceiling})}), book.tick)

Unseen == [seen |-> FALSE, p0 |-> 0, ts |-> 0]

\* Mutant: the ticks are allowed to every pass.
ClampEachPass(entry, p0, tick, time, ticksPerSecond) ==
  LET Kept(p) == [price |-> p, entry |-> [seen |-> TRUE, p0 |-> p, ts |-> time]]
  IN  IF p0 <= 0 \/ tick <= 0 THEN [price |-> p0, entry |-> entry]
      ELSE IF ~entry.seen \/ time <= entry.ts \/ p0 <= entry.p0 THEN Kept(p0)
      ELSE Kept(Min({p0, entry.p0 + ticksPerSecond * tick}))

\* clamp_upward: the price to use and the entry that is kept.
ClampUpward(entry, p0, tick, time, ticksPerSecond) ==
  LET Kept(p) == [price |-> p, entry |-> [seen |-> TRUE, p0 |-> p, ts |-> time]]
      allowed == ((ticksPerSecond * (time - entry.ts)) \div 1000) * tick
  IN  IF p0 <= 0 \/ tick <= 0 THEN [price |-> p0, entry |-> entry]
      ELSE IF ~entry.seen \/ time <= entry.ts \/ p0 <= entry.p0 THEN Kept(p0)
      ELSE Kept(Min({p0, entry.p0 + allowed}))

\* What enforce_combined_cap compares the two prices with.
CapRule(m) == [book |-> m.book, total |-> TargetTotal(m)]

\* A round of its loop, if the prices do not fit: a tick off the one that is further
\* above its bid; ties alternate, starting with up.
TakeTick(rule, q) ==
  LET Above(t, price) ==
        IF rule.book[t].bid # NoPrice THEN Max({0, price - rule.book[t].bid}) ELSE price
      Less(t, price) == FloorTo(Max({0, price - rule.book[t].tick}), rule.book[t].tick)
      tie == q.up > 0 /\ q.down > 0 /\ Above("up", q.up) = Above("down", q.down)
      up  == q.up > 0 /\ (\/ q.down <= 0
                          \/ Above("up", q.up) > Above("down", q.down)
                          \/ tie /\ ~q.toggle)
  IN  IF q.up + q.down <= rule.total THEN q
      ELSE IF up THEN [q EXCEPT !.up = Less("up", @), !.toggle = @ # tie]
      ELSE [q EXCEPT !.down = Less("down", @), !.toggle = @ # tie]

\* enforce_combined_cap.  A round takes a thousandth or more: there are at most as many
\* as the prices exceed the target by, which is less than the loop's limit of 10000.
CombinedCap(m, p) ==
  LET over == Max({0, p["up"] + p["down"] - TargetTotal(m)})
  IN  FoldLeft(LAMBDA q, round : TakeTick(CapRule(m), q),
               [up |-> p["up"], down |-> p["down"], toggle |-> FALSE], [round \in 1..over |-> round])

Toxic(m) == cfg.adaptive_ladder_enabled /\ m.toxic

LadderLevels(m) ==
  LET levels == IF Toxic(m) THEN cfg.ladder_levels_toxic ELSE cfg.ladder_levels
  IN  IF PairLevel(m) > 0 THEN Min({levels, cfg.pair_max_levels}) ELSE levels

LadderStep(m) == IF Toxic(m) THEN cfg.ladder_step_ticks_toxic ELSE cfg.ladder_step_ticks

BaseSize(m) ==
  LET base   == IF m.started THEN cfg.base_size_current ELSE cfg.base_size_next
      scaled == Max({(base * m.size_scalar) \div 100, cfg.min_order_size})
      scale  == (100 - PairLevel(m)) + (PairLevel(m) * cfg.pair_size_scale_min) \div 100
  IN  IF PairLevel(m) > 0 THEN Max({(scaled * scale) \div 100, cfg.min_order_size}) ELSE scaled

\* The orders among these that are kept.
Keep(orders, kept) ==
  FoldLeft(LAMBDA rest, o : IF o \in kept THEN Append(rest, o) ELSE rest, <<>>, orders)

\* size_decay^level of the base size.
SizeAt(base, level) ==
  LET decayed[n \in 0..level] == IF n = 0 THEN base ELSE (decayed[n - 1] * cfg.size_decay) \div 100
  IN  Max({decayed[level], cfg.min_order_size})

Order(t, side, level, price, size) ==
  [token |-> t, side |-> side, level |-> level, price |-> price, size |-> size]

\* build_ladder: levels below a price the floor forbids are not reached.
BuyLadder(m, t, p0) ==
  LET tick     == m.book[t].tick
      PriceAt(l) == FloorTo(Max({0, p0 - l * LadderStep(m) * tick}), tick)
      count    == Cardinality({l \in 0..(LadderLevels(m) - 1) : PriceAt(l) >= cfg.min_quote_price})
  IN  IF p0 <= 0 THEN <<>>
      ELSE [i \in 1..count |-> Order(t, "buy", i - 1, PriceAt(i - 1), SizeAt(BaseSize(m), i - 1))]

SellLadder(m, t, p0, size) ==
  LET tick    == m.book[t].tick
      PriceAt(l) == CeilTo(p0 + l * LadderStep(m) * tick, tick)
      ladder     == [i \in 1..cfg.maker_sell_levels |->
                       Order(t, "sell", i - 1, PriceAt(i - 1), SizeAt(size, i - 1))]
  IN  Keep(ladder, {o \in ToSet(ladder) : o.price > 0 /\ o.price >= cfg.min_quote_price})

MakerSells(m) ==
  IF /\ cfg.maker_sell_enabled
     /\ Unpaired(m) > 0 /\ Unpaired(m) >= cfg.maker_sell_trigger
  THEN LET t == Excess(m)
           p == TopSellPrice(m.book[t], Improve(m, t))
       IN  IF p > 0 THEN SellLadder(m, t, p, Min({BaseSize(m), Unpaired(m)})) ELSE <<>>
  ELSE <<>>

Has(orders, t, side) == \E i \in DOMAIN orders : orders[i].token = t /\ orders[i].side \in side
Sides == {"buy", "sell"}
OneSided(orders, side) == Has(orders, "up", side) # Has(orders, "down", side)
WhenPaired(m, orders, side) == IF Unpaired(m) = 0 /\ OneSided(orders, side) THEN <<>> ELSE orders

MayBid(m) ==
  /\ m.quoting_enabled /\ m.to_cutoff > 0
  /\ ~m.cooling /\ ~m.fast_move /\ ~m.oracle_disagree
  /\ \A t \in Tokens : m.book[t].tick > 0 /\ ~ObservedBelow(m.book[t], cfg.min_quote_price)

\* What the limiter does to the top prices of both tokens.
Clamped(m, time, memory) ==
  [t \in Tokens |->
     LET top  == TopPrice(m.book[t], CapOf(m, t), Improve(m, t))
         rate == IF Unpaired(m) > 0 THEN cfg.chase_max_up_repair ELSE cfg.chase_max_up
     IN  IF cfg.chase_limiter_enabled
         THEN ClampUpward(memory[t], top, m.book[t].tick, time, rate)
         ELSE [price |-> top, entry |-> memory[t]]]

BuildDesired(m, time, memory) ==
  LET clamped == Clamped(m, time, memory)
      p == CombinedCap(m, [t \in Tokens |-> clamped[t].price])
      orders == BuyLadder(m, "up", p.up) \o BuyLadder(m, "down", p.down) \o MakerSells(m)
  IN  IF MayBid(m)
      THEN [orders |-> WhenPaired(m, orders, Sides), limiter |-> [t \in Tokens |-> clamped[t].entry]]
      ELSE [orders |-> <<>>, limiter |-> memory]
-----------------------------------------------------------------------------
(* risk.rs: inventory rules, completion, repair pricing *)

Each(orders, Change(_)) == [i \in DOMAIN orders |-> Change(orders[i])]

\* adjust_for_inventory: no buys of the token there is too much of, larger ones of
\* the other; without a gap, buys of both or nothing.
AdjustForInventory(m, orders) ==
  LET gap   == Unpaired(m)
      range == cfg.skew_moderate - cfg.skew_mild
      Larger(size) == IF gap > cfg.skew_mild /\ range > 0
                      THEN (size * (range + Min({gap - cfg.skew_mild, range}))) \div range ELSE size
      Grow(o) == IF o.token = Missing(m) /\ o.side = "buy"
                 THEN [o EXCEPT !.size = Larger(@)] ELSE o
      grown == Each(orders, Grow)
  IN  IF gap = 0 THEN WhenPaired(m, orders, {"buy"})
      ELSE Keep(grown, {o \in ToSet(grown) : ~(o.token = Excess(m) /\ o.side = "buy")})

\* The tests both completion and repair pricing make.
HardCap(m)  == Unpaired(m) >= Min({cfg.max_unpaired_market, cfg.max_unpaired_global})
Emergency(m) ==
  Unpaired(m) > cfg.skew_severe \/ HardCap(m) \/ m.to_cutoff <= cfg.emergency_window

MinProfit(m) ==
  LET controlled == cfg.controlled_loss_skew > 0 /\ Unpaired(m) >= cfg.controlled_loss_skew
  IN  IF (Emergency(m) \/ controlled) /\ cfg.max_loss > 0
      THEN -Min({cfg.max_loss \div Unpaired(m), Ceiling}) ELSE cfg.min_profit

\* completion_limit_price_ceiling.
LimitCeiling(tick) == RoundDown(Ceiling, tick)

\* Mutant: the taker fee is forgotten.
MaxTakerPriceNoFee(avgCost, minProfit) ==
  LET target == One - avgCost - minProfit
  IN  IF target <= 0 THEN {} ELSE {Min({target, One})}

\* max_taker_price, what its bisection converges to, or none.
MaxTakerPrice(avgCost, minProfit) ==
  LET target == One - avgCost - minProfit
  IN  IF target <= 0 THEN {}
      ELSE IF target >= One THEN {One}
      ELSE {Max({p \in Max({0, target - FeeBound - 1})..target : p + FeePerShare(p) <= target} \cup {0})}

MinTakerSellPrice(avgCost, minProfit) ==
  LET target == avgCost + minProfit
  IN  IF target <= 0 THEN {0}
      ELSE IF One < target THEN {}
      ELSE {Min({p \in target..Min({One, target + FeeBound + 1}) : p - FeePerShare(p) >= target} \cup {One})}

Action(t, side, price, m) == [token |-> t, side |-> side, p_max |-> price, shares |-> Unpaired(m)]

\* The completion that buys the missing token, if the ask allows it.
BuyCompletion(m) ==
  LET t == Missing(m)  book == m.book[t]
  IN  {Action(t, "buy", p, m) : p \in
        {q \in {RoundDown(Min({raw, LimitCeiling(book.tick)}), book.tick) :
                  raw \in MaxTakerPrice(m.inv[Excess(m)].cost, MinProfit(m))} :
           q > 0 /\ q >= cfg.min_quote_price /\ book.ask <= q}}

\* Below the floor the missing token is not bought: the excess one is sold.
SellCompletion(m) ==
  LET t == Excess(m)  book == m.book[t]
      top == LimitCeiling(book.tick)
  IN  IF book.bid = NoPrice \/ book.bid < cfg.min_quote_price THEN {}
      ELSE {Action(t, "sell", p, m) : p \in
             {q \in {RoundUp(Max({raw, cfg.min_quote_price}), book.tick) :
                       raw \in MinTakerSellPrice(m.inv[t].cost, MinProfit(m))} :
                q <= top /\ book.bid >= q}}

\* should_taker_complete: none, or one action.
TakerCompletion(m) ==
  IF \/ ~cfg.completion_enabled \/ Unpaired(m) = 0
     \/ m.to_cutoff > cfg.taker_window /\ ~HardCap(m)
     \/ m.book[Missing(m)].ask = NoPrice
  THEN {}
  ELSE IF m.book[Missing(m)].ask < cfg.min_quote_price THEN SellCompletion(m) ELSE BuyCompletion(m)

\* The highest price at which buying the missing token still pays.
RepairCap(m) ==
  LET tick == m.book[Missing(m)].tick
  IN  {RoundDown(Min({raw, LimitCeiling(tick)}), tick) :
         raw \in MaxTakerPrice(m.inv[Excess(m)].cost, MinProfit(m))}

\* apply_skew_repair_pricing: bids for the missing token go up to the ask as far as
\* the cap allows, or are withdrawn.
RepairPricing(m, orders) ==
  LET t == Missing(m)  book == m.book[t]
      others == {o \in ToSet(orders) : o.token # t}
      cap == Max(RepairCap(m))
      top == RoundDown(IF book.ask # NoPrice THEN Min({cap, PostOnlyCap(book)}) ELSE cap, book.tick)
      Target(l) == RoundDown(Max({0, top - l * cfg.ladder_step_ticks * book.tick}), book.tick)
      Reprice(o) ==
        IF o.token # t \/ o.side # "buy" THEN o
        ELSE IF Target(o.level) < cfg.min_quote_price THEN [o EXCEPT !.price = 0]
        ELSE [o EXCEPT !.price = Min({Max({@, Target(o.level)}), top, cap})]
      repriced == Each(orders, Reprice)
  IN  IF Unpaired(m) = 0 \/ ~Has(orders, t, {"buy"}) THEN orders
      ELSE IF RepairCap(m) = {} \/ cap <= 0 THEN Keep(orders, others)
      ELSE IF book.ask # NoPrice /\ PostOnlyCap(book) < 0 THEN orders
      ELSE IF top < cfg.min_quote_price THEN Keep(orders, others)
      ELSE Keep(repriced, {o \in ToSet(repriced) : o.price >= cfg.min_quote_price})
-----------------------------------------------------------------------------
(* reward_engine.rs and the last steps of the strategy engine *)

\* Mutant: a tick more wherever the book has room.
TryImproveFreely(m, t, price, otherPrice) ==
  LET book == m.book[t]
  IN  IF book.ask # NoPrice /\ price + book.tick > PostOnlyCap(book) THEN price
      ELSE Min({price + book.tick, Ceiling})

\* try_improve_bid_price.
TryImprove(m, t, price, otherPrice) ==
  LET book == m.book[t]
      raised == Min({price + book.tick, CapOf(m, t), Ceiling} \cup
                    (IF book.ask # NoPrice THEN {Max({0, PostOnlyCap(book)})} ELSE {}))
  IN  IF raised <= price \/ raised + otherPrice > TargetTotal(m)
      THEN price ELSE FloorTo(raised, book.tick)

\* The level-0 bids for a token.
Best(orders, t) ==
  {i \in DOMAIN orders : orders[i].token = t /\ orders[i].side = "buy" /\ orders[i].level = 0}

\* Bids that do not score get a tick, if the pair has room for it, and a size that does.
Hinted(m, orders) ==
  LET i == Min(Best(orders, "up"))  j == Min(Best(orders, "down"))
      up   == IF m.scoring["up"] = "no" THEN TryImprove(m, "up", orders[i].price, orders[j].price)
              ELSE orders[i].price
      down == IF m.scoring["down"] = "no" THEN TryImprove(m, "down", orders[j].price, up)
              ELSE orders[j].price
      Raised(o, price) == [o EXCEPT !.price = price,
                                    !.size = IF m.scoring[o.token] = "no" THEN Max({@, 200}) ELSE @]
  IN  [orders EXCEPT ![i] = Raised(orders[i], up), ![j] = Raised(orders[j], down)]

\* apply_reward_hints.
RewardHints(m, orders) ==
  IF ~cfg.rewards_enabled \/ Best(orders, "up") = {} \/ Best(orders, "down") = {}
  THEN orders ELSE Hinted(m, orders)

Notional(o) == o.price * o.size
OpenNotional(orders) == FoldLeft(LAMBDA sum, o : sum + Notional(o), 0, orders)

SwapRemove(s, i) == IF i = Len(s) THEN Front(s) ELSE [Front(s) EXCEPT ![i] = Last(s)]

\* The deepest level first, then the largest order, then the first.
Worst(orders) ==
  LET Over(a, b) == a.level > b.level \/ (a.level = b.level /\ Notional(a) > Notional(b))
  IN  Min({i \in DOMAIN orders : \A j \in DOMAIN orders : ~Over(orders[j], orders[i])})

\* enforce_market_budget: an order at a time, until the rest fits.
MarketBudget(m, orders) ==
  LET left == cfg.max_usdc_exposure - Cost(m)
      Prune(rest) == IF rest = <<>> \/ OpenNotional(rest) <= left THEN rest
                     ELSE SwapRemove(rest, Worst(rest))
  IN  IF left <= 0 THEN <<>> ELSE FoldLeft(LAMBDA rest, o : Prune(rest), orders, orders)

\* Mutant: the safety net only looks at prices.
FinalSafetyOfPrices(m, orders) ==
  Keep(orders, {o \in ToSet(orders) : o.size > 0 /\ o.price >= cfg.min_quote_price})

\* enforce_final_safety.
FinalSafety(m, orders) ==
  LET valid == Keep(orders, {o \in ToSet(orders) : o.size > 0 /\ o.price >= cfg.min_quote_price})
  IN  IF Unpaired(m) = 0 THEN WhenPaired(m, valid, Sides)
      ELSE Keep(valid, {o \in ToSet(valid) : o.token # Excess(m)})
-----------------------------------------------------------------------------
(* One pass of run_with_logger *)

Stop           == [kind |-> "stop", orders |-> <<>>, taker |-> {}]
Quote(orders)  == [kind |-> "quote", orders |-> orders, taker |-> {}]
Complete(take) == [kind |-> "complete", orders |-> <<>>, taker |-> {take}]

CompletionCost(take) ==
  IF take.side = "sell" THEN 0 ELSE take.shares * (take.p_max + FeePerShare(take.p_max))

Decide(m, orders) ==
  LET left == Max({0, cfg.max_usdc_exposure - Cost(m)})
      priced == RepairPricing(m, AdjustForInventory(m, orders))
      taken == {take \in TakerCompletion(m) : CompletionCost(take) <= left}
  IN  IF taken # {} THEN Complete(CHOOSE take \in taken : TRUE)
      ELSE IF left = 0 THEN Stop
      ELSE Quote(FinalSafety(m, MarketBudget(m, RewardHints(m, priced))))

Pass(m, time) ==
  LET built == BuildDesired(m, time, limiter)
  IN  /\ passes < MaxPasses /\ passes' = passes + 1
      /\ market' = m /\ now' = time
      /\ IF m.quoting_enabled
         THEN command' = Decide(m, built.orders) /\ limiter' = built.limiter
         ELSE command' = Stop /\ UNCHANGED limiter
      /\ UNCHANGED cfg

QuotingInit ==
  /\ cfg \in Configs /\ market \in Snapshots /\ now = 1
  /\ limiter = [t \in Tokens |-> Unseen]
  /\ command = Stop /\ passes = 0

\* The first tick of the market.
FirstTick == passes = 0 /\ Pass(market, now)

\* A later one: one book has changed.
NextTick ==
  /\ passes > 0
  /\ \E t \in Tokens, book \in Books, delay \in Delays :
       Pass([market EXCEPT !.book[t] = book], now + delay)

QuotingNext == FirstTick \/ NextTick

QuotingSpec == QuotingInit /\ [][QuotingNext]_quotingVars
=============================================================================
