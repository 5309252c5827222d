-------------------------- MODULE QuotingProperties --------------------------
(***************************************************************************)
(* What is claimed of a pass of the strategy engine.  Every step after the *)
(* pricing may undo what the pricing has established: the claims are of    *)
(* the command that leaves the pass.                                       *)
(***************************************************************************)
EXTENDS Quoting

Quotes == {command.orders[i] : i \in DOMAIN command.orders}
Buys(t) == {o \in Quotes : o.token = t /\ o.side = "buy"}

\* TASK_BREAKDOWN.md: "combined cap always satisfied at level0".  One pair of buys
\* that both fill costs no more than the target, reward hints included.
CombinedCapHolds ==
  \A up \in Buys("up"), down \in Buys("down") : up.price + down.price <= TargetTotal(market)

\* No bid comes closer to the ask than configured, whichever step set its price.
BidsStayOffTheAsk ==
  \A t \in Tokens : \A o \in Buys(t) :
    market.book[t].ask # NoPrice => o.price <= PostOnlyCap(market.book[t])

\* Buying the token that is missing, as a maker or as a taker, makes a pair that
\* loses no more than the configuration allows, the fee included.
RepairPays ==
  LET Loss(price) == price + FeePerShare(price) + market.inv[Excess(market)].cost - One
  IN  Unpaired(market) > 0 /\ passes > 0 =>
        /\ \A o \in Buys(Missing(market)) : Loss(o.price) <= -MinProfit(market)
        /\ \A take \in command.taker :
             take.side = "buy" => Loss(take.p_max) * take.shares <=
               Max({cfg.max_loss, -cfg.min_profit * take.shares})

\* Without a gap both tokens are bid for or none, with one only the missing token,
\* whatever pruning has taken away.
PairedOrRepair ==
  IF Unpaired(market) = 0
  THEN (Buys("up") = {}) = (Buys("down") = {})
  ELSE \A o \in Quotes : o.token = Missing(market)

\* config.rs: "Limit how fast level-0 price can move upward (anti-pickoff)".  While nothing
\* is to be repaired and no reward is chased, no bid is further above the level-0 bid of
\* the pass before than the ticks that the time between the two allows, what the ladder had
\* rounded off aside.  The combined cap comes after the limiter, which remembers the price
\* before it: a bid that the cap has lowered may jump back at once.  With caps that fit the
\* target together, as alpha computes them, the combined cap lowers nothing.
ClimbIsBounded ==
  [][\A t \in Tokens :
       LET allowed == ((cfg.chase_max_up * (now' - now)) \div 1000) * market'.book[t].tick
           rounded == limiter[t].p0 % market.book[t].tick
       IN  /\ cfg.chase_limiter_enabled /\ ~cfg.rewards_enabled /\ now' > now
           /\ Unpaired(market) = 0 /\ Unpaired(market') = 0
           /\ CapOf(market, "up") + CapOf(market, "down") <= TargetTotal(market)
           => \A o \in Buys(t)', before \in Buys(t) :
                before.level = 0 => o.price <= before.price + rounded + allowed]_quotingVars
=============================================================================
