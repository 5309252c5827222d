----------------------------- MODULE OrderDiff -----------------------------
(***************************************************************************)
(* The pure part of src/execution/order_manager.rs: which orders a command *)
(* makes OrderManager cancel and post, given its cache of live orders.     *)
(*                                                                         *)
(* A desired order is a key (token, side, level) and a quote (price and    *)
(* size, integers: ticks and shares).  A cached order is a record          *)
(* [id, px, sz, rem, upd]: the exchange's id, price, size, remaining size  *)
(* and the time of its last update.  Maps keyed by (token, side, level)    *)
(* are functions over Keys that hold None where the HashMap has no entry.  *)
(***************************************************************************)
EXTENDS Integers, FiniteSets

CONSTANTS
  Tokens,             (* the outcome tokens of one market                  *)
  MaxLevel,           (* deepest ladder level                              *)
  Sides,              (* the sides quoted: a subset of {"buy", "sell"}     *)
  None,               (* an absent map entry                               *)
  RepriceMinTicks,    (* cfg.reprice_min_ticks                             *)
  ResizeMinPct,       (* cfg.resize_min_pct, as a percentage               *)
  MinUpdateInterval,  (* cfg.min_update_interval_ms                        *)
  LadderStep          (* cfg.ladder_step_ticks                             *)

ASSUME DiffAssumption ==
  /\ MaxLevel \in Nat
  /\ Sides \subseteq {"buy", "sell"}
  /\ {RepriceMinTicks, ResizeMinPct, MinUpdateInterval, LadderStep} \subseteq Nat

Keys == Tokens \X Sides \X (0..MaxLevel)
TokenOf(k) == k[1]
SideOf(k)  == k[2]
LevelOf(k) == k[3]

Abs(x) == IF x < 0 THEN -x ELSE x

(* An inferred tick size is the fraction num/den; num = 0 stands for a     *)
(* token whose tick is not in the cache.                                   *)
TickUnknown == [num |-> 0, den |-> 1]

(***************************************************************************)
(* The tick a command lets OrderManager infer for a token: the price gap   *)
(* between its two shallowest bids, over the ticks that should separate    *)
(* them.  Tokens with fewer than two bids keep what the cache holds.       *)
(***************************************************************************)
LadderLevels(desired, t) ==
  {l \in 0..MaxLevel : \E k \in Keys : desired[k] # None /\ k = <<t, "buy", l>>}

ShallowestTwo(levels) ==
  {p \in levels \X levels : /\ p[1] < p[2]
                            /\ \A l \in levels : l = p[1] \/ l >= p[2]}

InferTick(desired, t, known) ==
  LET two  == ShallowestTwo(LadderLevels(desired, t))
      pair == CHOOSE p \in two : TRUE
      gap  == Abs(desired[<<t, "buy", pair[1]>>].px - desired[<<t, "buy", pair[2]>>].px)
  IN  IF two = {} \/ LadderStep = 0 \/ gap = 0
      THEN known
      ELSE [num |-> gap, den |-> LadderStep * (pair[2] - pair[1])]

InferTicks(desired, ticks) == [t \in Tokens |-> InferTick(desired, t, ticks[t])]

(***************************************************************************)
(* Is the difference between a quote and the cached order large enough for *)
(* a cancel and replace?  A price move counts only when the token's tick   *)
(* is known; a size move is measured against the remaining size.           *)
(***************************************************************************)
RepriceDue(q, o, tick) ==
  LET delta == Abs(q.px - o.px)
  IN  /\ tick.num > 0
      /\ IF RepriceMinTicks = 0
         THEN delta > 0
         ELSE delta * tick.den >= RepriceMinTicks * tick.num

EffectiveSize(o) == IF o.rem > 0 THEN o.rem ELSE o.sz

ResizeDue(q, o) ==
  LET size  == EffectiveSize(o)
      delta == Abs(q.sz - size)
  IN  \/ size = 0
      \/ IF ResizeMinPct = 0
         THEN delta > 0
         ELSE 100 * delta >= ResizeMinPct * size

NeedsUpdate(q, o, tick) == RepriceDue(q, o, tick) \/ ResizeDue(q, o)

Debounced(o, t) ==
  /\ MinUpdateInterval > 0
  /\ o.upd > 0
  /\ t - o.upd < MinUpdateInterval

(***************************************************************************)
(* diff_orders: the live orders to cancel (key and id) and the desired     *)
(* orders to post (key and quote).  A replaced order is in both.           *)
(***************************************************************************)
Replaces(desired, live, ticks, t, k) ==
  /\ desired[k] # None
  /\ live[k] # None
  /\ NeedsUpdate(desired[k], live[k], ticks[TokenOf(k)])
  /\ ~Debounced(live[k], t)

CancelKeys(desired, live, ticks, t) ==
  {k \in Keys : \/ live[k] # None /\ desired[k] = None
                \/ Replaces(desired, live, ticks, t, k)}

(* Mutant: desired orders are posted whether or not they are live.         *)
PostKeysBlindly(desired, live, ticks, t) == {k \in Keys : desired[k] # None}

PostKeys(desired, live, ticks, t) ==
  {k \in Keys : \/ desired[k] # None /\ live[k] = None
                \/ Replaces(desired, live, ticks, t, k)}

DiffCancels(desired, live, ticks, t) ==
  {[key |-> k, id |-> live[k].id] : k \in CancelKeys(desired, live, ticks, t)}

DiffPosts(desired, live, ticks, t) ==
  {[key |-> k, px |-> desired[k].px, sz |-> desired[k].sz] :
     k \in PostKeys(desired, live, ticks, t)}
============================================================================
