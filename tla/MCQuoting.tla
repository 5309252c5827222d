------------------------------ MODULE MCQuoting ------------------------------
(***************************************************************************)
(* Configurations and markets for TLC: the defaults of config.rs and a     *)
(* second configuration with rewards, deeper ladders and no allowed loss.  *)
(* As alpha computes them, the caps of a market add up to its target.      *)
(***************************************************************************)
EXTENDS QuotingProperties, TLC

Default ==
  [min_quote_price |-> 200, target_total_base |-> 992, target_total_min |-> 980,
   target_total_max |-> 995, max_usdc_exposure |-> 1000000,
   ladder_levels |-> 2, ladder_step_ticks |-> 1, adaptive_ladder_enabled |-> TRUE,
   ladder_levels_toxic |-> 1, ladder_step_ticks_toxic |-> 1, size_decay |-> 60,
   base_size_current |-> 500, base_size_next |-> 300, min_order_size |-> 100,
   base_improve_ticks |-> 0, max_improve_ticks |-> 2, min_ticks_from_ask |-> 1,
   maker_sell_enabled |-> TRUE, maker_sell_trigger |-> 5000, maker_sell_levels |-> 1,
   pair_protection_enabled |-> TRUE, pair_max_levels |-> 1, pair_size_scale_min |-> 50,
   pair_extra_improve_ticks |-> 1, chase_limiter_enabled |-> TRUE,
   chase_max_up |-> 5, chase_max_up_repair |-> 5,
   skew_mild |-> 10, skew_moderate |-> 25, skew_severe |-> 50,
   max_unpaired_market |-> 25000, max_unpaired_global |-> 40000,
   emergency_window |-> 90, taker_window |-> 900,
   completion_enabled |-> TRUE, use_explicit_price_cap |-> TRUE, max_loss |-> 1000000,
   min_profit |-> 0, controlled_loss_skew |-> 5000, rewards_enabled |-> FALSE]

Strict ==
  [Default EXCEPT !.rewards_enabled = TRUE, !.ladder_levels = 3, !.ladder_step_ticks = 2,
     !.base_improve_ticks = 1, !.min_ticks_from_ask = 2, !.max_usdc_exposure = 700000,
     !.maker_sell_trigger = 0, !.max_loss = 0, !.min_profit = 5, !.taker_window = 300,
     !.max_unpaired_market = 2000]

MCConfigs == {Default, Strict}

Book(bid, ask, tick) == [bid |-> bid, ask |-> ask, tick |-> tick]
MCBooks ==
  {Book(NoPrice, NoPrice, 10), Book(450, 470, 10), Book(NoPrice, 480, 10), Book(500, NoPrice, 10),
   Book(520, 560, 10), Book(500, 550, 50), Book(150, 180, 10)}

Inv(shares, cost) == [shares |-> shares, cost |-> cost]
Gaps ==
  {<<Inv(0, 0), Inv(0, 0)>>, <<Inv(600, 480), Inv(600, 470)>>,
   <<Inv(0, 0), Inv(300, 480)>>, <<Inv(500, 460), Inv(100, 450)>>,
   <<Inv(2100, 450), Inv(0, 0)>>, <<Inv(0, 0), Inv(300, 900)>>}

Snapshot(up, down, gap) ==
  [quoting_enabled |-> TRUE, to_cutoff |-> 600, cooling |-> FALSE, fast_move |-> FALSE,
   oracle_disagree |-> FALSE, book |-> ("up" :> up @@ "down" :> down),
   inv |-> ("up" :> gap[1] @@ "down" :> gap[2]), total |-> 985,
   cap |-> ("up" :> 495 @@ "down" :> 490), pair_level |-> 0, toxic |-> FALSE, started |-> TRUE,
   size_scalar |-> 100, scoring |-> [t \in Tokens |-> "unknown"]]

Plain == {Snapshot(up, down, gap) : up \in MCBooks, down \in MCBooks, gap \in Gaps}

Scorings == {[t \in Tokens |-> "no"], "up" :> "no" @@ "down" :> "yes"}
Caps     == {"up" :> 600 @@ "down" :> 385, "up" :> 495 @@ "down" :> 490}
Variants(m) ==
  {[m EXCEPT !.cap = c, !.scoring = s] : c \in Caps, s \in Scorings}
  \cup {[m EXCEPT !.pair_level = 100], [m EXCEPT !.toxic = TRUE, !.started = FALSE],
        [m EXCEPT !.to_cutoff = 60], [m EXCEPT !.to_cutoff = 0], [m EXCEPT !.fast_move = TRUE],
        [m EXCEPT !.quoting_enabled = FALSE], [m EXCEPT !.size_scalar = 30],
        [m EXCEPT !.total = 0, !.cap = [t \in Tokens |-> 0]]}

MCSnapshots == Plain \cup UNION {Variants(m) : m \in Plain}
=============================================================================
