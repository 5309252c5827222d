---------------------------- MODULE OrderManager ----------------------------
(***************************************************************************)
(* OrderManager of src/execution/order_manager.rs for one market (slug),   *)
(* in live trading mode (cfg.dry_run = false): the select loop of run, the *)
(* REST stages it spawns, and the exchange they talk to.                   *)
(*                                                                         *)
(* The loop owns the cache of live orders and one InFlight slot.  A        *)
(* command is diffed against the cache and starts one spawned stage, which *)
(* cancels or posts in batches and reports through the internal channel;   *)
(* every message carries the generation it was started for, and a message  *)
(* of an older generation is dropped.  Meanwhile the user websocket        *)
(* delivers order updates and reconciliation may reseed the whole cache.   *)
(*                                                                         *)
(* The exchange is the environment: it answers REST calls, fills orders    *)
(* and emits one FIFO of updates per order.  What may go wrong is the set  *)
(* Faults, at most MaxFaults times:                                        *)
(*   cancel_fail       a live order's cancel is refused, not terminally    *)
(*   cancel_err        a cancel call errs; part of it may have been done   *)
(*   post_err          a post call errs and nothing was placed             *)
(*   post_err_applied  a post call errs after the exchange placed orders   *)
(*   revert_fail       the cancel that reverts a partial batch fails       *)
(*   sweep_fail        a cancel fired on a fill or unknown order fails     *)
(*   ws_lost           a user update never reaches OrderManager            *)
(*   swept             another component cancels an order (completion's    *)
(*                     cancel_sweep, the heartbeat's cancel-all)           *)
(***************************************************************************)
EXTENDS OrderDiff, Sequences

CONSTANTS
  Commands,          (* the desired-order maps the strategy may send       *)
  RejectKinds,       (* how the exchange may refuse a posted order         *)
  Faults,            (* the fault kinds that may happen                    *)
  RateLimited,       (* may OrdersPerMinLimiter refuse a batch of posts?   *)
  LimiterAnswers,    (* what the fill and unknown-order limiters answer    *)
  SelectiveCancel,   (* cfg.selective_cancel_on_fill_enabled               *)
  NearTicks,         (* cfg.selective_cancel_on_fill_near_ticks            *)
  RepairMaxLevel,    (* cfg.selective_cancel_on_fill_repair_max_level      *)
  MinQuotePx,        (* cfg.min_quote_price                                *)
  BatchSize,         (* batch::MAX_BATCH_ORDERS                            *)
  BackoffBase,       (* BACKOFF_BASE_MS                                    *)
  BackoffMax,        (* BACKOFF_MAX_MS                                     *)
  Cutoff,            (* cutoff_ts_from_slug of this market                 *)
  MaxPerKey,         (* bound: orders placed per key                       *)
  MaxCmds,           (* bound: commands sent by the strategy               *)
  MaxSeeds,          (* bound: reseeds by reconciliation                   *)
  MaxFaults,         (* bound: faults                                      *)
  MaxTime            (* bound: the clock                                   *)

Ids == Keys \X (1..MaxPerKey)

Quote     == [px : Nat, sz : Nat \ {0}]
DesiredOrder == [key : Keys, px : Nat, sz : Nat \ {0}]
CancelAction == [key : Keys, id : Ids]
LiveOrder == [id : Ids, px : Nat, sz : Nat, rem : Nat, upd : Nat]
PostResult == [key : Keys, px : Nat, sz : Nat \ {0}, id : Ids \cup {None},
               err : {"none", "postonly", "error"}]

ASSUME ManagerAssumption ==
  /\ Commands \subseteq [Keys -> Quote \cup {None}]
  /\ RejectKinds \subseteq {"postonly", "error"}
  /\ LimiterAnswers \subseteq BOOLEAN /\ LimiterAnswers # {}
  /\ RateLimited \in BOOLEAN /\ SelectiveCancel \in BOOLEAN
  /\ {NearTicks, RepairMaxLevel, MinQuotePx, BackoffMax, Cutoff} \subseteq Nat
  /\ {MaxPerKey, MaxCmds, MaxSeeds, MaxFaults} \subseteq Nat
  /\ BatchSize \in Nat \ {0} /\ BackoffBase \in Nat \ {0} /\ MaxTime \in Nat \ {0}

(* None is not a value any of the maps holds.                              *)
ASSUME NoneAssumption ==
  /\ None \notin Keys
  /\ None \notin Ids
  /\ None \notin LiveOrder
  /\ None \notin Quote
  /\ None \notin Commands
  /\ None \notin {"canceling", "posting"}

VARIABLES
  (* InFlight, the slot of the market *)
  gen, busy, stage, current, pending, failed,
  (* MarketOrderCache *)
  live, index, ticks, tracked, backoff,
  (* spawned tasks and the channels into the loop *)
  cancelStages, postStages, sweeps, internal, seedq,
  (* the exchange and the user websocket *)
  book, ws,
  (* the environment: clock, the last command sent, what is left of the bounds *)
  now, wanted, cmds, seeds, faults

slotVars  == <<gen, busy, stage, current, pending, failed>>
cacheVars == <<live, index, ticks, tracked, backoff>>
taskVars  == <<cancelStages, postStages>>
exVars    == <<book, ws>>
envVars   == <<now, wanted, cmds, seeds>>
vars == <<slotVars, cacheVars, taskVars, sweeps, internal, seedq, exVars,
          envVars, faults>>

OrderState == [st : {"unborn", "live", "filled", "canceled"},
               px : Nat, sz : Nat, matched : Nat, born : Nat]
UserUpdate == [kind : {"placement", "update", "cancellation"}, matched : Nat]

CancelStage == [gen : Nat, at : Nat, todo : SUBSET CancelAction]
PostStage   == [gen : Nat, at : Nat, todo : SUBSET DesiredOrder,
                reverting : SUBSET PostResult]
OmInternal ==
  [type : {"CancelBatch"}, gen : Nat, at : Nat, cancels : SUBSET CancelAction,
   gone : SUBSET Ids]
  \cup [type : {"PostBatch"}, gen : Nat, at : Nat, results : SUBSET PostResult]
  \cup [type : {"CancelFinished", "PostFinished"}, gen : Nat, at : Nat, fatal : BOOLEAN]

SlotTyped ==
  /\ gen \in Nat /\ busy \in BOOLEAN /\ failed \in BOOLEAN
  /\ stage \in {"canceling", "posting", None}
  /\ current \in Commands \cup {None}
  /\ pending \in Commands \cup {None}

CacheTyped ==
  /\ live \in [Keys -> LiveOrder \cup {None}]
  /\ index \in [Ids -> Keys \cup {None}]
  /\ ticks \in [Tokens -> [num : Nat, den : Nat]]
  /\ tracked \subseteq Tokens
  /\ backoff \in [ms : Nat, until : Nat]

TasksTyped ==
  /\ cancelStages \subseteq CancelStage
  /\ postStages \subseteq PostStage
  /\ sweeps \subseteq SUBSET Ids

ChannelsTyped ==
  /\ internal \in Seq(OmInternal)
  /\ seedq \in Seq([Keys -> LiveOrder \cup {None}])

ExchangeTyped ==
  /\ book \in [Ids -> OrderState]
  /\ ws \in [Ids -> Seq(UserUpdate)]

EnvTyped ==
  /\ now \in Nat /\ wanted \in Commands \cup {None}
  /\ cmds \in Nat /\ seeds \in Nat /\ faults \in Nat

TypeOK ==
  /\ SlotTyped /\ CacheTyped /\ TasksTyped /\ ChannelsTyped
  /\ ExchangeTyped /\ EnvTyped

NoOrders == [k \in Keys |-> None]
Unborn   == [st |-> "unborn", px |-> 0, sz |-> 0, matched |-> 0, born |-> 0]

(* A market whose orders were all canceled at startup, or never had any.   *)
Init ==
  /\ gen = 0 /\ busy = FALSE /\ stage = None /\ failed = FALSE
  /\ current = None /\ pending = None
  /\ live = NoOrders
  /\ index = [i \in Ids |-> None]
  /\ ticks = [t \in Tokens |-> TickUnknown]
  /\ tracked = {}
  /\ backoff = [ms |-> 0, until |-> 0]
  /\ cancelStages = {} /\ postStages = {} /\ sweeps = {}
  /\ internal = <<>> /\ seedq = <<>>
  /\ book = [i \in Ids |-> Unborn]
  /\ ws = [i \in Ids |-> <<>>]
  /\ now = 1 /\ wanted = None /\ cmds = 0 /\ seeds = 0 /\ faults = 0

-----------------------------------------------------------------------------
(***************************************************************************)
(* The exchange.                                                           *)
(***************************************************************************)
Resting(i) == book[i].st = "live"

Fault(kind) == /\ kind \in Faults
               /\ faults < MaxFaults
               /\ faults' = faults + 1

HasFreshId(k) == \E n \in 1..MaxPerKey : book[<<k, n>>].st = "unborn"
FreshId(k) == <<k, CHOOSE n \in 1..MaxPerKey : book[<<k, n>>].st = "unborn">>

Tell(ids, u) == ws' = [i \in Ids |-> IF i \in ids THEN Append(ws[i], u) ELSE ws[i]]

(* The exchange places the orders A and announces them on the websocket.   *)
ExchangePlaces(A) ==
  LET born(i) == CHOOSE p \in A : FreshId(p.key) = i
      ids     == {FreshId(p.key) : p \in A}
  IN  /\ book' = [i \in Ids |->
           IF i \in ids
           THEN [st |-> "live", px |-> born(i).px, sz |-> born(i).sz,
                 matched |-> 0, born |-> now]
           ELSE book[i]]
      /\ Tell(ids, [kind |-> "placement", matched |-> 0])

ExchangeCancels(ids) ==
  /\ book' = [i \in Ids |-> IF i \in ids THEN [book[i] EXCEPT !.st = "canceled"]
                                         ELSE book[i]]
  /\ ws' = [i \in Ids |->
       IF i \in ids
       THEN Append(ws[i], [kind |-> "cancellation", matched |-> book[i].matched])
       ELSE ws[i]]

(* One more share of a resting order is matched.                           *)
Fill(i) ==
  /\ Resting(i)
  /\ LET m == book[i].matched + 1
     IN  /\ book' = [book EXCEPT ![i].matched = m,
                                 ![i].st = IF m = book[i].sz THEN "filled" ELSE "live"]
         /\ Tell({i}, [kind |-> "update", matched |-> m])
  /\ UNCHANGED <<slotVars, cacheVars, taskVars, sweeps, internal, seedq, envVars, faults>>

(* An order is canceled by somebody else than OrderManager.                *)
SweptByOther(i) ==
  /\ Resting(i)
  /\ Fault("swept")
  /\ ExchangeCancels({i})
  /\ UNCHANGED <<slotVars, cacheVars, taskVars, sweeps, internal, seedq, envVars>>

LoseUpdate(i) ==
  /\ ws[i] # <<>>
  /\ Fault("ws_lost")
  /\ ws' = [ws EXCEPT ![i] = Tail(@)]
  /\ UNCHANGED <<slotVars, cacheVars, taskVars, sweeps, internal, seedq, book, envVars>>

ClockTick ==
  /\ now < MaxTime
  /\ now' = now + 1
  /\ UNCHANGED <<slotVars, cacheVars, taskVars, sweeps, internal, seedq, exVars,
                 wanted, cmds, seeds, faults>>

-----------------------------------------------------------------------------
(***************************************************************************)
(* The cache.                                                              *)
(***************************************************************************)
InsertLive(k, o) ==
  /\ live'  = [live EXCEPT ![k] = o]
  /\ index' = [index EXCEPT ![o.id] = k]

(* Mutant: the order leaves the map, its index entry stays.               *)
RemoveLiveKeepIndex(ks) ==
  /\ live' = [k \in Keys |-> IF k \in ks THEN None ELSE live[k]]
  /\ UNCHANGED index

(* remove_live_by_key for every key of a set: the index entry that goes is *)
(* the one of the order found under the key.                               *)
RemoveLive(ks) ==
  /\ live' = [k \in Keys |-> IF k \in ks THEN None ELSE live[k]]
  /\ index' = [i \in Ids |->
       IF \E k \in ks : live[k] # None /\ live[k].id = i THEN None ELSE index[i]]

NextBackoff(at) ==
  LET ms == IF backoff.ms = 0 THEN BackoffBase
            ELSE IF backoff.ms * 2 <= BackoffMax THEN backoff.ms * 2 ELSE BackoffMax
  IN  [ms |-> ms, until |-> at + ms]
NoBackoff == [ms |-> 0, until |-> 0]

-----------------------------------------------------------------------------
(***************************************************************************)
(* start_for_cmd and finish_and_maybe_start_next.                          *)
(***************************************************************************)
GoIdle == /\ busy' = FALSE /\ stage' = None /\ failed' = FALSE
          /\ current' = None /\ pending' = None

CutoffActive == now >= Cutoff
PostsHeld(b) == b.until > now \/ CutoffActive

(* Posts below the quote floor are dropped just before the post stage.     *)
AboveFloor(posts) == {p \in posts : p.px >= MinQuotePx}

StartCancels(cmd, cancels) ==
  /\ cancels # {}
  /\ busy' = TRUE /\ stage' = "canceling" /\ failed' = FALSE
  /\ current' = cmd /\ pending' = None
  /\ cancelStages' = cancelStages \cup {[gen |-> gen', at |-> now, todo |-> cancels]}
  /\ UNCHANGED postStages

StartPosts(cmd, cancels, posts, b) ==
  /\ cancels = {}
  /\ posts # {}
  /\ ~PostsHeld(b)
  /\ busy' = TRUE /\ stage' = "posting" /\ failed' = FALSE
  /\ current' = cmd /\ pending' = None
  /\ postStages' = postStages \cup
       {[gen |-> gen', at |-> now, todo |-> posts, reverting |-> {}]}
  /\ UNCHANGED cancelStages

NothingToStart(cancels, posts, b) ==
  /\ cancels = {}
  /\ \/ posts = {}
     \/ PostsHeld(b)
     \/ RateLimited
  /\ GoIdle
  /\ UNCHANGED <<cancelStages, postStages>>

(* start_for_cmd when the slot's backoff is b.  An empty plan, or posts    *)
(* that are held back, end in finish_and_maybe_start_next(false), which    *)
(* finds no pending command: the slot is idle.                             *)
Start(cmd, b) ==
  LET known   == InferTicks(cmd, ticks)
      cancels == DiffCancels(cmd, live, known, now)
      posts   == AboveFloor(DiffPosts(cmd, live, known, now))
  IN  /\ gen' = gen + 1
      /\ ticks' = known
      /\ tracked' = tracked \cup {TokenOf(k) : k \in {x \in Keys : cmd[x] # None}}
      /\ \/ StartCancels(cmd, cancels)
         \/ StartPosts(cmd, cancels, posts, b)
         \/ NothingToStart(cancels, posts, b)

(* Mutant: after its cancels are done, a command is not diffed again.      *)
NextCommandPendingOnly(continue) == pending

(* The command that runs after a stage: the latest pending one, else the   *)
(* one whose cancels have just been done.                                  *)
NextCommand(continue) ==
  IF pending # None THEN pending
  ELSE IF continue THEN current ELSE None

(* Mutant: the slot goes idle and leaves the pending command behind.       *)
FinishForgetsPending(continue, b) ==
  /\ busy' = FALSE /\ stage' = None /\ failed' = FALSE /\ current' = None
  /\ UNCHANGED <<pending, gen, ticks, tracked, taskVars>>

Finish(continue, b) ==
  IF NextCommand(continue) = None
  THEN GoIdle /\ UNCHANGED <<gen, ticks, tracked, taskVars>>
  ELSE Start(NextCommand(continue), b)

(* on_exec_nonblocking, for a command of the strategy.                     *)
ExecCommand(cmd) ==
  /\ cmds < MaxCmds
  /\ cmds' = cmds + 1
  /\ wanted' = cmd
  /\ \/ /\ busy
        /\ pending' = cmd
        /\ UNCHANGED <<gen, busy, stage, current, failed, ticks, tracked, taskVars>>
     \/ /\ ~busy
        /\ Start(cmd, backoff)
  /\ UNCHANGED <<live, index, backoff, sweeps, internal, seedq, exVars, now, seeds, faults>>

-----------------------------------------------------------------------------
(***************************************************************************)
(* The spawned stages.  run_cancel_stage and run_post_stage call the       *)
(* exchange batch by batch and report to the loop; a REST error ends the   *)
(* stage with a fatal Finished message.                                    *)
(***************************************************************************)
Batches(todo) ==
  {B \in SUBSET todo : /\ B # {}
                       /\ Cardinality(B) <= BatchSize
                       /\ B # todo => Cardinality(B) = BatchSize}

(* order_posts_by_level: shallow levels are posted first.                  *)
PostBatches(todo) ==
  {B \in Batches(todo) : \A p \in B, q \in todo \ B : LevelOf(p.key) <= LevelOf(q.key)}

Send(m) == internal' = Append(internal, m)

(* Mutant: every failed cancel is taken for a terminal one.                *)
GoneAll(B, refused) == {c.id : c \in B}

(* The orders of a batch the loop will take for gone: the exchange says    *)
(* canceled, or fails the cancel for a terminal reason (the order is not   *)
(* live any more).  A refusal for another reason leaves the order alone.   *)
Gone(B, refused) == {c.id : c \in B} \ refused

CancelSend(s) ==
  \E B \in Batches(s.todo) :
    LET resting == {c.id : c \in {d \in B : Resting(d.id)}}
    IN  \/ \E refused \in SUBSET resting :
             /\ IF refused = {} THEN UNCHANGED faults ELSE Fault("cancel_fail")
             /\ ExchangeCancels(resting \ refused)
             /\ cancelStages' = (cancelStages \ {s}) \cup {[s EXCEPT !.todo = @ \ B]}
             /\ Send([type |-> "CancelBatch", gen |-> s.gen, at |-> s.at, cancels |-> B,
                      gone |-> Gone(B, refused)])
        \/ \E done \in SUBSET resting :
             /\ Fault("cancel_err")
             /\ ExchangeCancels(done)
             /\ cancelStages' = cancelStages \ {s}
             /\ Send([type |-> "CancelFinished", gen |-> s.gen, at |-> s.at, fatal |-> TRUE])

CancelDone(s) ==
  /\ s.todo = {}
  /\ cancelStages' = cancelStages \ {s}
  /\ Send([type |-> "CancelFinished", gen |-> s.gen, at |-> s.at, fatal |-> FALSE])
  /\ UNCHANGED <<exVars, faults>>

CancelStep(s) ==
  /\ CancelSend(s) \/ CancelDone(s)
  /\ UNCHANGED <<slotVars, cacheVars, postStages, sweeps, seedq, envVars>>

(* The exchange's answer for each order of a batch of which it places A.   *)
Answer(p, A, err) ==
  IF p \in A
  THEN [key |-> p.key, px |-> p.px, sz |-> p.sz, id |-> FreshId(p.key), err |-> "none"]
  ELSE [key |-> p.key, px |-> p.px, sz |-> p.sz, id |-> None, err |-> err]

(* Both tokens in one batch and an order refused: the accepted ones are    *)
(* canceled again rather than left one-sided.                              *)
MustRevert(results) ==
  /\ Cardinality({TokenOf(r.key) : r \in results}) >= 2
  /\ \E r \in results : r.err # "none"
  /\ \E r \in results : r.err = "none"

PostBatchMsg(s, results) ==
  [type |-> "PostBatch", gen |-> s.gen, at |-> s.at, results |-> results]

PostSend(s) ==
  /\ s.reverting = {}
  /\ \E B \in PostBatches(s.todo) :
       \E A \in SUBSET {p \in B : HasFreshId(p.key)} :
         \/ \E err \in RejectKinds \cup (IF \A p \in B : HasFreshId(p.key)
                                         THEN {"none"} ELSE {"error"}) :
              LET results == {Answer(p, A, err) : p \in B}
              IN  /\ err = "none" <=> A = B
                  /\ ExchangePlaces(A)
                  /\ IF MustRevert(results)
                     THEN /\ postStages' = (postStages \ {s}) \cup
                                {[s EXCEPT !.todo = @ \ B, !.reverting = results]}
                          /\ UNCHANGED internal
                     ELSE /\ postStages' = (postStages \ {s}) \cup
                                {[s EXCEPT !.todo = @ \ B]}
                          /\ Send(PostBatchMsg(s, results))
                  /\ UNCHANGED faults
         \/ /\ Fault(IF A = {} THEN "post_err" ELSE "post_err_applied")
            /\ ExchangePlaces(A)
            /\ postStages' = postStages \ {s}
            /\ Send([type |-> "PostFinished", gen |-> s.gen, at |-> s.at, fatal |-> TRUE])

(* Orders that were accepted are reported as errors; the error counts as   *)
(* an expected one when every refusal of the batch was a post-only refusal.*)
Reverted(results) ==
  LET err == IF \A r \in results : r.err \in {"none", "postonly"} THEN "postonly"
                                                                  ELSE "error"
  IN  {IF r.err = "none" THEN [r EXCEPT !.err = err] ELSE r : r \in results}

(* Mutant: a partial batch is reported as failed and never reverted.       *)
RevertNothing(results) == {}

RevertTargets(results) == {r.id : r \in {x \in results : x.err = "none" /\ x.id # None}}

PostRevert(s) ==
  /\ s.reverting # {}
  /\ LET resting == {i \in RevertTargets(s.reverting) : Resting(i)}
     IN  \E left \in SUBSET resting :
           /\ IF left = {} THEN UNCHANGED faults ELSE Fault("revert_fail")
           /\ ExchangeCancels(resting \ left)
           /\ postStages' = (postStages \ {s}) \cup {[s EXCEPT !.reverting = {}]}
           /\ Send(PostBatchMsg(s, Reverted(s.reverting)))

PostDone(s) ==
  /\ s.reverting = {}
  /\ s.todo = {}
  /\ postStages' = postStages \ {s}
  /\ Send([type |-> "PostFinished", gen |-> s.gen, at |-> s.at, fatal |-> FALSE])
  /\ UNCHANGED <<exVars, faults>>

PostStep(s) ==
  /\ PostSend(s) \/ PostRevert(s) \/ PostDone(s)
  /\ UNCHANGED <<slotVars, cacheVars, cancelStages, sweeps, seedq, envVars>>

(* cancel_on_fill and the cancel of an unknown order: a detached call      *)
(* whose answer is only logged.                                            *)
SweepStep(w) ==
  /\ LET resting == {i \in w : Resting(i)}
     IN  \E left \in SUBSET resting :
           /\ IF left = {} THEN UNCHANGED faults ELSE Fault("sweep_fail")
           /\ ExchangeCancels(resting \ left)
  /\ sweeps' = sweeps \ {w}
  /\ UNCHANGED <<slotVars, cacheVars, taskVars, internal, seedq, envVars>>

-----------------------------------------------------------------------------
(***************************************************************************)
(* on_internal_msg.                                                        *)
(***************************************************************************)
(* Mutant: messages of older generations are handled.                     *)
NeverStale(m) == FALSE

Stale(m) == m.gen # gen

Receive(type) == /\ internal # <<>>
                 /\ Head(internal).type = type
                 /\ internal' = Tail(internal)

DropStale ==
  /\ internal # <<>>
  /\ Stale(Head(internal))
  /\ internal' = Tail(internal)
  /\ UNCHANGED <<slotVars, cacheVars, taskVars, sweeps, seedq, exVars, envVars, faults>>

(* apply_cancel_batch: canceled orders, and orders the exchange says are   *)
(* no longer live, leave the cache, by key.                                *)
CancelBatch ==
  LET m == Head(internal)
  IN  /\ Receive("CancelBatch")
      /\ ~Stale(m)
      /\ RemoveLive({c.key : c \in {d \in m.cancels : d.id \in m.gone}})
      /\ UNCHANGED <<slotVars, ticks, tracked, backoff, taskVars, sweeps, seedq, exVars,
                     envVars, faults>>

CancelFinished ==
  LET m == Head(internal)
  IN  /\ Receive("CancelFinished")
      /\ ~Stale(m)
      /\ backoff' = IF m.fatal THEN NextBackoff(m.at) ELSE backoff
      /\ Finish(~m.fatal, backoff')
      /\ UNCHANGED <<live, index, sweeps, seedq, exVars, envVars, faults>>

(* Mutant: the answers' errors and missing ids are not looked at.          *)
AcceptAll(results) == results

(* apply_post_batch: accepted orders enter the cache.                      *)
Accepted(results) == {r \in results : r.err = "none" /\ r.id # None}
Posted(r, at) == [id |-> r.id, px |-> r.px, sz |-> r.sz, rem |-> r.sz, upd |-> at]

PostBatch ==
  LET m  == Head(internal)
      ok == Accepted(m.results)
  IN  /\ Receive("PostBatch")
      /\ ~Stale(m)
      /\ failed' = (failed \/ \E r \in m.results : r.err = "error")
      /\ live' = [k \in Keys |->
           IF \E r \in ok : r.key = k
           THEN Posted(CHOOSE r \in ok : r.key = k, m.at) ELSE live[k]]
      /\ index' = [i \in Ids |->
           IF \E r \in ok : r.id = i
           THEN (CHOOSE r \in ok : r.id = i).key ELSE index[i]]
      /\ tracked' = tracked \cup {TokenOf(r.key) : r \in ok}
      /\ UNCHANGED <<gen, busy, stage, current, pending, ticks, backoff, taskVars, sweeps,
                     seedq, exVars, envVars, faults>>

PostFinished ==
  LET m == Head(internal)
  IN  /\ Receive("PostFinished")
      /\ ~Stale(m)
      /\ backoff' = IF m.fatal \/ failed THEN NextBackoff(m.at) ELSE NoBackoff
      /\ Finish(FALSE, backoff')
      /\ UNCHANGED <<live, index, sweeps, seedq, exVars, envVars, faults>>

-----------------------------------------------------------------------------
(***************************************************************************)
(* handle_user_order_update.                                               *)
(***************************************************************************)
(* The orders a fill of o (at key k) sweeps away: the rest of its token,   *)
(* but only shallow or near orders when the other token has nothing live.  *)
FillSweep(k, px, cache) ==
  LET t       == TokenOf(k)
      open(x) == cache[x] # None /\ cache[x].rem > 0
      repairOnly == ~ \E x \in Keys : TokenOf(x) # t /\ open(x)
      near(x) == /\ NearTicks > 0 /\ ticks[t].num > 0
                 /\ Abs(cache[x].px - px) * ticks[t].den <= NearTicks * ticks[t].num
      swept   == {x \in Keys : /\ TokenOf(x) = t /\ open(x)
                               /\ \/ ~SelectiveCancel \/ ~repairOnly
                                  \/ LevelOf(x) <= RepairMaxLevel
                                  \/ near(x)}
  IN  {cache[x].id : x \in swept}

Spawn(ids) ==
  \/ ids # {} /\ TRUE \in LimiterAnswers /\ sweeps' = sweeps \cup {ids}
  \/ ids = {} /\ UNCHANGED sweeps
  \/ ids # {} /\ FALSE \in LimiterAnswers /\ UNCHANGED sweeps

Known(i) == index[i] # None /\ live[index[i]] # None

(* A cancellation or a fill of the whole order removes it; another update  *)
(* stores the matched size, and a rise of it counts as a fill.             *)
KnownOrderUpdate(i, u) ==
  LET k    == index[i]
      o    == live[k]
      rem  == IF o.sz >= u.matched THEN o.sz - u.matched ELSE 0
      gone == u.kind = "cancellation" \/ rem = 0
      fill == u.kind # "cancellation" /\ u.matched > o.sz - o.rem
  IN  /\ Known(i)
      /\ IF gone THEN RemoveLive({k})
                 ELSE InsertLive(k, [o EXCEPT !.rem = rem, !.upd = now])
      /\ IF fill THEN Spawn(FillSweep(k, o.px, live')) ELSE UNCHANGED sweeps

(* An update that may be about a live order the cache does not know: the   *)
(* order is canceled, when its token is tracked.                           *)
UnknownOrderUpdate(i, u) ==
  /\ ~Known(i)
  /\ IF u.kind # "cancellation" /\ TokenOf(i[1]) \in tracked
     THEN Spawn({i}) ELSE UNCHANGED sweeps
  /\ UNCHANGED <<live, index>>

UserOrderUpdate(i) ==
  /\ ws[i] # <<>>
  /\ ws' = [ws EXCEPT ![i] = Tail(@)]
  /\ KnownOrderUpdate(i, Head(ws[i])) \/ UnknownOrderUpdate(i, Head(ws[i]))
  /\ UNCHANGED <<slotVars, ticks, tracked, backoff, taskVars, internal, seedq, book,
                 envVars, faults>>

-----------------------------------------------------------------------------
(***************************************************************************)
(* Reconciliation after a reconnect: run_user_ws_open_orders_resync_loop   *)
(* reads the resting orders, gives each a level by price rank              *)
(* (map_open_orders) and seeds the cache.  No resting order, no seed.      *)
(***************************************************************************)
Ahead(j, i) ==
  LET better == IF SideOf(i[1]) = "buy" THEN book[j].px > book[i].px
                                        ELSE book[j].px < book[i].px
      tie    == \/ book[j].born < book[i].born
                \/ /\ book[j].born = book[i].born
                   /\ \/ LevelOf(j[1]) < LevelOf(i[1])
                      \/ LevelOf(j[1]) = LevelOf(i[1]) /\ j[2] < i[2]
  IN  /\ TokenOf(j[1]) = TokenOf(i[1]) /\ SideOf(j[1]) = SideOf(i[1])
      /\ better \/ (book[j].px = book[i].px /\ tie)

OpenOrders == {i \in Ids : Resting(i)}
Rank(i) == Cardinality({j \in OpenOrders : Ahead(j, i)})
SeedKey(i) == <<TokenOf(i[1]), SideOf(i[1]), Rank(i)>>

SeedOrders ==
  [k \in Keys |->
     IF \E i \in OpenOrders : SeedKey(i) = k
     THEN LET i == CHOOSE j \in OpenOrders : SeedKey(j) = k
          IN  [id |-> i, px |-> book[i].px, sz |-> book[i].sz,
               rem |-> book[i].sz - book[i].matched, upd |-> book[i].born]
     ELSE None]

Resync ==
  /\ seeds < MaxSeeds
  /\ seeds' = seeds + 1
  /\ OpenOrders # {}
  /\ \A i \in OpenOrders : Rank(i) <= MaxLevel
  /\ seedq' = Append(seedq, SeedOrders)
  /\ UNCHANGED <<slotVars, cacheVars, taskVars, sweeps, internal, exVars, now, wanted,
                 cmds, faults>>

(* Mutant: a reseed leaves the slot to the running stage.                  *)
KeepStage == UNCHANGED slotVars

AbandonStage == gen' = gen + 1 /\ GoIdle

IndexOf(cache) ==
  [i \in Ids |->
     IF \E k \in Keys : cache[k] # None /\ cache[k].id = i
     THEN CHOOSE k \in Keys : cache[k] # None /\ cache[k].id = i ELSE None]

(* apply_seed_orders: the cache is replaced and the slot abandons its      *)
(* stage by moving to a new generation.                                    *)
ApplySeed ==
  LET seed == Head(seedq)
  IN  /\ seedq # <<>>
      /\ seedq' = Tail(seedq)
      /\ live' = seed
      /\ index' = IndexOf(seed)
      /\ tracked' = {TokenOf(k) : k \in {x \in Keys : seed[x] # None}}
      /\ AbandonStage
      /\ UNCHANGED <<ticks, backoff, taskVars, sweeps, internal, exVars, envVars, faults>>

-----------------------------------------------------------------------------
Loop == \/ DropStale \/ CancelBatch \/ CancelFinished \/ PostBatch \/ PostFinished
        \/ ApplySeed

Next ==
  \/ \E cmd \in Commands : ExecCommand(cmd)
  \/ \E s \in cancelStages : CancelStep(s)
  \/ \E s \in postStages : PostStep(s)
  \/ \E w \in sweeps : SweepStep(w)
  \/ DropStale \/ CancelBatch \/ CancelFinished \/ PostBatch \/ PostFinished
  \/ ApplySeed \/ Resync
  \/ \E i \in Ids : UserOrderUpdate(i) \/ Fill(i) \/ SweptByOther(i) \/ LoseUpdate(i)
  \/ ClockTick

Spec == Init /\ [][Next]_vars

(***************************************************************************)
(* The select loop keeps serving its channels, and every REST call ends:   *)
(* the spawned stages and sweeps run to their end.                         *)
(***************************************************************************)
Fairness ==
  /\ WF_vars(Loop)
  /\ WF_vars(\E s \in cancelStages : CancelStep(s))
  /\ WF_vars(\E s \in postStages : PostStep(s))
  /\ WF_vars(\E w \in sweeps : SweepStep(w))
  /\ \A i \in Ids : WF_vars(UserOrderUpdate(i))

FairSpec == Spec /\ Fairness
=============================================================================
