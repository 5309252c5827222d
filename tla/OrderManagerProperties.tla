----------------------- MODULE OrderManagerProperties -----------------------
(***************************************************************************)
(* What OrderManager promises, stated over the state of OrderManager.tla.  *)
(***************************************************************************)
EXTENDS OrderManager

(* The stages that run for the slot's generation, and the positions in the *)
(* internal channel of the message that ends such a stage.                 *)
CurrentCancels == {s \in cancelStages : s.gen = gen}
CurrentPosts   == {s \in postStages : s.gen = gen}
CurrentMsgs    == {n \in 1..Len(internal) : internal[n].gen = gen}
CurrentEnds    == {n \in CurrentMsgs :
                     internal[n].type \in {"CancelFinished", "PostFinished"}}

(***************************************************************************)
(* order_id_index is the inverse of the map of live orders: a user update  *)
(* finds the order it is about, and no index entry outlives its order.     *)
(* The tests assert it after single operations (assert_cache_consistent,   *)
(* order_manager.rs:3819); here it holds through every interleaving of     *)
(* stages, user updates and reseeds, although insert_live overwrites a     *)
(* live entry without looking at the index.                                *)
(***************************************************************************)
CacheConsistent ==
  /\ \A k \in Keys : live[k] # None => index[live[k].id] = k
  /\ \A i \in Ids : index[i] # None => /\ live[index[i]] # None
                                       /\ live[index[i]].id = i

(***************************************************************************)
(* The slot is busy exactly while one stage of its generation is on its    *)
(* way to report: it runs, or its last message is in the channel, never    *)
(* both, and nothing of the stage follows that message.  So a busy slot    *)
(* always gets free, no command runs two stages at once, and an idle slot  *)
(* holds no pending command.                                               *)
(***************************************************************************)
BusyMeansOneStage ==
  /\ busy <=> (CurrentCancels \cup CurrentPosts # {} \/ CurrentEnds # {})
  /\ CurrentCancels = {} \/ CurrentPosts = {}
  /\ \A s, t \in CurrentCancels : s = t
  /\ \A s, t \in CurrentPosts : s = t
  /\ CurrentEnds # {} => CurrentCancels \cup CurrentPosts = {}
  /\ \A n \in CurrentEnds, m \in CurrentMsgs : m <= n
  /\ ~busy => pending = None

(***************************************************************************)
(* apply_cancel_batch removes by key, not by order id.  That is safe       *)
(* because no cancel of the current generation, running or already         *)
(* answered, ever aims at a key that holds another order by now.           *)
(***************************************************************************)
Holds(k, i) == live[k] # None => live[k].id = i

CancelsHitOwnOrder ==
  /\ \A s \in CurrentCancels : \A c \in s.todo : Holds(c.key, c.id)
  /\ \A n \in CurrentMsgs : internal[n].type = "CancelBatch" =>
       \A c \in internal[n].cancels : Holds(c.key, c.id)

(***************************************************************************)
(* apply_post_batch inserts without looking.  No post of the current       *)
(* generation, running or already answered, lands on a key that holds an   *)
(* order, so no live order is overwritten and forgotten.                   *)
(***************************************************************************)
PostsLandOnFreeKeys ==
  /\ \A s \in CurrentPosts : \A p \in s.todo \cup s.reverting : live[p.key] = None
  /\ \A n \in CurrentMsgs : internal[n].type = "PostBatch" =>
       \A r \in internal[n].results : live[r.key] = None

(***************************************************************************)
(* Except when reconciliation replaces the whole cache, an order leaves    *)
(* the cache only if the exchange no longer holds it: neither a late or    *)
(* stale cancel answer, a terminal cancel failure, a user update nor a     *)
(* post makes OrderManager forget an order that can still be filled.       *)
(***************************************************************************)
ForgetsOnlyDeadOrders ==
  [][\A k \in Keys :
       (/\ seedq' = seedq \/ Len(seedq') > Len(seedq)
        /\ live[k] # None
        /\ live'[k] = None \/ live'[k].id # live[k].id)
       => ~Resting(live[k].id)]_vars

(***************************************************************************)
(* Every resting order is accounted for: the cache holds it, the answer    *)
(* that will put it there is in the channel, or the stage that placed it   *)
(* is about to revert it.  It is what "never double-posts or loses track   *)
(* of live orders" (01_EXECUTIVE_SUMMARY.md:78) asks, for exchanges whose  *)
(* post calls have no ambiguous error and without reseeds.                 *)
(***************************************************************************)
Accounted(i) ==
  \/ index[i] # None
  \/ \E n \in CurrentMsgs : /\ internal[n].type = "PostBatch"
                            /\ \E r \in Accepted(internal[n].results) : r.id = i
  \/ \E s \in CurrentPosts : \E r \in Accepted(s.reverting) : r.id = i

NoOrphanedOrder == \A i \in Ids : Resting(i) => Accounted(i)

(***************************************************************************)
(* At most one order rests per (token, side, level): "no duplicate orders  *)
(* per (token, level) intent" (03_EXECUTION_CORRECTNESS.md:130).           *)
(***************************************************************************)
OneOrderPerKey ==
  \A k \in Keys : \A m, n \in 1..MaxPerKey :
    Resting(<<k, m>>) /\ Resting(<<k, n>>) => m = n

(***************************************************************************)
(* A stop is carried out: when the last command of the strategy wants no   *)
(* orders, the exchange ends up with none, whatever stage was running when *)
(* it came and however often cancels are refused.                          *)
(***************************************************************************)
StopEmptiesBook ==
  (cmds = MaxCmds /\ wanted = NoOrders) ~> (OpenOrders = {})

(* A busy slot becomes idle, or moves to another generation's stage: no    *)
(* command waits forever behind a stage that has ended.                    *)
PendingGetsItsTurn == (pending # None) ~> (pending = None)

(***************************************************************************)
(* "cache state converges to exchange state" (03_EXECUTION_CORRECTNESS.md: *)
(* 129): an order the exchange no longer holds leaves the cache.           *)
(***************************************************************************)
Ghost(i) == index[i] # None /\ ~Resting(i)
GhostsLeaveTheCache == \A i \in Ids : Ghost(i) ~> ~Ghost(i)
=============================================================================
