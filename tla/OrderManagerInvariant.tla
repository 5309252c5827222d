----------------------- MODULE OrderManagerInvariant -----------------------
(***************************************************************************)
(* The inductive invariant behind the safety properties of OrderManager:   *)
(* what they need to know of the exchange, of the generations and of the   *)
(* messages and stages that are under way.                                 *)
(***************************************************************************)
EXTENDS OrderManagerProperties

Born(i) == book[i].st # "unborn"
Dead(i) == book[i].st \in {"filled", "canceled"}

(* The exchange's own books: a resting order has something left to match,  *)
(* and an order that was never placed has no history.                      *)
BookSound ==
  \A i \in Ids :
    /\ book[i].matched <= book[i].sz
    /\ Resting(i) => book[i].matched < book[i].sz
    /\ ~Born(i) => book[i].matched = 0 /\ ws[i] = <<>>

(* No user update runs ahead of the exchange.                              *)
UpdatesAreTrue ==
  \A i \in Ids : \A n \in 1..Len(ws[i]) :
    /\ ws[i][n].matched <= book[i].matched
    /\ ws[i][n].kind = "cancellation" => Dead(i)

(* What OrderManager has been told of its orders is true of the book: it   *)
(* was placed, and with that size.                                         *)
TrueOf(i, sz) == Born(i) /\ book[i].sz = sz
CacheTrue(cache) == \A k \in Keys : cache[k] # None => TrueOf(cache[k].id, cache[k].sz)
OwnKey(r) == r.id \in Ids /\ r.id[1] = r.key /\ TrueOf(r.id, r.sz)

MessageTrue(m) ==
  /\ m.type = "PostBatch" => \A r \in Accepted(m.results) : OwnKey(r)
  /\ m.type = "CancelBatch" => \A i \in m.gone : Dead(i)

SeedsTrue    == \A n \in 1..Len(seedq) : CacheTrue(seedq[n])
CancelsTrue  == \A s \in cancelStages : \A c \in s.todo : Born(c.id)
RevertsTrue  == \A s \in postStages : \A r \in Accepted(s.reverting) : OwnKey(r)
MessagesTrue == \A n \in 1..Len(internal) : MessageTrue(internal[n])

OrdersAreTrue ==
  CacheTrue(live) /\ SeedsTrue /\ CancelsTrue /\ RevertsTrue /\ MessagesTrue

(* A reseed names every order under one key only.                          *)
SeedsAreInjective ==
  \A n \in 1..Len(seedq) : \A k, j \in Keys :
    seedq[n][k] # None /\ seedq[n][j] # None /\ seedq[n][k].id = seedq[n][j].id => k = j

(* Generations only ever lie behind.                                       *)
GenerationsBounded ==
  /\ \A s \in cancelStages \cup postStages : s.gen <= gen
  /\ \A n \in 1..Len(internal) : internal[n].gen <= gen

(* The stage the slot is in says which work of its generation exists.      *)
CancelTypes == {"CancelBatch", "CancelFinished"}
PostTypes   == {"PostBatch", "PostFinished"}

SlotPhase ==
  /\ busy <=> stage # None
  /\ stage # "posting" => /\ CurrentPosts = {}
                          /\ \A n \in CurrentMsgs : internal[n].type \notin PostTypes
  /\ stage # "canceling" => /\ CurrentCancels = {}
                            /\ \A n \in CurrentMsgs : internal[n].type \notin CancelTypes

(* A stage posts one order per key, and the posts of the slot's generation *)
(* (still to do, being reverted or answered) have different keys.          *)
OnePerKey(S) == \A p, q \in S : p.key = q.key => p = q
ApartKeys(S, T) == \A p \in S, q \in T : p.key # q.key

PlansAreDistinct == \A s \in postStages : OnePerKey(s.todo)

PostsAreDistinct ==
  /\ \A s \in CurrentPosts : /\ OnePerKey(s.reverting)
                             /\ ApartKeys(s.todo, s.reverting)
  /\ \A n \in CurrentMsgs : internal[n].type = "PostBatch" =>
       /\ OnePerKey(internal[n].results)
       /\ \A s \in CurrentPosts : /\ ApartKeys(internal[n].results, s.todo)
                                  /\ ApartKeys(internal[n].results, s.reverting)
       /\ \A m \in CurrentMsgs : internal[m].type = "PostBatch" /\ m # n =>
            ApartKeys(internal[n].results, internal[m].results)

(* An order that has been placed but not yet entered is not in the index.  *)
AnswersAreNew ==
  \A n \in CurrentMsgs : internal[n].type = "PostBatch" =>
    \A r \in Accepted(internal[n].results) : index[r.id] = None

Inductive ==
  /\ TypeOK
  /\ BookSound /\ UpdatesAreTrue /\ OrdersAreTrue /\ SeedsAreInjective
  /\ GenerationsBounded /\ SlotPhase /\ BusyMeansOneStage
  /\ CacheConsistent /\ PlansAreDistinct /\ PostsAreDistinct /\ AnswersAreNew
  /\ CancelsHitOwnOrder /\ PostsLandOnFreeKeys

(* Without reseeds every order is cached under the key it was posted for,  *)
(* and the slot leaves no work of a generation behind when it moves on.    *)
HomeKeys == \A k \in Keys : live[k] # None => live[k].id[1] = k

NothingStale ==
  /\ \A s \in cancelStages \cup postStages : s.gen = gen
  /\ \A n \in 1..Len(internal) : internal[n].gen = gen

Accounting == NothingStale /\ HomeKeys /\ NoOrphanedOrder
=============================================================================
