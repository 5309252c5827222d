------------------------- MODULE OrderManagerProofs -------------------------
(***************************************************************************)
(* The proofs about OrderManager, in the order in which they build on each *)
(* other: the diff, types, the slot protocol, the truth of what the actor  *)
(* has been told, the answers under way to its cache, and last the account *)
(* of every order.  The invariants are those of OrderManagerInvariant.     *)
(***************************************************************************)
EXTENDS OrderManagerInvariant, TLAPS

-----------------------------------------------------------------------------
(***************************************************************************)
(* What diff_orders and the tick inference return, for every ladder, cache *)
(* and clock: the lemmas the proofs about OrderManager cite.               *)
(***************************************************************************)

Desired == [Keys -> Quote \cup {None}]
Cache   == [Keys -> LiveOrder \cup {None}]
Ticks   == [Tokens -> [num : Nat, den : Nat]]

LEMMA AbsType == \A x \in Int : Abs(x) \in Nat
  BY DEF Abs

(* The inferred ticks are ticks, whatever the ladder looks like.           *)
LEMMA InferTicksType ==
  ASSUME NEW cmd \in Desired, NEW known \in Ticks
  PROVE  InferTicks(cmd, known) \in Ticks
<1> SUFFICES ASSUME NEW t \in Tokens
             PROVE  InferTick(cmd, t, known[t]) \in [num : Nat, den : Nat]
  BY DEF InferTicks, Ticks
<1> DEFINE two  == ShallowestTwo(LadderLevels(cmd, t))
           pair == CHOOSE p \in two : TRUE
           px(l) == cmd[<<t, "buy", l>>].px
           gap  == Abs(px(pair[1]) - px(pair[2]))
<1>1. known[t] \in [num : Nat, den : Nat]
  BY DEF Ticks
<1>2. CASE two = {}
  BY <1>1, <1>2 DEF InferTick
<1>3. CASE two # {}
  <2>1. pair \in LadderLevels(cmd, t) \X LadderLevels(cmd, t) /\ pair[1] < pair[2]
    BY <1>3 DEF ShallowestTwo
  <2>2. \A l \in LadderLevels(cmd, t) : l \in Nat /\ px(l) \in Nat
    BY NoneAssumption, DiffAssumption DEF LadderLevels, Desired, Keys, Quote
  <2>3. px(pair[1]) \in Nat /\ px(pair[2]) \in Nat /\ pair[1] \in Nat /\ pair[2] \in Nat
    BY <2>1, <2>2
  <2>4. gap \in Nat
    BY <2>3, AbsType
  <2>5. LadderStep * (pair[2] - pair[1]) \in Nat
    BY <2>1, <2>3, DiffAssumption
  <2> QED
    BY <1>1, <2>4, <2>5 DEF InferTick
<1> QED
  BY <1>2, <1>3

(* A cancel of the plan names the order that lives under its key.          *)
LEMMA DiffCancelsHit ==
  ASSUME NEW cmd \in Desired, NEW cache \in Cache, NEW tk, NEW t,
         NEW c \in DiffCancels(cmd, cache, tk, t)
  PROVE  /\ c \in CancelAction
         /\ cache[c.key] # None
         /\ c.id = cache[c.key].id
<1>1. PICK k \in CancelKeys(cmd, cache, tk, t) : c = [key |-> k, id |-> cache[k].id]
  BY DEF DiffCancels
<1>2. k \in Keys /\ cache[k] # None
  BY <1>1 DEF CancelKeys, Replaces
<1>3. cache[k] \in LiveOrder
  BY <1>2 DEF Cache
<1> QED
  BY <1>1, <1>2, <1>3 DEF CancelAction, LiveOrder

(* The posts of the plan are one quote per key.                            *)
LEMMA DiffPostsDistinct ==
  ASSUME NEW cmd \in Desired, NEW cache \in Cache, NEW tk, NEW t
  PROVE  /\ DiffPosts(cmd, cache, tk, t) \subseteq DesiredOrder
         /\ OnePerKey(DiffPosts(cmd, cache, tk, t))
<1>1. ASSUME NEW k \in PostKeys(cmd, cache, tk, t)
      PROVE  k \in Keys /\ cmd[k] \in Quote
  BY <1>1 DEF PostKeys, Replaces, Desired
<1> QED
  BY <1>1 DEF DiffPosts, OnePerKey, DesiredOrder, Quote

(* A plan without cancels posts only where nothing lives.                  *)
LEMMA DiffPostsFree ==
  ASSUME NEW cmd \in Desired, NEW cache \in Cache, NEW tk, NEW t,
         DiffCancels(cmd, cache, tk, t) = {}
  PROVE  \A p \in DiffPosts(cmd, cache, tk, t) : cache[p.key] = None
<1>1. CancelKeys(cmd, cache, tk, t) = {}
  BY DEF DiffCancels
<1>2. \A k \in PostKeys(cmd, cache, tk, t) : cache[k] = None
  BY <1>1 DEF PostKeys, CancelKeys
<1> QED
  BY <1>2 DEF DiffPosts

-----------------------------------------------------------------------------
(***************************************************************************)
(* Type correctness of OrderManager, together with BookSound (a reseed     *)
(* computes remaining sizes, which are numbers because no order is matched *)
(* beyond its size).                                                       *)
(***************************************************************************)

Typed == TypeOK /\ BookSound /\ PlansAreDistinct

-----------------------------------------------------------------------------
(* The exchange.                                                           *)

LEMMA FreshIdIsUnborn ==
  ASSUME NEW k \in Keys, HasFreshId(k)
  PROVE  /\ FreshId(k) \in Ids
         /\ FreshId(k)[1] = k
         /\ book[FreshId(k)].st = "unborn"
  BY DEF HasFreshId, FreshId, Ids

(* What a placement does to the order it creates and to all others.        *)
LEMMA PlacedOrders ==
  ASSUME TypeOK, NEW A \in SUBSET DesiredOrder, OnePerKey(A),
         \A p \in A : HasFreshId(p.key),
         ExchangePlaces(A)
  PROVE  /\ book' \in [Ids -> OrderState]
         /\ ws' \in [Ids -> Seq(UserUpdate)]
         /\ \A p \in A : /\ FreshId(p.key) \in Ids
                         /\ FreshId(p.key)[1] = p.key
                         /\ book[FreshId(p.key)].st = "unborn"
                         /\ book'[FreshId(p.key)] = [st |-> "live", px |-> p.px, sz |-> p.sz,
                                                     matched |-> 0, born |-> now]
                         /\ ws'[FreshId(p.key)] =
                              Append(ws[FreshId(p.key)], [kind |-> "placement", matched |-> 0])
         /\ \A i \in Ids : i \notin {FreshId(p.key) : p \in A} =>
              book'[i] = book[i] /\ ws'[i] = ws[i]
<1> DEFINE ids == {FreshId(p.key) : p \in A}
           born(i) == CHOOSE p \in A : FreshId(p.key) = i
           u == [kind |-> "placement", matched |-> 0]
<1>1. \A p \in A : /\ p \in DesiredOrder
                   /\ FreshId(p.key) \in Ids
                   /\ FreshId(p.key)[1] = p.key
                   /\ book[FreshId(p.key)].st = "unborn"
  BY FreshIdIsUnborn DEF DesiredOrder
<1>2. \A p, q \in A : FreshId(p.key) = FreshId(q.key) => p = q
  BY <1>1 DEF OnePerKey
<1>3. \A p \in A : born(FreshId(p.key)) = p
  BY <1>2
<1>4. \A i \in ids : born(i) \in A
  BY <1>3
<1>5. u \in UserUpdate
  BY DEF UserUpdate
<1>6. book' \in [Ids -> OrderState]
  <2>1. \A i \in Ids : (IF i \in ids
           THEN [st |-> "live", px |-> born(i).px, sz |-> born(i).sz,
                 matched |-> 0, born |-> now]
           ELSE book[i]) \in OrderState
    BY <1>1, <1>4 DEF TypeOK, ExchangeTyped, EnvTyped, OrderState, DesiredOrder
  <2> QED
    BY <2>1 DEF ExchangePlaces
<1>7. ws' \in [Ids -> Seq(UserUpdate)]
  BY <1>5 DEF ExchangePlaces, Tell, TypeOK, ExchangeTyped
<1>8. \A p \in A : /\ book'[FreshId(p.key)] = [st |-> "live", px |-> p.px, sz |-> p.sz,
                                                     matched |-> 0, born |-> now]
                   /\ ws'[FreshId(p.key)] = Append(ws[FreshId(p.key)], u)
  BY <1>1, <1>3 DEF ExchangePlaces, Tell
<1>9. \A i \in Ids : i \notin ids => book'[i] = book[i] /\ ws'[i] = ws[i]
  BY DEF ExchangePlaces, Tell
<1> QED
  BY <1>1, <1>6, <1>7, <1>8, <1>9

LEMMA CanceledOrders ==
  ASSUME TypeOK, NEW I \in SUBSET Ids, ExchangeCancels(I)
  PROVE  /\ book' \in [Ids -> OrderState]
         /\ ws' \in [Ids -> Seq(UserUpdate)]
         /\ \A i \in I : /\ book'[i] = [book[i] EXCEPT !.st = "canceled"]
                         /\ ws'[i] = Append(ws[i], [kind |-> "cancellation",
                                                    matched |-> book[i].matched])
         /\ \A i \in Ids \ I : book'[i] = book[i] /\ ws'[i] = ws[i]
<1>1. \A i \in Ids : /\ [book[i] EXCEPT !.st = "canceled"] \in OrderState
                     /\ [kind |-> "cancellation", matched |-> book[i].matched] \in UserUpdate
  <2> SUFFICES ASSUME NEW i \in Ids
               PROVE  /\ [book[i] EXCEPT !.st = "canceled"] \in OrderState
                      /\ [kind |-> "cancellation", matched |-> book[i].matched] \in UserUpdate
    OBVIOUS
  <2>1. book[i] \in OrderState
    BY DEF TypeOK, ExchangeTyped
  <2> QED
    BY <2>1 DEF OrderState, UserUpdate
<1>2. \A i \in Ids : ws[i] \in Seq(UserUpdate) /\ book[i] \in OrderState
  BY DEF TypeOK, ExchangeTyped
<1>3. book' \in [Ids -> OrderState]
  BY <1>1, <1>2 DEF ExchangeCancels
<1>4. ws' \in [Ids -> Seq(UserUpdate)]
  BY <1>1, <1>2 DEF ExchangeCancels
<1>5. \A i \in I : /\ book'[i] = [book[i] EXCEPT !.st = "canceled"]
                   /\ ws'[i] = Append(ws[i], [kind |-> "cancellation",
                                              matched |-> book[i].matched])
  BY ZenonT(30) DEF ExchangeCancels
<1>6. \A i \in Ids \ I : book'[i] = book[i] /\ ws'[i] = ws[i]
  BY DEF ExchangeCancels
<1> QED
  BY <1>3, <1>4, <1>5, <1>6

-----------------------------------------------------------------------------
(* The slot.                                                               *)

LEMMA StartTyped ==
  ASSUME Typed, NEW cmd \in Commands, NEW b, Start(cmd, b)
  PROVE  /\ SlotTyped'
         /\ ticks' \in Ticks /\ tracked' \subseteq Tokens
         /\ cancelStages' \subseteq CancelStage
         /\ postStages' \subseteq PostStage
         /\ PlansAreDistinct'
<1> DEFINE known   == InferTicks(cmd, ticks)
           cancels == DiffCancels(cmd, live, known, now)
           posts   == AboveFloor(DiffPosts(cmd, live, known, now))
<1>1. cmd \in Desired /\ live \in Cache /\ ticks \in Ticks
  BY ManagerAssumption DEF Desired, Cache, Ticks, TypeOK, CacheTyped, Typed
<1>2. known \in Ticks
  BY <1>1, InferTicksType
<1>3. cancels \subseteq CancelAction
  BY <1>1, DiffCancelsHit
<1>4. posts \subseteq DesiredOrder /\ OnePerKey(posts)
  BY <1>1, DiffPostsDistinct DEF AboveFloor, OnePerKey
<1>5. gen' \in Nat /\ gen' = gen + 1 /\ now \in Nat
  BY DEF Start, Typed, TypeOK, SlotTyped, EnvTyped
<1>6. ticks' \in Ticks /\ tracked' \subseteq Tokens
  BY <1>2 DEF Start, Typed, TypeOK, CacheTyped, TokenOf, Keys
<1>7. CASE StartCancels(cmd, cancels)
  <2>1. [gen |-> gen', at |-> now, todo |-> cancels] \in CancelStage
    BY <1>3, <1>5 DEF CancelStage
  <2> QED
    BY <1>5, <1>6, <1>7, <2>1
    DEF StartCancels, SlotTyped, Typed, TypeOK, TasksTyped, PlansAreDistinct
<1>8. CASE StartPosts(cmd, cancels, posts, b)
  <2>1. [gen |-> gen', at |-> now, todo |-> posts, reverting |-> {}] \in PostStage
    BY <1>4, <1>5 DEF PostStage
  <2>2. SlotTyped'
    BY <1>5, <1>8 DEF StartPosts, SlotTyped
  <2>3. postStages' \subseteq PostStage /\ cancelStages' \subseteq CancelStage
    BY <1>8, <2>1 DEF StartPosts, Typed, TypeOK, TasksTyped
  <2>4. PlansAreDistinct'
    BY <1>4, <1>8 DEF StartPosts, Typed, PlansAreDistinct
  <2> QED
    BY <1>6, <2>2, <2>3, <2>4
<1>9. CASE NothingToStart(cancels, posts, b)
  BY <1>5, <1>6, <1>9
  DEF NothingToStart, GoIdle, SlotTyped, Typed, TypeOK, TasksTyped, PlansAreDistinct
<1> QED
  BY <1>7, <1>8, <1>9 DEF Start

LEMMA FinishTyped ==
  ASSUME Typed, NEW continue \in BOOLEAN, NEW b, Finish(continue, b)
  PROVE  /\ SlotTyped'
         /\ ticks' \in Ticks /\ tracked' \subseteq Tokens
         /\ cancelStages' \subseteq CancelStage
         /\ postStages' \subseteq PostStage
         /\ PlansAreDistinct'
<1>1. CASE NextCommand(continue) = None
  BY <1>1 DEF Finish, GoIdle, taskVars, Typed, TypeOK, SlotTyped, CacheTyped, TasksTyped,
              PlansAreDistinct, Ticks
<1>2. CASE NextCommand(continue) # None
  <2>1. NextCommand(continue) \in Commands
    BY <1>2 DEF NextCommand, Typed, TypeOK, SlotTyped
  <2>2. Start(NextCommand(continue), b)
    BY <1>2 DEF Finish
  <2> QED
    BY <2>1, <2>2, StartTyped
<1> QED
  BY <1>1, <1>2

-----------------------------------------------------------------------------
(* Messages and frames.                                                    *)

LEMMA MessageFields ==
  ASSUME NEW m \in OmInternal
  PROVE  /\ m.gen \in Nat /\ m.at \in Nat
         /\ m.type \in CancelTypes \cup PostTypes
         /\ m.type = "CancelBatch" => m.cancels \subseteq CancelAction /\ m.gone \subseteq Ids
         /\ m.type = "PostBatch" => m.results \subseteq PostResult
         /\ m.type \in {"CancelFinished", "PostFinished"} => m.fatal \in BOOLEAN
  BY DEF OmInternal, CancelTypes, PostTypes

LEMMA ReceiveTyped ==
  ASSUME ChannelsTyped, internal # <<>>
  PROVE  Head(internal) \in OmInternal /\ Tail(internal) \in Seq(OmInternal)
  BY DEF ChannelsTyped

LEMMA SendTyped ==
  ASSUME ChannelsTyped, NEW m \in OmInternal, Send(m)
  PROVE  internal' \in Seq(OmInternal)
  BY DEF ChannelsTyped, Send

LEMMA TypedFrames ==
  ASSUME Typed
  PROVE  /\ UNCHANGED slotVars => SlotTyped'
         /\ UNCHANGED cacheVars => CacheTyped'
         /\ UNCHANGED taskVars => /\ cancelStages' \subseteq CancelStage
                                  /\ postStages' \subseteq PostStage
                                  /\ PlansAreDistinct'
         /\ UNCHANGED sweeps => sweeps' \subseteq SUBSET Ids
         /\ UNCHANGED internal => internal' \in Seq(OmInternal)
         /\ UNCHANGED seedq => seedq' \in Seq(Cache)
         /\ UNCHANGED exVars => ExchangeTyped' /\ BookSound'
         /\ UNCHANGED envVars /\ faults' \in Nat => EnvTyped'
         /\ faults \in Nat /\ (\A kind : Fault(kind) => faults' \in Nat)
         /\ now \in Nat
<1> USE DEF Typed, TypeOK
<1>1. UNCHANGED slotVars => SlotTyped'
  BY DEF slotVars, SlotTyped
<1>2. UNCHANGED cacheVars => CacheTyped'
  BY DEF cacheVars, CacheTyped
<1>3. UNCHANGED taskVars => /\ cancelStages' \subseteq CancelStage
                            /\ postStages' \subseteq PostStage
                            /\ PlansAreDistinct'
  BY DEF taskVars, TasksTyped, PlansAreDistinct
<1>4. UNCHANGED sweeps => sweeps' \subseteq SUBSET Ids
  BY DEF TasksTyped
<1>5. /\ UNCHANGED internal => internal' \in Seq(OmInternal)
      /\ UNCHANGED seedq => seedq' \in Seq(Cache)
  BY DEF ChannelsTyped, Cache
<1>6. UNCHANGED exVars => ExchangeTyped' /\ BookSound'
  BY DEF exVars, ExchangeTyped, BookSound, Resting, Born
<1>7. UNCHANGED envVars /\ faults' \in Nat => EnvTyped'
  BY DEF envVars, EnvTyped
<1>8. faults \in Nat /\ (\A kind : Fault(kind) => faults' \in Nat) /\ now \in Nat
  BY DEF EnvTyped, Fault
<1> QED
  BY <1>1, <1>2, <1>3, <1>4, <1>5, <1>6, <1>7, <1>8

(* A cancellation, a fill and a placement keep the books sound.            *)
LEMMA CancelsSound ==
  ASSUME Typed, NEW I \in SUBSET Ids, \A i \in I : Resting(i), ExchangeCancels(I)
  PROVE  ExchangeTyped' /\ BookSound'
<1>1. ExchangeTyped'
  BY CanceledOrders DEF Typed, ExchangeTyped
<1>2. ASSUME NEW i \in I
      PROVE  book'[i].st = "canceled" /\ book'[i].sz = book[i].sz
             /\ book'[i].matched = book[i].matched
  <2>1. book[i] \in OrderState
    BY DEF Typed, TypeOK, ExchangeTyped
  <2>2. book'[i] = [book[i] EXCEPT !.st = "canceled"]
    BY CanceledOrders DEF Typed
  <2> QED
    BY <2>1, <2>2 DEF OrderState
<1>3. \A i \in Ids \ I : book'[i] = book[i] /\ ws'[i] = ws[i]
  BY CanceledOrders DEF Typed
<1>4. BookSound'
  BY <1>2, <1>3 DEF Typed, BookSound, Resting, Born
<1> QED
  BY <1>1, <1>4

LEMMA PlacesSound ==
  ASSUME Typed, NEW A \in SUBSET DesiredOrder, OnePerKey(A),
         \A p \in A : HasFreshId(p.key), ExchangePlaces(A)
  PROVE  ExchangeTyped' /\ BookSound'
<1>1. ExchangeTyped'
  BY PlacedOrders DEF Typed, ExchangeTyped
<1>2. ASSUME NEW p \in A
      PROVE  LET o == book'[FreshId(p.key)]
             IN  o.st = "live" /\ o.matched = 0 /\ o.sz \in Nat /\ o.sz > 0
  <2>1. book'[FreshId(p.key)] = [st |-> "live", px |-> p.px, sz |-> p.sz,
                                 matched |-> 0, born |-> now]
    BY PlacedOrders DEF Typed
  <2>2. p.sz \in Nat /\ p.sz > 0
    BY DEF DesiredOrder
  <2> QED
    BY <2>1, <2>2
<1>3. \A i \in Ids : i \notin {FreshId(p.key) : p \in A} => book'[i] = book[i] /\ ws'[i] = ws[i]
  BY PlacedOrders DEF Typed
<1>4. BookSound'
  BY <1>2, <1>3 DEF Typed, BookSound, Resting, Born
<1> QED
  BY <1>1, <1>4

-----------------------------------------------------------------------------
(* The steps of the environment.                                           *)

LEMMA FillTyped ==
  ASSUME Typed, NEW i \in Ids, Fill(i)
  PROVE  Typed'
<1> DEFINE m == book[i].matched + 1
           o == [book[i] EXCEPT !.matched = m,
                                !.st = IF m = book[i].sz THEN "filled" ELSE "live"]
<1>1. book[i] \in OrderState /\ book \in [Ids -> OrderState] /\ ws \in [Ids -> Seq(UserUpdate)]
  BY DEF Typed, TypeOK, ExchangeTyped
<1>2. m \in Nat /\ o \in OrderState
  <2>1. m \in Nat
    BY <1>1 DEF OrderState
  <2> DEFINE st == IF m = book[i].sz THEN "filled" ELSE "live"
  <2>2. st \in {"unborn", "live", "filled", "canceled"}
    OBVIOUS
  <2> HIDE DEF m, st
  <2>3. [book[i] EXCEPT !.matched = m, !.st = st] \in OrderState
    BY <1>1, <2>1, <2>2 DEF OrderState
  <2> USE DEF m, st
  <2> QED
    BY <2>1, <2>3
<1>3. book' = [book EXCEPT ![i] = o]
  BY DEF Fill
<1>4. [kind |-> "update", matched |-> m] \in UserUpdate
  BY <1>2 DEF UserUpdate
<1>5. ExchangeTyped'
  BY <1>1, <1>2, <1>3, <1>4 DEF Fill, Tell, ExchangeTyped
<1>6. book[i].matched < book[i].sz /\ book[i].st = "live"
  BY DEF Typed, BookSound, Fill, Resting
<1>7. o.matched = m /\ o.sz = book[i].sz /\ (o.st = "live" => m # book[i].sz) /\ o.st # "unborn"
  BY <1>1 DEF OrderState
<1>8. m <= book[i].sz /\ (m # book[i].sz => m < book[i].sz)
  BY <1>1, <1>2, <1>6 DEF OrderState
<1>9. /\ book'[i] = o
      /\ \A j \in Ids : j # i => book'[j] = book[j] /\ ws'[j] = ws[j]
  BY <1>1, <1>3 DEF Fill, Tell
<1>10. ASSUME NEW j \in Ids
       PROVE  /\ book'[j].matched <= book'[j].sz
              /\ (Resting(j))' => book'[j].matched < book'[j].sz
              /\ ~(Born(j))' => book'[j].matched = 0 /\ ws'[j] = <<>>
  <2>1. CASE j = i
    <3> HIDE DEF m, o
    <3>1. book'[j] = o
      BY <1>9, <2>1
    <3>2. book'[j].matched = m /\ book'[j].sz = book[i].sz /\ book'[j].st = o.st
      BY <3>1, <1>7
    <3> HIDE <1>9
    <3> QED
      BY <3>2, <1>7, <1>8 DEF Born, Resting
  <2>2. CASE j # i
    BY <1>9, <2>2 DEF Typed, BookSound, Resting, Born
  <2> QED
    BY <2>1, <2>2
<1>11. BookSound'
  BY <1>10 DEF BookSound
<1> QED
  BY <1>5, <1>11, TypedFrames
  DEF Fill, Typed, TypeOK, TasksTyped, ChannelsTyped, Cache

LEMMA SweptTyped ==
  ASSUME Typed, NEW i \in Ids, SweptByOther(i)
  PROVE  Typed'
<1>1. ExchangeTyped' /\ BookSound'
  BY CancelsSound DEF SweptByOther
<1>2. faults' \in Nat
  BY TypedFrames DEF SweptByOther
<1> QED
  BY <1>1, <1>2, TypedFrames
  DEF SweptByOther, Typed, TypeOK, TasksTyped, ChannelsTyped, Cache

LEMMA LoseTyped ==
  ASSUME Typed, NEW i \in Ids, LoseUpdate(i)
  PROVE  Typed'
<1>1. ws[i] \in Seq(UserUpdate) /\ ws[i] # <<>> /\ Tail(ws[i]) \in Seq(UserUpdate)
  BY DEF Typed, TypeOK, ExchangeTyped, LoseUpdate
<1>2. ExchangeTyped'
  BY <1>1 DEF Typed, TypeOK, ExchangeTyped, LoseUpdate
<1>3. BookSound'
  BY <1>1 DEF Typed, TypeOK, ExchangeTyped, BookSound, LoseUpdate, Resting, Born
<1>4. faults' \in Nat
  BY TypedFrames DEF LoseUpdate
<1> QED
  BY <1>2, <1>3, <1>4, TypedFrames
  DEF LoseUpdate, Typed, TypeOK, TasksTyped, ChannelsTyped, Cache

LEMMA ClockTyped ==
  ASSUME Typed, ClockTick
  PROVE  Typed'
<1>1. EnvTyped'
  BY DEF ClockTick, Typed, TypeOK, EnvTyped
<1> QED
  BY <1>1, TypedFrames DEF ClockTick, Typed, TypeOK, TasksTyped, ChannelsTyped, Cache

(* The remaining size of a resting order is a number: BookSound.           *)
LEMMA SeedOrdersTyped ==
  ASSUME Typed
  PROVE  SeedOrders \in Cache
<1> SUFFICES ASSUME NEW k \in Keys, \E i \in OpenOrders : SeedKey(i) = k
             PROVE  LET i == CHOOSE j \in OpenOrders : SeedKey(j) = k
                    IN  [id |-> i, px |-> book[i].px, sz |-> book[i].sz,
                         rem |-> book[i].sz - book[i].matched, upd |-> book[i].born]
                          \in LiveOrder
  BY DEF SeedOrders, Cache
<1> DEFINE i == CHOOSE j \in OpenOrders : SeedKey(j) = k
<1>1. i \in Ids
  BY DEF OpenOrders
<1>2. book[i] \in OrderState /\ book[i].matched <= book[i].sz
  BY <1>1 DEF Typed, TypeOK, ExchangeTyped, BookSound
<1> QED
  BY <1>1, <1>2 DEF OrderState, LiveOrder

LEMMA ResyncTyped ==
  ASSUME Typed, Resync
  PROVE  Typed'
<1>1. seedq' \in Seq(Cache)
  BY SeedOrdersTyped DEF Typed, TypeOK, ChannelsTyped, Cache, Resync
<1>2. EnvTyped'
  BY DEF Resync, Typed, TypeOK, EnvTyped
<1> QED
  BY <1>1, <1>2, TypedFrames
  DEF Resync, Typed, TypeOK, TasksTyped, ChannelsTyped, Cache

-----------------------------------------------------------------------------
(* The steps of the spawned tasks.                                         *)

LEMMA CancelStepTyped ==
  ASSUME Typed, NEW s \in cancelStages, CancelStep(s)
  PROVE  Typed'
<1>1. s \in CancelStage /\ cancelStages \subseteq CancelStage
  BY DEF Typed, TypeOK, TasksTyped
<1>2. ASSUME NEW B \in SUBSET s.todo
      PROVE  /\ [s EXCEPT !.todo = @ \ B] \in CancelStage
             /\ {c.id : c \in B} \subseteq Ids
             /\ B \subseteq CancelAction
  BY <1>1 DEF CancelStage, CancelAction
<1>3. \A fatal \in BOOLEAN :
        [type |-> "CancelFinished", gen |-> s.gen, at |-> s.at, fatal |-> fatal] \in OmInternal
  BY <1>1 DEF OmInternal, CancelStage
<1>4. CASE CancelSend(s)
  <2>1. PICK B \in Batches(s.todo) :
          LET resting == {c.id : c \in {d \in B : Resting(d.id)}}
          IN  \/ \E refused \in SUBSET resting :
                   /\ IF refused = {} THEN UNCHANGED faults ELSE Fault("cancel_fail")
                   /\ ExchangeCancels(resting \ refused)
                   /\ cancelStages' = (cancelStages \ {s}) \cup {[s EXCEPT !.todo = @ \ B]}
                   /\ Send([type |-> "CancelBatch", gen |-> s.gen, at |-> s.at,
                            cancels |-> B, gone |-> Gone(B, refused)])
              \/ \E done \in SUBSET resting :
                   /\ Fault("cancel_err")
                   /\ ExchangeCancels(done)
                   /\ cancelStages' = cancelStages \ {s}
                   /\ Send([type |-> "CancelFinished", gen |-> s.gen, at |-> s.at,
                            fatal |-> TRUE])
    BY <1>4 DEF CancelSend
  <2> DEFINE resting == {c.id : c \in {d \in B : Resting(d.id)}}
  <2>2. B \subseteq s.todo
    BY DEF Batches
  <2>3. \A I \in SUBSET resting : I \subseteq Ids /\ \A i \in I : Resting(i)
    BY <1>2, <2>2
  <2>4. \A refused : [type |-> "CancelBatch", gen |-> s.gen, at |-> s.at, cancels |-> B,
                     gone |-> Gone(B, refused)] \in OmInternal
    BY <1>1, <1>2, <2>2 DEF OmInternal, CancelStage, Gone
  <2>5. ExchangeTyped' /\ BookSound'
    BY <2>1, <2>3, CancelsSound
  <2>6. cancelStages' \subseteq CancelStage
    BY <1>1, <1>2, <2>1, <2>2
  <2>7. internal' \in Seq(OmInternal)
    BY <1>3, <2>1, <2>4, SendTyped DEF Typed, TypeOK
  <2>8. faults' \in Nat
    BY <2>1, TypedFrames
  <2> QED
    BY <2>5, <2>6, <2>7, <2>8, TypedFrames
    DEF CancelStep, Typed, TypeOK, TasksTyped, ChannelsTyped, Cache, PlansAreDistinct
<1>5. CASE CancelDone(s)
  <2>1. internal' \in Seq(OmInternal)
    BY <1>3, <1>5, SendTyped DEF CancelDone, Typed, TypeOK
  <2> QED
    BY <1>1, <1>5, <2>1, TypedFrames
    DEF CancelStep, CancelDone, Typed, TypeOK, TasksTyped, ChannelsTyped, Cache,
        PlansAreDistinct
<1> QED
  BY <1>4, <1>5 DEF CancelStep

LEMMA SweepTyped ==
  ASSUME Typed, NEW w \in sweeps, SweepStep(w)
  PROVE  Typed'
<1>1. w \subseteq Ids
  BY DEF Typed, TypeOK, TasksTyped
<1>2. ExchangeTyped' /\ BookSound'
  BY <1>1, CancelsSound DEF SweepStep
<1>3. faults' \in Nat
  BY TypedFrames DEF SweepStep
<1>4. sweeps' \subseteq SUBSET Ids
  BY DEF SweepStep, Typed, TypeOK, TasksTyped
<1> QED
  BY <1>2, <1>3, <1>4, TypedFrames
  DEF SweepStep, Typed, TypeOK, TasksTyped, ChannelsTyped, Cache

(* The exchange's answer to a post is one of the three outcomes.           *)
LEMMA AnswerTyped ==
  ASSUME NEW p \in DesiredOrder, NEW A \in SUBSET DesiredOrder,
         p \in A => HasFreshId(p.key), NEW err \in {"none", "postonly", "error"}
  PROVE  /\ Answer(p, A, err) \in PostResult
         /\ Answer(p, A, err).key = p.key
         /\ Answer(p, A, err).sz = p.sz
         /\ Answer(p, A, err).id = IF p \in A THEN FreshId(p.key) ELSE None
         /\ Answer(p, A, err).err = IF p \in A THEN "none" ELSE err
<1>1. p \in A => FreshId(p.key) \in Ids
  BY FreshIdIsUnborn DEF DesiredOrder
<1> QED
  BY <1>1 DEF Answer, PostResult, DesiredOrder

LEMMA RevertedTyped ==
  ASSUME NEW R \in SUBSET PostResult
  PROVE  /\ Reverted(R) \subseteq PostResult
         /\ \A q \in Reverted(R) : q.err # "none" /\ \E r \in R : q.key = r.key
<1> DEFINE err == IF \A r \in R : r.err \in {"none", "postonly"} THEN "postonly" ELSE "error"
           new(r) == IF r.err = "none" THEN [r EXCEPT !.err = err] ELSE r
<1>1. err \in {"postonly", "error"}
  OBVIOUS
<1>2. Reverted(R) = {new(r) : r \in R}
  BY DEF Reverted
<1> HIDE DEF err
<1>3. ASSUME NEW r \in R
      PROVE  new(r) \in PostResult /\ new(r).err # "none" /\ new(r).key = r.key
  <2>1. r \in PostResult
    OBVIOUS
  <2> QED
    BY <1>1, <2>1 DEF PostResult
<1> QED
  BY <1>2, <1>3

(* What a batch of posts does, as the facts the proofs use.                *)
SentBatch(s, B, A, err) ==
  LET results == {Answer(p, A, err) : p \in B}
  IN  /\ err = "none" <=> A = B
      /\ err \in {"none", "postonly", "error"}
      /\ ExchangePlaces(A)
      /\ \/ /\ MustRevert(results)
            /\ postStages' = (postStages \ {s}) \cup
                              {[s EXCEPT !.todo = @ \ B, !.reverting = results]}
            /\ UNCHANGED internal
         \/ /\ ~MustRevert(results)
            /\ postStages' = (postStages \ {s}) \cup {[s EXCEPT !.todo = @ \ B]}
            /\ Send(PostBatchMsg(s, results))
      /\ UNCHANGED faults

ErredBatch(s, A) ==
  /\ Fault(IF A = {} THEN "post_err" ELSE "post_err_applied")
  /\ ExchangePlaces(A)
  /\ postStages' = postStages \ {s}
  /\ Send([type |-> "PostFinished", gen |-> s.gen, at |-> s.at, fatal |-> TRUE])

LEMMA PostSendCases ==
  ASSUME NEW s \in postStages, PostSend(s)
  PROVE  \E B \in SUBSET s.todo, A \in SUBSET s.todo :
           /\ A \subseteq B /\ B # {}
           /\ \A p \in A : HasFreshId(p.key)
           /\ (\E err : SentBatch(s, B, A, err)) \/ ErredBatch(s, A)
<1> DEFINE Kinds(B) == RejectKinds \cup (IF \A p \in B : HasFreshId(p.key)
                                         THEN {"none"} ELSE {"error"})
           results(B, A, err) == {Answer(p, A, err) : p \in B}
           Sent(B, A, err) ==
             /\ err = "none" <=> A = B
             /\ ExchangePlaces(A)
             /\ IF MustRevert(results(B, A, err))
                THEN /\ postStages' = (postStages \ {s}) \cup
                           {[s EXCEPT !.todo = @ \ B, !.reverting = results(B, A, err)]}
                     /\ UNCHANGED internal
                ELSE /\ postStages' = (postStages \ {s}) \cup {[s EXCEPT !.todo = @ \ B]}
                     /\ Send(PostBatchMsg(s, results(B, A, err)))
             /\ UNCHANGED faults
<1>1. PICK B \in PostBatches(s.todo) : \E A \in SUBSET {p \in B : HasFreshId(p.key)} :
        (\E err \in Kinds(B) : Sent(B, A, err)) \/ ErredBatch(s, A)
  BY DEF PostSend, ErredBatch
<1>2. PICK A \in SUBSET {p \in B : HasFreshId(p.key)} :
        (\E err \in Kinds(B) : Sent(B, A, err)) \/ ErredBatch(s, A)
  BY <1>1
<1>3. B \subseteq s.todo /\ B # {}
  BY DEF PostBatches, Batches
<1>4. ASSUME NEW err \in Kinds(B), Sent(B, A, err)
      PROVE  SentBatch(s, B, A, err)
  <2>1. err \in {"none", "postonly", "error"}
    BY ManagerAssumption
  <2> QED
    BY <1>4, <2>1 DEF SentBatch
<1> QED
  BY <1>2, <1>3, <1>4

LEMMA PostSendTyped ==
  ASSUME Typed, NEW s \in postStages, PostSend(s), PostStep(s)
  PROVE  Typed'
<1>1. s \in PostStage /\ postStages \subseteq PostStage /\ OnePerKey(s.todo)
  BY DEF Typed, TypeOK, TasksTyped, PlansAreDistinct
<1>2. PICK B \in SUBSET s.todo, A \in SUBSET s.todo :
        /\ A \subseteq B /\ B # {}
        /\ \A p \in A : HasFreshId(p.key)
        /\ (\E err : SentBatch(s, B, A, err)) \/ ErredBatch(s, A)
  BY PostSendCases
<1>3. s.todo \subseteq DesiredOrder /\ s.gen \in Nat /\ s.at \in Nat
      /\ s.reverting \subseteq PostResult
  BY <1>1 DEF PostStage
<1>4. OnePerKey(A)
  BY <1>1 DEF OnePerKey
<1>5. ExchangeTyped' /\ BookSound'
  <2>1. ExchangePlaces(A)
    BY <1>2 DEF SentBatch, ErredBatch
  <2>2. A \in SUBSET DesiredOrder
    BY <1>3
  <2> QED
    BY <1>2, <1>4, <2>1, <2>2, PlacesSound
<1>6. faults' \in Nat
  BY <1>2, TypedFrames DEF SentBatch, ErredBatch
<1>7. postStages' \subseteq PostStage /\ PlansAreDistinct' /\ internal' \in Seq(OmInternal)
  <2>1. CASE \E err : SentBatch(s, B, A, err)
    <3>1. PICK err : SentBatch(s, B, A, err)
      BY <2>1
    <3> DEFINE results == {Answer(p, A, err) : p \in B}
               left == s.todo \ B
    <3>2. results \subseteq PostResult
      <4> SUFFICES ASSUME NEW p \in B PROVE Answer(p, A, err) \in PostResult
        OBVIOUS
      <4>1. p \in DesiredOrder /\ A \in SUBSET DesiredOrder
        BY <1>2, <1>3
      <4>2. err \in {"none", "postonly", "error"}
        BY <3>1 DEF SentBatch
      <4> QED
        BY <1>2, <4>1, <4>2, AnswerTyped
    <3>3. PostBatchMsg(s, results) \in OmInternal
      BY <1>3, <3>2 DEF PostBatchMsg, OmInternal
    <3> HIDE DEF results
    <3>4. /\ [s EXCEPT !.todo = left, !.reverting = results] \in PostStage
          /\ [s EXCEPT !.todo = left, !.reverting = results].todo = left
          /\ [s EXCEPT !.todo = left] \in PostStage
          /\ [s EXCEPT !.todo = left].todo = left
      BY <1>1, <3>2 DEF PostStage
    <3>5. OnePerKey(left)
      BY <1>1 DEF OnePerKey
    <3>6. \/ /\ postStages' = (postStages \ {s}) \cup
                               {[s EXCEPT !.todo = left, !.reverting = results]}
             /\ UNCHANGED internal
          \/ /\ postStages' = (postStages \ {s}) \cup {[s EXCEPT !.todo = left]}
             /\ Send(PostBatchMsg(s, results))
      BY <3>1 DEF SentBatch, results
    <3>7. internal' \in Seq(OmInternal)
      BY <3>3, <3>6, SendTyped, TypedFrames DEF Typed, TypeOK
    <3>8. postStages' \subseteq PostStage /\ PlansAreDistinct'
      BY <1>1, <3>4, <3>5, <3>6 DEF Typed, PlansAreDistinct
    <3> QED
      BY <3>7, <3>8
  <2>2. CASE ErredBatch(s, A)
    <3>1. [type |-> "PostFinished", gen |-> s.gen, at |-> s.at, fatal |-> TRUE] \in OmInternal
      BY <1>3 DEF OmInternal
    <3>2. internal' \in Seq(OmInternal)
      BY <2>2, <3>1, SendTyped DEF ErredBatch, Typed, TypeOK
    <3> QED
      BY <1>1, <2>2, <3>2 DEF ErredBatch, Typed, PlansAreDistinct
  <2> QED
    BY <1>2, <2>1, <2>2
<1>8. cancelStages' \subseteq CancelStage
  BY DEF PostStep, Typed, TypeOK, TasksTyped
<1> QED
  BY <1>5, <1>6, <1>7, <1>8, TypedFrames
  DEF PostStep, Typed, TypeOK, TasksTyped, ChannelsTyped, Cache

LEMMA PostStepTyped ==
  ASSUME Typed, NEW s \in postStages, PostStep(s)
  PROVE  Typed'
<1>1. s \in PostStage /\ postStages \subseteq PostStage /\ OnePerKey(s.todo)
  BY DEF Typed, TypeOK, TasksTyped, PlansAreDistinct
<1>2. s.gen \in Nat /\ s.at \in Nat /\ s.reverting \subseteq PostResult
  BY <1>1 DEF PostStage
<1>3. CASE PostSend(s)
  BY <1>3, PostSendTyped
<1>4. CASE PostRevert(s)
  <2>1. Reverted(s.reverting) \subseteq PostResult
    BY <1>2, RevertedTyped
  <2>2. PostBatchMsg(s, Reverted(s.reverting)) \in OmInternal
    BY <1>2, <2>1 DEF PostBatchMsg, OmInternal
  <2>3. internal' \in Seq(OmInternal)
    BY <1>4, <2>2, SendTyped DEF PostRevert, Typed, TypeOK
  <2>4. [s EXCEPT !.reverting = {}] \in PostStage /\ [s EXCEPT !.reverting = {}].todo = s.todo
    BY <1>1 DEF PostStage
  <2>5. postStages' \subseteq PostStage /\ PlansAreDistinct'
    BY <1>1, <1>4, <2>4 DEF PostRevert, Typed, PlansAreDistinct
  <2>6. RevertTargets(s.reverting) \subseteq Ids
    BY <1>2 DEF RevertTargets, PostResult
  <2>7. ExchangeTyped' /\ BookSound'
    BY <1>4, <2>6, CancelsSound DEF PostRevert
  <2>8. faults' \in Nat
    BY <1>4, TypedFrames DEF PostRevert
  <2> QED
    BY <2>3, <2>5, <2>7, <2>8, TypedFrames
    DEF PostStep, Typed, TypeOK, TasksTyped, ChannelsTyped, Cache
<1>5. CASE PostDone(s)
  <2>1. internal' \in Seq(OmInternal)
    <3>1. [type |-> "PostFinished", gen |-> s.gen, at |-> s.at, fatal |-> FALSE] \in OmInternal
      BY <1>2 DEF OmInternal
    <3> QED
      BY <1>5, <3>1, SendTyped DEF PostDone, Typed, TypeOK
  <2> QED
    BY <1>1, <1>5, <2>1, TypedFrames
    DEF PostStep, PostDone, Typed, TypeOK, TasksTyped, ChannelsTyped, Cache, PlansAreDistinct
<1> QED
  BY <1>3, <1>4, <1>5 DEF PostStep

-----------------------------------------------------------------------------
(* The steps of the loop.                                                  *)

LEMMA RemoveLiveTyped ==
  ASSUME Typed, NEW ks \in SUBSET Keys, RemoveLive(ks)
  PROVE  live' \in Cache /\ index' \in [Ids -> Keys \cup {None}]
  BY DEF RemoveLive, Typed, TypeOK, CacheTyped, Cache

LEMMA CancelBatchTyped ==
  ASSUME Typed, CancelBatch
  PROVE  Typed'
<1> DEFINE m == Head(internal)
<1>1. m \in OmInternal /\ internal' \in Seq(OmInternal)
  BY ReceiveTyped DEF CancelBatch, Receive, Typed, TypeOK
<1>2. m.cancels \subseteq CancelAction
  BY <1>1, MessageFields DEF CancelBatch, Receive
<1>3. {c.key : c \in {d \in m.cancels : d.id \in m.gone}} \subseteq Keys
  BY <1>2 DEF CancelAction
<1>4. live' \in Cache /\ index' \in [Ids -> Keys \cup {None}]
  BY <1>3, RemoveLiveTyped DEF CancelBatch
<1>5. CacheTyped'
  BY <1>4 DEF CancelBatch, Typed, TypeOK, CacheTyped, Cache
<1> QED
  BY <1>1, <1>5, TypedFrames
  DEF CancelBatch, Typed, TypeOK, TasksTyped, ChannelsTyped, Cache

LEMMA NextBackoffTyped ==
  ASSUME Typed, NEW at \in Nat
  PROVE  NextBackoff(at) \in [ms : Nat, until : Nat]
<1>1. backoff.ms \in Nat /\ BackoffBase \in Nat /\ BackoffMax \in Nat
  BY ManagerAssumption DEF Typed, TypeOK, CacheTyped
<1> QED
  BY <1>1 DEF NextBackoff

LEMMA CancelFinishedTyped ==
  ASSUME Typed, CancelFinished
  PROVE  Typed'
<1> DEFINE m == Head(internal)
<1>1. m \in OmInternal /\ internal' \in Seq(OmInternal)
  BY ReceiveTyped DEF CancelFinished, Receive, Typed, TypeOK
<1>2. m.at \in Nat /\ m.fatal \in BOOLEAN
  BY <1>1, MessageFields DEF CancelFinished, Receive
<1>3. Finish(~m.fatal, backoff') /\ (~m.fatal) \in BOOLEAN
  BY <1>2 DEF CancelFinished
<1>4. backoff' \in [ms : Nat, until : Nat]
  BY <1>2, NextBackoffTyped DEF CancelFinished, Typed, TypeOK, CacheTyped
<1>5. SlotTyped' /\ ticks' \in Ticks /\ tracked' \subseteq Tokens /\ PlansAreDistinct'
      /\ cancelStages' \subseteq CancelStage /\ postStages' \subseteq PostStage
  BY <1>3, FinishTyped
<1>6. CacheTyped'
  BY <1>4, <1>5 DEF CancelFinished, Typed, TypeOK, CacheTyped, Ticks
<1> QED
  BY <1>1, <1>5, <1>6, TypedFrames
  DEF CancelFinished, Typed, TypeOK, TasksTyped, ChannelsTyped, Cache

LEMMA PostFinishedTyped ==
  ASSUME Typed, PostFinished
  PROVE  Typed'
<1> DEFINE m == Head(internal)
<1>1. m \in OmInternal /\ internal' \in Seq(OmInternal)
  BY ReceiveTyped DEF PostFinished, Receive, Typed, TypeOK
<1>2. m.at \in Nat
  BY <1>1, MessageFields
<1>3. backoff' \in [ms : Nat, until : Nat]
  BY <1>2, NextBackoffTyped DEF PostFinished, NoBackoff
<1>4. SlotTyped' /\ ticks' \in Ticks /\ tracked' \subseteq Tokens /\ PlansAreDistinct'
      /\ cancelStages' \subseteq CancelStage /\ postStages' \subseteq PostStage
  BY FinishTyped DEF PostFinished
<1>5. CacheTyped'
  BY <1>3, <1>4 DEF PostFinished, Typed, TypeOK, CacheTyped, Ticks
<1> QED
  BY <1>1, <1>4, <1>5, TypedFrames
  DEF PostFinished, Typed, TypeOK, TasksTyped, ChannelsTyped, Cache

LEMMA PostBatchTyped ==
  ASSUME Typed, PostBatch
  PROVE  Typed'
<1> DEFINE m  == Head(internal)
           ok == Accepted(m.results)
<1>1. m \in OmInternal /\ internal' \in Seq(OmInternal)
  BY ReceiveTyped DEF PostBatch, Receive, Typed, TypeOK
<1>2. m.at \in Nat /\ m.results \subseteq PostResult
  BY <1>1, MessageFields DEF PostBatch, Receive
<1>3. \A r \in ok : r.key \in Keys /\ r.id \in Ids /\ Posted(r, m.at) \in LiveOrder
  BY <1>2 DEF Accepted, PostResult, Posted, LiveOrder
<1>4. live' \in Cache
  BY <1>3 DEF PostBatch, Typed, TypeOK, CacheTyped, Cache
<1>5. index' \in [Ids -> Keys \cup {None}]
  BY <1>3 DEF PostBatch, Typed, TypeOK, CacheTyped
<1>6. CacheTyped'
  BY <1>3, <1>4, <1>5 DEF PostBatch, Typed, TypeOK, CacheTyped, Cache, TokenOf, Keys
<1>7. SlotTyped'
  BY DEF PostBatch, Typed, TypeOK, SlotTyped
<1> QED
  BY <1>1, <1>6, <1>7, TypedFrames
  DEF PostBatch, Typed, TypeOK, TasksTyped, ChannelsTyped, Cache

LEMMA ApplySeedTyped ==
  ASSUME Typed, ApplySeed
  PROVE  Typed'
<1> DEFINE seed == Head(seedq)
<1>1. seed \in Cache /\ seedq' \in Seq(Cache)
  BY DEF ApplySeed, Typed, TypeOK, ChannelsTyped, Cache
<1>2. index' \in [Ids -> Keys \cup {None}]
  BY DEF ApplySeed, IndexOf
<1>3. CacheTyped'
  BY <1>1, <1>2 DEF ApplySeed, Typed, TypeOK, CacheTyped, Cache, TokenOf, Keys
<1>4. SlotTyped'
  <2>1. AbandonStage
    BY DEF ApplySeed
  <2>2. gen \in Nat
    BY DEF Typed, TypeOK, SlotTyped
  <2>3. gen' \in Nat
    BY <2>1, <2>2 DEF AbandonStage
  <2> QED
    BY <2>1, <2>3 DEF AbandonStage, GoIdle, SlotTyped
<1> QED
  BY <1>1, <1>3, <1>4, TypedFrames
  DEF ApplySeed, Typed, TypeOK, TasksTyped, ChannelsTyped, Cache

LEMMA DropStaleTyped ==
  ASSUME Typed, DropStale
  PROVE  Typed'
<1>1. internal' \in Seq(OmInternal)
  BY ReceiveTyped DEF DropStale, Typed, TypeOK
<1> QED
  BY <1>1, TypedFrames DEF DropStale, Typed, TypeOK, TasksTyped, ChannelsTyped, Cache

LEMMA ExecCommandTyped ==
  ASSUME Typed, NEW cmd \in Commands, ExecCommand(cmd)
  PROVE  Typed'
<1>1. /\ SlotTyped'
      /\ ticks' \in Ticks /\ tracked' \subseteq Tokens
      /\ cancelStages' \subseteq CancelStage
      /\ postStages' \subseteq PostStage
      /\ PlansAreDistinct'
  <2>1. CASE busy /\ pending' = cmd
              /\ UNCHANGED <<gen, busy, stage, current, failed, ticks, tracked, taskVars>>
    BY <2>1, TypedFrames DEF Typed, TypeOK, SlotTyped, CacheTyped, Ticks
  <2>2. CASE Start(cmd, backoff)
    BY <2>2, StartTyped
  <2> QED
    BY <2>1, <2>2 DEF ExecCommand
<1>2. CacheTyped'
  BY <1>1 DEF ExecCommand, Typed, TypeOK, CacheTyped, Ticks
<1>3. EnvTyped'
  BY DEF ExecCommand, Typed, TypeOK, EnvTyped
<1> QED
  BY <1>1, <1>2, <1>3, TypedFrames
  DEF ExecCommand, Typed, TypeOK, TasksTyped, ChannelsTyped, Cache

LEMMA SpawnTyped ==
  ASSUME Typed, NEW ids \in SUBSET Ids, Spawn(ids)
  PROVE  sweeps' \subseteq SUBSET Ids
  BY DEF Spawn, Typed, TypeOK, TasksTyped

LEMMA FillSweepTyped ==
  ASSUME NEW cache \in Cache, NEW k, NEW px
  PROVE  FillSweep(k, px, cache) \subseteq Ids
<1>1. \A x \in Keys : cache[x] # None => cache[x].id \in Ids
  BY DEF Cache, LiveOrder
<1> QED
  BY <1>1 DEF FillSweep

(* A user update about an order the cache holds: what is left in the cache.*)
LEMMA KnownOrderTyped ==
  ASSUME Typed, NEW i \in Ids, NEW u \in UserUpdate, KnownOrderUpdate(i, u)
  PROVE  /\ live' \in Cache /\ index' \in [Ids -> Keys \cup {None}]
         /\ sweeps' \subseteq SUBSET Ids
<1> DEFINE k    == index[i]
           o    == live[k]
           rem  == IF o.sz >= u.matched THEN o.sz - u.matched ELSE 0
           kept == [o EXCEPT !.rem = rem, !.upd = now]
<1>1. k \in Keys /\ o \in LiveOrder
  BY DEF KnownOrderUpdate, Known, Typed, TypeOK, CacheTyped
<1>2. rem \in Nat /\ now \in Nat
  BY <1>1 DEF LiveOrder, UserUpdate, Typed, TypeOK, EnvTyped
<1> HIDE DEF o, rem
<1>3. kept \in LiveOrder
  BY <1>1, <1>2 DEF LiveOrder
<1> USE DEF o, rem
<1>4. RemoveLive({k}) \/ InsertLive(k, kept)
  BY DEF KnownOrderUpdate
<1>5. live' \in Cache /\ index' \in [Ids -> Keys \cup {None}]
  <2>1. CASE RemoveLive({k})
    BY <1>1, <2>1, RemoveLiveTyped
  <2>2. CASE InsertLive(k, kept)
    <3>1. live \in Cache /\ index \in [Ids -> Keys \cup {None}]
      BY DEF Typed, TypeOK, CacheTyped, Cache
    <3> HIDE DEF k, kept
    <3> QED
      BY <1>1, <1>3, <2>2, <3>1 DEF InsertLive, Cache
  <2> QED
    BY <1>4, <2>1, <2>2
<1>6. sweeps' \subseteq SUBSET Ids
  <2>1. UNCHANGED sweeps \/ Spawn(FillSweep(k, o.px, live'))
    BY DEF KnownOrderUpdate
  <2> QED
    BY <1>5, <2>1, FillSweepTyped, SpawnTyped, TypedFrames
<1> QED
  BY <1>5, <1>6

LEMMA UserOrderUpdateTyped ==
  ASSUME Typed, NEW i \in Ids, UserOrderUpdate(i)
  PROVE  Typed'
<1> DEFINE u == Head(ws[i])
<1>1. u \in UserUpdate /\ Tail(ws[i]) \in Seq(UserUpdate)
  BY DEF Typed, TypeOK, ExchangeTyped, UserOrderUpdate
<1>2. ExchangeTyped' /\ BookSound'
  BY <1>1 DEF Typed, TypeOK, ExchangeTyped, BookSound, UserOrderUpdate, Resting, Born
<1>3. /\ live' \in Cache /\ index' \in [Ids -> Keys \cup {None}]
      /\ sweeps' \subseteq SUBSET Ids
  <2>1. CASE KnownOrderUpdate(i, u)
    BY <1>1, <2>1, KnownOrderTyped
  <2>2. CASE UnknownOrderUpdate(i, u)
    <3>1. UNCHANGED sweeps \/ Spawn({i})
      BY <2>2 DEF UnknownOrderUpdate
    <3>2. sweeps' \subseteq SUBSET Ids
      BY <3>1, SpawnTyped, TypedFrames
    <3> QED
      BY <2>2, <3>2 DEF UnknownOrderUpdate, Typed, TypeOK, CacheTyped, Cache
  <2> QED
    BY <2>1, <2>2 DEF UserOrderUpdate
<1>4. CacheTyped'
  BY <1>3 DEF UserOrderUpdate, Typed, TypeOK, CacheTyped, Cache
<1> QED
  BY <1>2, <1>3, <1>4, TypedFrames
  DEF UserOrderUpdate, Typed, TypeOK, TasksTyped, ChannelsTyped, Cache

-----------------------------------------------------------------------------
(***************************************************************************)
(* Every state OrderManager reaches is well typed, and the exchange's      *)
(* books stay sound: for any number of tokens and levels, any commands,    *)
(* faults and bounds.                                                      *)
(***************************************************************************)
LEMMA InitTyped == Init => Typed
<1> SUFFICES ASSUME Init PROVE Typed
  OBVIOUS
<1>1. SlotTyped /\ TasksTyped /\ ChannelsTyped /\ EnvTyped
  <2>1. SlotTyped /\ EnvTyped
    BY DEF Init, SlotTyped, EnvTyped
  <2>2. TasksTyped
    BY DEF Init, TasksTyped
  <2>3. ChannelsTyped
    BY DEF Init, ChannelsTyped
  <2> QED
    BY <2>1, <2>2, <2>3
<1>2. CacheTyped
  BY DEF Init, CacheTyped, NoOrders, TickUnknown
<1>3. ExchangeTyped /\ BookSound
  BY DEF Init, ExchangeTyped, Unborn, OrderState, BookSound, Resting, Born
<1>4. PlansAreDistinct
  BY DEF Init, PlansAreDistinct
<1> QED
  BY <1>1, <1>2, <1>3, <1>4 DEF Typed, TypeOK

LEMMA NextTyped == Typed /\ [Next]_vars => Typed'
<1> SUFFICES ASSUME Typed, [Next]_vars PROVE Typed'
  OBVIOUS
<1>1. ASSUME NEW cmd \in Commands, ExecCommand(cmd) PROVE Typed'
  BY <1>1, ExecCommandTyped
<1>2. ASSUME NEW s \in cancelStages, CancelStep(s) PROVE Typed'
  BY <1>2, CancelStepTyped
<1>3. ASSUME NEW s \in postStages, PostStep(s) PROVE Typed'
  BY <1>3, PostStepTyped
<1>4. ASSUME NEW w \in sweeps, SweepStep(w) PROVE Typed'
  BY <1>4, SweepTyped
<1>5. CASE DropStale \/ CancelBatch \/ CancelFinished \/ PostBatch \/ PostFinished
  BY <1>5, DropStaleTyped, CancelBatchTyped, CancelFinishedTyped, PostBatchTyped,
     PostFinishedTyped
<1>6. CASE ApplySeed \/ Resync \/ ClockTick
  BY <1>6, ApplySeedTyped, ResyncTyped, ClockTyped
<1>7. ASSUME NEW i \in Ids,
             UserOrderUpdate(i) \/ Fill(i) \/ SweptByOther(i) \/ LoseUpdate(i)
      PROVE  Typed'
  BY <1>7, UserOrderUpdateTyped, FillTyped, SweptTyped, LoseTyped
<1>8. CASE UNCHANGED vars
  <2>1. /\ UNCHANGED slotVars /\ UNCHANGED cacheVars /\ UNCHANGED taskVars
        /\ UNCHANGED sweeps /\ UNCHANGED internal /\ UNCHANGED seedq
        /\ UNCHANGED exVars /\ UNCHANGED envVars /\ UNCHANGED faults
    BY <1>8 DEF vars
  <2> QED
    BY <2>1, TypedFrames DEF Typed, TypeOK, TasksTyped, ChannelsTyped, Cache
<1> QED
  BY <1>1, <1>2, <1>3, <1>4, <1>5, <1>6, <1>7, <1>8 DEF Next

THEOREM TypeCorrect == Spec => []TypeOK
<1>1. Typed => TypeOK
  BY DEF Typed
<1> QED
  BY <1>1, InitTyped, NextTyped, PTL DEF Spec

-----------------------------------------------------------------------------
(***************************************************************************)
(* The slot protocol of OrderManager: generations, the one stage a busy    *)
(* slot waits for, and the messages of that stage.                         *)
(***************************************************************************)

SlotInv == GenerationsBounded /\ SlotPhase /\ BusyMeansOneStage

EndTypes == {"CancelFinished", "PostFinished"}

(* How the internal channel changes.                                       *)
LEMMA ReceivedChannel ==
  ASSUME ChannelsTyped, internal # <<>>, internal' = Tail(internal)
  PROVE  /\ Len(internal) \in Nat /\ Len(internal) >= 1
         /\ Len(internal') = Len(internal) - 1
         /\ Head(internal) = internal[1]
         /\ \A n \in 1..Len(internal') : internal'[n] = internal[n + 1]
  BY DEF ChannelsTyped

LEMMA SentChannel ==
  ASSUME ChannelsTyped, NEW m, Send(m)
  PROVE  /\ Len(internal) \in Nat
         /\ Len(internal') = Len(internal) + 1
         /\ internal'[Len(internal) + 1] = m
         /\ \A n \in 1..Len(internal) : internal'[n] = internal[n]
  BY DEF ChannelsTyped, Send

(* A new generation has no messages and no old stages.                     *)
LEMMA NewGeneration ==
  ASSUME Typed, GenerationsBounded, gen' = gen + 1,
         UNCHANGED internal \/ (internal # <<>> /\ internal' = Tail(internal))
  PROVE  /\ gen \in Nat /\ gen' \in Nat
         /\ CurrentMsgs' = {}
         /\ \A n \in 1..Len(internal') : internal'[n].gen < gen'
         /\ \A s \in cancelStages \cup postStages : s.gen \in Nat /\ s.gen < gen'
<1>1. gen \in Nat /\ gen' \in Nat
  BY DEF Typed, TypeOK, SlotTyped
<1>2. \A s \in cancelStages \cup postStages : s.gen \in Nat
  BY DEF Typed, TypeOK, TasksTyped, CancelStage, PostStage
<1>3. \A n \in 1..Len(internal) : internal[n] \in OmInternal
  BY DEF Typed, TypeOK, ChannelsTyped
<1>4. \A n \in 1..Len(internal) : internal[n].gen \in Nat /\ internal[n].gen < gen'
  BY <1>1, <1>3, MessageFields DEF GenerationsBounded
<1>5. \A n \in 1..Len(internal') : internal'[n].gen < gen' /\ internal'[n].gen \in Nat
  <2>1. CASE UNCHANGED internal
    BY <1>4, <2>1
  <2>2. CASE internal # <<>> /\ internal' = Tail(internal)
    <3>1. /\ Len(internal) \in Nat /\ Len(internal') = Len(internal) - 1
          /\ \A n \in 1..Len(internal') : internal'[n] = internal[n + 1]
      BY <2>2, ReceivedChannel DEF Typed, TypeOK
    <3>2. ASSUME NEW n \in 1..Len(internal') PROVE n + 1 \in 1..Len(internal)
      BY <3>1
    <3> QED
      BY <1>4, <3>1, <3>2
  <2> QED
    BY <2>1, <2>2
<1>6. CurrentMsgs' = {}
  BY <1>1, <1>5 DEF CurrentMsgs
<1> QED
  BY <1>1, <1>2, <1>5, <1>6 DEF GenerationsBounded

LEMMA StartSlot ==
  ASSUME Typed, SlotInv, NEW cmd, NEW b, Start(cmd, b),
         UNCHANGED internal \/ (internal # <<>> /\ internal' = Tail(internal))
  PROVE  SlotInv'
<1> DEFINE cancels == DiffCancels(cmd, live, InferTicks(cmd, ticks), now)
           posts   == AboveFloor(DiffPosts(cmd, live, InferTicks(cmd, ticks), now))
<1>1. gen' = gen + 1
  BY DEF Start
<1>2. /\ gen \in Nat /\ gen' \in Nat
      /\ CurrentMsgs' = {}
      /\ \A n \in 1..Len(internal') : internal'[n].gen < gen'
      /\ \A s \in cancelStages \cup postStages : s.gen \in Nat /\ s.gen < gen'
  BY <1>1, NewGeneration DEF SlotInv
<1>3. CurrentEnds' = {} /\ \A n \in 1..Len(internal') : internal'[n].gen <= gen'
  <2>1. \A n \in 1..Len(internal') : internal'[n] \in OmInternal
    BY <1>2 DEF Typed, TypeOK, ChannelsTyped
  <2> QED
    BY <1>2, <2>1, MessageFields DEF CurrentEnds
<1>4. \A s \in cancelStages \cup postStages : s.gen <= gen' /\ s.gen # gen'
  BY <1>2
<1>5. CASE StartCancels(cmd, cancels)
  <2> DEFINE new == [gen |-> gen', at |-> now, todo |-> cancels]
  <2>1. cancelStages' = cancelStages \cup {new} /\ postStages' = postStages /\ new.gen = gen'
    BY <1>5 DEF StartCancels
  <2>2. CurrentCancels' = {new} /\ CurrentPosts' = {}
    BY <1>4, <2>1 DEF CurrentCancels, CurrentPosts
  <2>3. busy' = TRUE /\ stage' = "canceling"
    BY <1>5 DEF StartCancels
  <2>4. GenerationsBounded'
    BY <1>2, <1>3, <1>4, <2>1 DEF GenerationsBounded
  <2>5. SlotPhase'
    BY <1>2, <2>2, <2>3, NoneAssumption DEF SlotPhase
  <2>6. BusyMeansOneStage'
    BY <1>3, <2>2, <2>3 DEF BusyMeansOneStage
  <2> QED
    BY <2>4, <2>5, <2>6 DEF SlotInv
<1>6. CASE StartPosts(cmd, cancels, posts, b)
  <2> DEFINE new == [gen |-> gen', at |-> now, todo |-> posts, reverting |-> {}]
  <2>1. postStages' = postStages \cup {new} /\ cancelStages' = cancelStages /\ new.gen = gen'
    BY <1>6 DEF StartPosts
  <2>2. CurrentPosts' = {new} /\ CurrentCancels' = {}
    BY <1>4, <2>1 DEF CurrentCancels, CurrentPosts
  <2>3. busy' = TRUE /\ stage' = "posting"
    BY <1>6 DEF StartPosts
  <2>4. GenerationsBounded'
    BY <1>2, <1>3, <1>4, <2>1 DEF GenerationsBounded
  <2>5. SlotPhase'
    BY <1>2, <2>2, <2>3, NoneAssumption DEF SlotPhase
  <2>6. BusyMeansOneStage'
    BY <1>3, <2>2, <2>3 DEF BusyMeansOneStage
  <2> QED
    BY <2>4, <2>5, <2>6 DEF SlotInv
<1>7. CASE NothingToStart(cancels, posts, b)
  <2>1. cancelStages' = cancelStages /\ postStages' = postStages /\ GoIdle
    BY <1>7 DEF NothingToStart
  <2>2. CurrentPosts' = {} /\ CurrentCancels' = {}
    BY <1>4, <2>1 DEF CurrentCancels, CurrentPosts
  <2>3. GenerationsBounded'
    BY <1>2, <1>3, <1>4, <2>1 DEF GenerationsBounded
  <2>4. SlotPhase'
    BY <1>2, <2>1, <2>2 DEF SlotPhase, GoIdle
  <2>5. BusyMeansOneStage'
    BY <1>3, <2>1, <2>2 DEF BusyMeansOneStage, GoIdle
  <2> QED
    BY <2>3, <2>4, <2>5 DEF SlotInv
<1> QED
  BY <1>5, <1>6, <1>7 DEF Start

LEMMA SlotFrame ==
  ASSUME SlotInv, UNCHANGED <<slotVars, taskVars, internal>>
  PROVE  /\ SlotInv'
         /\ CurrentMsgs' = CurrentMsgs /\ CurrentPosts' = CurrentPosts
         /\ CurrentCancels' = CurrentCancels
  BY DEF SlotInv, slotVars, taskVars, GenerationsBounded, SlotPhase, BusyMeansOneStage,
         CurrentMsgs, CurrentEnds, CurrentCancels, CurrentPosts

(* A message that does not end the current stage is taken out.             *)
LEMMA ReceiveSlot ==
  ASSUME Typed, SlotInv, internal # <<>>, internal' = Tail(internal),
         Stale(Head(internal)) \/ Head(internal).type \notin EndTypes,
         UNCHANGED <<gen, busy, stage, pending, taskVars>>
  PROVE  SlotInv'
<1>1. /\ Len(internal) \in Nat /\ Len(internal) >= 1
      /\ Len(internal') = Len(internal) - 1
      /\ Head(internal) = internal[1]
      /\ \A n \in 1..Len(internal') : internal'[n] = internal[n + 1]
  BY ReceivedChannel DEF Typed, TypeOK
<1>2. \A n : n \in CurrentMsgs' <=> n \in 1..Len(internal') /\ n + 1 \in CurrentMsgs
  BY <1>1 DEF CurrentMsgs
<1>3. \A n : n \in CurrentEnds' <=> n \in 1..Len(internal') /\ n + 1 \in CurrentEnds
  BY <1>1, <1>2 DEF CurrentEnds
<1>4. 1 \notin CurrentEnds
  BY <1>1 DEF CurrentEnds, CurrentMsgs, Stale, EndTypes
<1>5. \A n \in CurrentEnds : n - 1 \in CurrentEnds'
  BY <1>1, <1>3, <1>4 DEF CurrentEnds, CurrentMsgs
<1>6. CurrentEnds' # {} <=> CurrentEnds # {}
  BY <1>3, <1>5
<1>7. CurrentCancels' = CurrentCancels /\ CurrentPosts' = CurrentPosts
  BY DEF CurrentCancels, CurrentPosts, taskVars
<1>8. GenerationsBounded'
  BY <1>1 DEF SlotInv, GenerationsBounded, taskVars
<1>9. SlotPhase'
  BY <1>1, <1>2, <1>7 DEF SlotInv, SlotPhase
<1>10. \A n \in CurrentEnds', m \in CurrentMsgs' : m <= n
  <2> SUFFICES ASSUME NEW n \in CurrentEnds', NEW m \in CurrentMsgs' PROVE m <= n
    OBVIOUS
  <2>1. n + 1 \in CurrentEnds /\ m + 1 \in CurrentMsgs /\ n \in Nat /\ m \in Nat
    BY <1>1, <1>2, <1>3
  <2>2. m + 1 <= n + 1
    BY <2>1 DEF SlotInv, BusyMeansOneStage
  <2> QED
    BY <2>1, <2>2
<1>11. BusyMeansOneStage'
  BY <1>6, <1>7, <1>10 DEF SlotInv, BusyMeansOneStage
<1> QED
  BY <1>8, <1>9, <1>11 DEF SlotInv

(* The message that ends the current stage is taken out, and the slot is   *)
(* idle or starts anew.                                                    *)
LEMMA FinishSlot ==
  ASSUME Typed, SlotInv, internal # <<>>, internal' = Tail(internal),
         ~Stale(Head(internal)), Head(internal).type \in EndTypes,
         NEW continue, NEW b, Finish(continue, b)
  PROVE  SlotInv'
<1>1. CASE NextCommand(continue) = None
  <2>1. GoIdle /\ gen' = gen /\ UNCHANGED taskVars
    BY <1>1 DEF Finish
  <2>2. /\ Len(internal) \in Nat /\ Len(internal) >= 1
        /\ Len(internal') = Len(internal) - 1
        /\ Head(internal) = internal[1]
        /\ \A n \in 1..Len(internal') : internal'[n] = internal[n + 1]
    BY ReceivedChannel DEF Typed, TypeOK
  <2>3. 1 \in CurrentEnds
    BY <2>2 DEF CurrentEnds, CurrentMsgs, Stale, EndTypes
  <2>4. CurrentCancels = {} /\ CurrentPosts = {} /\ \A m \in CurrentMsgs : m <= 1
    BY <2>3 DEF SlotInv, BusyMeansOneStage
  <2>5. CurrentCancels' = {} /\ CurrentPosts' = {}
    BY <2>1, <2>4 DEF CurrentCancels, CurrentPosts, taskVars
  <2>6. CurrentMsgs' = {} /\ CurrentEnds' = {}
    <3>1. ASSUME NEW n \in CurrentMsgs' PROVE FALSE
      <4>1. n \in Nat /\ n >= 1 /\ n + 1 \in CurrentMsgs
        BY <2>1, <2>2 DEF CurrentMsgs
      <4> QED
        BY <2>4, <4>1
    <3> QED
      BY <3>1 DEF CurrentEnds
  <2>7. GenerationsBounded'
    BY <2>1, <2>2 DEF SlotInv, GenerationsBounded, taskVars
  <2>8. SlotPhase'
    BY <2>1, <2>5, <2>6 DEF SlotPhase, GoIdle
  <2>9. BusyMeansOneStage'
    BY <2>1, <2>5, <2>6 DEF BusyMeansOneStage, GoIdle
  <2> QED
    BY <2>7, <2>8, <2>9 DEF SlotInv
<1>2. CASE NextCommand(continue) # None
  BY <1>2, StartSlot DEF Finish
<1> QED
  BY <1>1, <1>2

(* A message joins the channel: it is the last one, and current exactly    *)
(* when the stage that sends it is.                                        *)
LEMMA SentMsgs ==
  ASSUME Typed, GenerationsBounded, NEW m, m.gen <= gen, Send(m), gen' = gen
  PROVE  LET last == Len(internal) + 1
         IN  /\ last \in Nat /\ internal'[last] = m
             /\ CurrentMsgs \subseteq 1..Len(internal)
             /\ \A n \in CurrentMsgs : internal'[n] = internal[n] /\ n < last /\ n \in Nat
             /\ CurrentMsgs' = IF m.gen = gen THEN CurrentMsgs \cup {last} ELSE CurrentMsgs
             /\ \A n \in 1..Len(internal') : internal'[n].gen <= gen
<1>1. /\ Len(internal) \in Nat
      /\ Len(internal') = Len(internal) + 1
      /\ internal'[Len(internal) + 1] = m
      /\ \A n \in 1..Len(internal) : internal'[n] = internal[n]
  BY SentChannel DEF Typed, TypeOK
<1>2. \A n \in 1..Len(internal') : n \in 1..Len(internal) \/ n = Len(internal) + 1
  BY <1>1
<1>3. CurrentMsgs' = IF m.gen = gen THEN CurrentMsgs \cup {Len(internal) + 1} ELSE CurrentMsgs
  BY <1>1, <1>2 DEF CurrentMsgs
<1>4. \A n \in 1..Len(internal') : internal'[n].gen <= gen
  BY <1>1, <1>2 DEF GenerationsBounded
<1> QED
  <2>1. CurrentMsgs \subseteq 1..Len(internal)
    BY DEF CurrentMsgs
  <2>2. \A n \in CurrentMsgs :
          internal'[n] = internal[n] /\ n < Len(internal) + 1 /\ n \in Nat
    BY <1>1, <2>1
  <2>3. Len(internal) + 1 \in Nat
    BY <1>1
  <2> QED
    BY <1>1, <1>3, <1>4, <2>1, <2>2, <2>3

(* A cancel stage sends a batch and goes on, or ends.                      *)
LEMMA CancelStepCases ==
  ASSUME NEW s \in cancelStages, CancelStep(s), Typed
  PROVE  \E m, t : /\ Send(m) /\ m.gen = s.gen /\ t.gen = s.gen
                   /\ \/ /\ m.type = "CancelBatch"
                         /\ m.cancels \subseteq s.todo /\ t.todo \subseteq s.todo
                         /\ cancelStages' = (cancelStages \ {s}) \cup {t}
                      \/ /\ m.type = "CancelFinished"
                         /\ cancelStages' = cancelStages \ {s}
<1>1. s \in CancelStage
  BY DEF Typed, TypeOK, TasksTyped
<1>2. \A B : /\ [s EXCEPT !.todo = @ \ B].gen = s.gen
             /\ [s EXCEPT !.todo = @ \ B].todo = s.todo \ B
  BY <1>1 DEF CancelStage
<1>3. CASE CancelSend(s)
  <2>1. PICK B \in Batches(s.todo) :
          LET resting == {c.id : c \in {d \in B : Resting(d.id)}}
          IN  \/ \E refused \in SUBSET resting :
                   /\ cancelStages' = (cancelStages \ {s}) \cup {[s EXCEPT !.todo = @ \ B]}
                   /\ Send([type |-> "CancelBatch", gen |-> s.gen, at |-> s.at,
                            cancels |-> B, gone |-> Gone(B, refused)])
              \/ /\ cancelStages' = cancelStages \ {s}
                 /\ Send([type |-> "CancelFinished", gen |-> s.gen, at |-> s.at,
                          fatal |-> TRUE])
    BY <1>3 DEF CancelSend
  <2>2. CASE \E refused :
               /\ cancelStages' = (cancelStages \ {s}) \cup {[s EXCEPT !.todo = @ \ B]}
               /\ Send([type |-> "CancelBatch", gen |-> s.gen, at |-> s.at,
                        cancels |-> B, gone |-> Gone(B, refused)])
    <3>1. PICK refused :
            /\ cancelStages' = (cancelStages \ {s}) \cup {[s EXCEPT !.todo = @ \ B]}
            /\ Send([type |-> "CancelBatch", gen |-> s.gen, at |-> s.at,
                     cancels |-> B, gone |-> Gone(B, refused)])
      BY <2>2
    <3> DEFINE m == [type |-> "CancelBatch", gen |-> s.gen, at |-> s.at,
                     cancels |-> B, gone |-> Gone(B, refused)]
               t == [s EXCEPT !.todo = @ \ B]
    <3>2. /\ m.type = "CancelBatch" /\ m.gen = s.gen /\ t.gen = s.gen
          /\ m.cancels \subseteq s.todo /\ t.todo \subseteq s.todo
      BY <1>2 DEF Batches
    <3>3. Send(m) /\ cancelStages' = (cancelStages \ {s}) \cup {t}
      BY <3>1
    <3> HIDE DEF m, t
    <3> QED
      BY <3>2, <3>3
  <2>3. CASE /\ cancelStages' = cancelStages \ {s}
             /\ Send([type |-> "CancelFinished", gen |-> s.gen, at |-> s.at, fatal |-> TRUE])
    BY <2>3
  <2> QED
    BY <2>1, <2>2, <2>3
<1>4. CASE CancelDone(s)
  BY <1>4 DEF CancelDone
<1> QED
  BY <1>3, <1>4 DEF CancelStep

LEMMA CancelStepSlot ==
  ASSUME Typed, SlotInv, NEW s \in cancelStages, CancelStep(s)
  PROVE  SlotInv'
<1>1. PICK m, t : /\ Send(m) /\ m.gen = s.gen /\ t.gen = s.gen
                  /\ \/ /\ m.type = "CancelBatch"
                        /\ cancelStages' = (cancelStages \ {s}) \cup {t}
                     \/ /\ m.type = "CancelFinished"
                        /\ cancelStages' = cancelStages \ {s}
  BY CancelStepCases
<1>2. UNCHANGED <<gen, busy, stage, pending, postStages>>
  BY DEF CancelStep, slotVars
<1>3. s.gen <= gen
  BY DEF SlotInv, GenerationsBounded
<1> DEFINE last == Len(internal) + 1
<1>4. /\ last \in Nat /\ internal'[last] = m
      /\ \A n \in CurrentMsgs : internal'[n] = internal[n] /\ n < last /\ n \in Nat
      /\ CurrentMsgs' = IF m.gen = gen THEN CurrentMsgs \cup {last} ELSE CurrentMsgs
      /\ \A n \in 1..Len(internal') : internal'[n].gen <= gen
  BY <1>1, <1>2, <1>3, SentMsgs DEF SlotInv
<1> HIDE DEF last
<1>5. GenerationsBounded'
  BY <1>1, <1>2, <1>3, <1>4 DEF SlotInv, GenerationsBounded
<1>6. CurrentPosts' = CurrentPosts
  BY <1>2 DEF CurrentPosts
<1>7. CASE s.gen # gen
  <2>1. CurrentCancels' = CurrentCancels
    BY <1>1, <1>2, <1>7 DEF CurrentCancels
  <2>2. CurrentMsgs' = CurrentMsgs
    BY <1>1, <1>4, <1>7
  <2>3. CurrentEnds' = CurrentEnds
    BY <1>4, <2>2 DEF CurrentEnds
  <2>4. SlotPhase'
    BY <1>2, <1>4, <1>6, <2>1, <2>2 DEF SlotInv, SlotPhase
  <2>5. BusyMeansOneStage'
    BY <1>2, <1>6, <2>1, <2>2, <2>3 DEF SlotInv, BusyMeansOneStage
  <2> QED
    BY <1>5, <2>4, <2>5 DEF SlotInv
<1>8. CASE s.gen = gen
  <2>1. s \in CurrentCancels
    BY <1>8 DEF CurrentCancels
  <2>2. CurrentCancels = {s} /\ CurrentPosts = {} /\ CurrentEnds = {} /\ busy
    BY <2>1 DEF SlotInv, BusyMeansOneStage
  <2>3. stage = "canceling"
    BY <2>1 DEF SlotInv, SlotPhase
  <2>4. CurrentMsgs' = CurrentMsgs \cup {last}
    BY <1>1, <1>4, <1>8
  <2>5. CASE m.type = "CancelBatch" /\ cancelStages' = (cancelStages \ {s}) \cup {t}
    <3>1. CurrentCancels' = {t}
      BY <1>1, <1>2, <1>8, <2>2, <2>5 DEF CurrentCancels
    <3>2. CurrentEnds' = {}
      BY <1>4, <2>2, <2>4, <2>5 DEF CurrentEnds
    <3>3. SlotPhase'
      BY <1>2, <1>4, <1>6, <2>2, <2>3, <2>4, <2>5 DEF SlotInv, SlotPhase, PostTypes
    <3>4. BusyMeansOneStage'
      BY <1>2, <1>6, <2>2, <3>1, <3>2 DEF BusyMeansOneStage
    <3> QED
      BY <1>5, <3>3, <3>4 DEF SlotInv
  <2>6. CASE m.type = "CancelFinished" /\ cancelStages' = cancelStages \ {s}
    <3>1. CurrentCancels' = {}
      BY <1>2, <2>2, <2>6 DEF CurrentCancels
    <3>2. CurrentEnds' = {last}
      BY <1>4, <2>2, <2>4, <2>6 DEF CurrentEnds
    <3>3. SlotPhase'
      BY <1>2, <1>4, <1>6, <2>2, <2>3, <2>4, <2>6 DEF SlotInv, SlotPhase, PostTypes
    <3>4. \A n \in CurrentEnds', k \in CurrentMsgs' : k <= n
      BY <1>4, <2>4, <3>2
    <3>5. BusyMeansOneStage'
      BY <1>2, <1>6, <2>2, <3>1, <3>2, <3>4 DEF BusyMeansOneStage
    <3> QED
      BY <1>5, <3>3, <3>5 DEF SlotInv
  <2> QED
    BY <1>1, <2>5, <2>6
<1> QED
  BY <1>7, <1>8

(* A post stage sends a batch and goes on, waits for its revert, or ends.  *)
LEMMA PostStepCases ==
  ASSUME NEW s \in postStages, PostStep(s), Typed
  PROVE  \E m, t : /\ m.gen = s.gen /\ t.gen = s.gen
                   /\ \/ /\ m.type = "PostBatch"
                         /\ UNCHANGED internal \/ Send(m)
                         /\ postStages' = (postStages \ {s}) \cup {t}
                      \/ /\ m.type = "PostFinished"
                         /\ Send(m)
                         /\ postStages' = postStages \ {s}
<1>1. s \in PostStage
  BY DEF Typed, TypeOK, TasksTyped
<1>2. /\ \A T : [s EXCEPT !.todo = T].gen = s.gen
      /\ \A T, R : [s EXCEPT !.todo = T, !.reverting = R].gen = s.gen
      /\ \A R : [s EXCEPT !.reverting = R].gen = s.gen
  BY <1>1 DEF PostStage
<1>3. \A R : PostBatchMsg(s, R).gen = s.gen /\ PostBatchMsg(s, R).type = "PostBatch"
  BY DEF PostBatchMsg
<1> DEFINE fin(fatal) == [type |-> "PostFinished", gen |-> s.gen, at |-> s.at, fatal |-> fatal]
<1>4. \A fatal : fin(fatal).gen = s.gen /\ fin(fatal).type = "PostFinished"
  OBVIOUS
<1> HIDE DEF fin
<1>5. CASE PostSend(s)
  <2>1. PICK B \in SUBSET s.todo, A \in SUBSET s.todo :
          (\E err : SentBatch(s, B, A, err)) \/ ErredBatch(s, A)
    BY <1>5, PostSendCases
  <2>2. ASSUME NEW err, SentBatch(s, B, A, err)
        PROVE  LET results == {Answer(p, A, err) : p \in B}
               IN  /\ UNCHANGED internal \/ Send(PostBatchMsg(s, results))
                   /\ \/ postStages' = (postStages \ {s}) \cup
                                {[s EXCEPT !.todo = s.todo \ B, !.reverting = results]}
                      \/ postStages' = (postStages \ {s}) \cup
                                {[s EXCEPT !.todo = s.todo \ B]}
    BY <2>2 DEF SentBatch
  <2>3. CASE ErredBatch(s, A)
    <3>1. Send(fin(TRUE)) /\ postStages' = postStages \ {s}
      BY <2>3 DEF ErredBatch, fin
    <3> QED
      BY <1>4, <3>1
  <2> QED
    BY <1>2, <1>3, <2>1, <2>2, <2>3
<1>6. CASE PostRevert(s)
  BY <1>2, <1>3, <1>6 DEF PostRevert
<1>7. CASE PostDone(s)
  <2>1. Send(fin(FALSE)) /\ postStages' = postStages \ {s}
    BY <1>7 DEF PostDone, fin
  <2> QED
    BY <1>4, <2>1
<1> QED
  BY <1>5, <1>6, <1>7 DEF PostStep

LEMMA PostStepSlot ==
  ASSUME Typed, SlotInv, NEW s \in postStages, PostStep(s)
  PROVE  SlotInv'
<1>1. PICK m, t : /\ m.gen = s.gen /\ t.gen = s.gen
                  /\ \/ /\ m.type = "PostBatch"
                        /\ UNCHANGED internal \/ Send(m)
                        /\ postStages' = (postStages \ {s}) \cup {t}
                     \/ /\ m.type = "PostFinished"
                        /\ Send(m)
                        /\ postStages' = postStages \ {s}
  BY PostStepCases
<1>2. UNCHANGED <<gen, busy, stage, pending, cancelStages>>
  BY DEF PostStep, slotVars
<1>3. s.gen <= gen
  BY DEF SlotInv, GenerationsBounded
<1> DEFINE last == Len(internal) + 1
<1>4. /\ \A n \in CurrentMsgs : internal'[n] = internal[n] /\ n \in Nat
      /\ \A n \in 1..Len(internal') : internal'[n].gen <= gen
      /\ \/ UNCHANGED internal /\ CurrentMsgs' = CurrentMsgs
         \/ /\ last \in Nat /\ internal'[last] = m
            /\ \A n \in CurrentMsgs : n < last
            /\ CurrentMsgs' = IF m.gen = gen THEN CurrentMsgs \cup {last} ELSE CurrentMsgs
      /\ m.type = "PostFinished" => internal'[last] = m /\ last \in Nat
                                    /\ last \in CurrentMsgs' \cup {last}
  <2>1. CASE UNCHANGED internal
    <3>1. CurrentMsgs' = CurrentMsgs /\ \A n \in CurrentMsgs : n \in Nat
      BY <1>2, <2>1 DEF CurrentMsgs
    <3>2. m.type # "PostFinished"
      <4>1. ASSUME Send(m) PROVE FALSE
        BY <2>1, <4>1, SentChannel DEF Typed, TypeOK
      <4> QED
        BY <1>1, <4>1
    <3> QED
      BY <2>1, <3>1, <3>2 DEF SlotInv, GenerationsBounded
  <2>2. CASE Send(m)
    BY <1>1, <1>2, <1>3, <2>2, SentMsgs DEF SlotInv
  <2> QED
    BY <1>1, <2>1, <2>2
<1> HIDE DEF last
<1>5. GenerationsBounded'
  BY <1>1, <1>2, <1>3, <1>4 DEF SlotInv, GenerationsBounded
<1>6. CurrentCancels' = CurrentCancels
  BY <1>2 DEF CurrentCancels
<1>7. CASE s.gen # gen
  <2>1. CurrentPosts' = CurrentPosts
    BY <1>1, <1>2, <1>7 DEF CurrentPosts
  <2>2. CurrentMsgs' = CurrentMsgs
    BY <1>1, <1>4, <1>7
  <2>3. CurrentEnds' = CurrentEnds
    BY <1>4, <2>2 DEF CurrentEnds
  <2>4. SlotPhase'
    BY <1>2, <1>4, <1>6, <2>1, <2>2 DEF SlotInv, SlotPhase
  <2>5. BusyMeansOneStage'
    BY <1>2, <1>6, <2>1, <2>2, <2>3 DEF SlotInv, BusyMeansOneStage
  <2> QED
    BY <1>5, <2>4, <2>5 DEF SlotInv
<1>8. CASE s.gen = gen
  <2>1. s \in CurrentPosts
    BY <1>8 DEF CurrentPosts
  <2>2. CurrentPosts = {s} /\ CurrentCancels = {} /\ CurrentEnds = {} /\ busy
    BY <2>1 DEF SlotInv, BusyMeansOneStage
  <2>3. stage = "posting"
    BY <2>1 DEF SlotInv, SlotPhase
  <2>4. CurrentMsgs' \subseteq CurrentMsgs \cup {last}
    BY <1>4
  <2>5. CASE m.type = "PostBatch" /\ postStages' = (postStages \ {s}) \cup {t}
    <3>1. CurrentPosts' = {t}
      BY <1>1, <1>2, <1>8, <2>2, <2>5 DEF CurrentPosts
    <3>2. CurrentEnds' = {}
      BY <1>4, <2>2, <2>5 DEF CurrentEnds
    <3>3. SlotPhase'
      BY <1>2, <1>4, <1>6, <2>2, <2>3, <2>5 DEF SlotInv, SlotPhase, CancelTypes
    <3>4. BusyMeansOneStage'
      BY <1>2, <1>6, <2>2, <3>1, <3>2 DEF BusyMeansOneStage
    <3> QED
      BY <1>5, <3>3, <3>4 DEF SlotInv
  <2>6. CASE m.type = "PostFinished" /\ Send(m) /\ postStages' = postStages \ {s}
    <3>1. CurrentPosts' = {}
      BY <1>2, <2>2, <2>6 DEF CurrentPosts
    <3>2. CurrentMsgs' = CurrentMsgs \cup {last} /\ \A n \in CurrentMsgs : n < last
      <4>1. ~UNCHANGED internal
        BY <2>6, SentChannel DEF Typed, TypeOK
      <4> QED
        BY <1>1, <1>4, <1>8, <4>1
    <3>3. CurrentEnds' = {last}
      BY <1>4, <2>2, <2>6, <3>2 DEF CurrentEnds
    <3>4. SlotPhase'
      BY <1>2, <1>4, <1>6, <2>2, <2>3, <2>6, <3>1, <3>2 DEF SlotInv, SlotPhase, CancelTypes
    <3>5. \A n \in CurrentEnds', k \in CurrentMsgs' : k <= n
      BY <1>4, <2>6, <3>2, <3>3
    <3>6. BusyMeansOneStage'
      BY <1>2, <1>6, <2>2, <3>1, <3>3, <3>5 DEF BusyMeansOneStage
    <3> QED
      BY <1>5, <3>4, <3>6 DEF SlotInv
  <2> QED
    BY <1>1, <2>5, <2>6
<1> QED
  BY <1>7, <1>8

LEMMA ApplySeedSlot ==
  ASSUME Typed, SlotInv, ApplySeed
  PROVE  SlotInv'
<1>1. gen' = gen + 1 /\ GoIdle /\ UNCHANGED <<internal, cancelStages, postStages>>
  BY DEF ApplySeed, AbandonStage, taskVars
<1>2. /\ gen \in Nat /\ gen' \in Nat
      /\ CurrentMsgs' = {}
      /\ \A n \in 1..Len(internal') : internal'[n].gen < gen'
      /\ \A s \in cancelStages \cup postStages : s.gen \in Nat /\ s.gen < gen'
  BY <1>1, NewGeneration DEF SlotInv
<1>3. \A n \in 1..Len(internal') : internal'[n].gen <= gen'
  <2>1. \A n \in 1..Len(internal') : internal'[n] \in OmInternal
    BY <1>1 DEF Typed, TypeOK, ChannelsTyped
  <2> QED
    BY <1>2, <2>1, MessageFields
<1>4. \A s \in cancelStages \cup postStages : s.gen <= gen' /\ s.gen # gen'
  BY <1>2
<1>5. CurrentPosts' = {} /\ CurrentCancels' = {} /\ CurrentEnds' = {}
  BY <1>1, <1>2, <1>4 DEF CurrentCancels, CurrentPosts, CurrentEnds
<1>6. GenerationsBounded'
  BY <1>1, <1>3, <1>4 DEF GenerationsBounded
<1>7. SlotPhase'
  BY <1>1, <1>2, <1>5 DEF SlotPhase, GoIdle
<1>8. BusyMeansOneStage'
  BY <1>1, <1>5 DEF BusyMeansOneStage, GoIdle
<1> QED
  BY <1>6, <1>7, <1>8 DEF SlotInv

LEMMA ExecCommandSlot ==
  ASSUME Typed, SlotInv, NEW cmd \in Commands, ExecCommand(cmd)
  PROVE  SlotInv'
<1>1. UNCHANGED internal
  BY DEF ExecCommand
<1>2. CASE busy /\ UNCHANGED <<gen, busy, stage, current, failed, ticks, tracked, taskVars>>
  BY <1>1, <1>2
  DEF SlotInv, taskVars, GenerationsBounded, SlotPhase, BusyMeansOneStage, CurrentMsgs,
      CurrentEnds, CurrentCancels, CurrentPosts
<1>3. CASE Start(cmd, backoff)
  BY <1>1, <1>3, StartSlot
<1> QED
  BY <1>2, <1>3 DEF ExecCommand

LEMMA InitSlot == Init => SlotInv
  BY DEF Init, SlotInv, GenerationsBounded, SlotPhase, BusyMeansOneStage, CurrentMsgs,
         CurrentEnds, CurrentCancels, CurrentPosts

LEMMA NextSlot ==
  ASSUME Typed, SlotInv, [Next]_vars
  PROVE  SlotInv'
<1>1. ASSUME NEW cmd \in Commands, ExecCommand(cmd) PROVE SlotInv'
  BY <1>1, ExecCommandSlot
<1>2. ASSUME NEW s \in cancelStages, CancelStep(s) PROVE SlotInv'
  BY <1>2, CancelStepSlot
<1>3. ASSUME NEW s \in postStages, PostStep(s) PROVE SlotInv'
  BY <1>3, PostStepSlot
<1>4. ASSUME NEW w \in sweeps, SweepStep(w) PROVE SlotInv'
  BY <1>4, SlotFrame DEF SweepStep
<1>5. CASE DropStale
  BY <1>5, ReceiveSlot DEF DropStale, slotVars
<1>6. CASE CancelBatch
  BY <1>6, ReceiveSlot DEF CancelBatch, Receive, slotVars, EndTypes
<1>7. CASE PostBatch
  BY <1>7, ReceiveSlot DEF PostBatch, Receive, EndTypes
<1>8. CASE CancelFinished
  BY <1>8, FinishSlot DEF CancelFinished, Receive, EndTypes
<1>9. CASE PostFinished
  BY <1>9, FinishSlot DEF PostFinished, Receive, EndTypes
<1>10. CASE ApplySeed
  BY <1>10, ApplySeedSlot
<1>11. CASE Resync
  BY <1>11, SlotFrame DEF Resync
<1>12. CASE ClockTick
  BY <1>12, SlotFrame DEF ClockTick
<1>13. ASSUME NEW i \in Ids,
              UserOrderUpdate(i) \/ Fill(i) \/ SweptByOther(i) \/ LoseUpdate(i)
       PROVE  SlotInv'
  BY <1>13, SlotFrame DEF UserOrderUpdate, Fill, SweptByOther, LoseUpdate
<1>14. CASE UNCHANGED vars
  BY <1>14, SlotFrame DEF vars
<1> QED
  BY <1>1, <1>2, <1>3, <1>4, <1>5, <1>6, <1>7, <1>8, <1>9, <1>10, <1>11, <1>12, <1>13, <1>14
  DEF Next

(***************************************************************************)
(* The slot of a market is busy exactly while one stage of its generation  *)
(* is on its way to report: no reseed, late message or failed stage wedges *)
(* it or lets two stages of one command run, for every configuration.      *)
(***************************************************************************)
THEOREM OneStagePerCommand == Spec => []BusyMeansOneStage
<1>1. Init => Typed /\ SlotInv
  BY InitTyped, InitSlot
<1>2. Typed /\ SlotInv /\ [Next]_vars => (Typed /\ SlotInv)'
  BY NextTyped, NextSlot
<1>3. SlotInv => BusyMeansOneStage
  BY DEF SlotInv
<1> QED
  BY <1>1, <1>2, <1>3, PTL DEF Spec

-----------------------------------------------------------------------------
(***************************************************************************)
(* What OrderManager has been told stays true: the exchange's books only   *)
(* move forward, so a size, an answer or an update that was true when it   *)
(* was sent is true when it is handled, however late that is.              *)
(***************************************************************************)

(* The books only move forward.                                            *)
BookGrows ==
  \A i \in Ids :
    /\ Born(i) => Born(i)' /\ book'[i].sz = book[i].sz
    /\ Dead(i) => Dead(i)'
    /\ book[i].matched \in Nat /\ book'[i].matched \in Nat
    /\ book[i].matched <= book'[i].matched

LEMMA UnchangedGrows ==
  ASSUME Typed, UNCHANGED book
  PROVE  BookGrows
<1>1. \A i \in Ids : book[i].matched \in Nat
  BY DEF Typed, TypeOK, ExchangeTyped, OrderState
<1> QED
  BY <1>1 DEF BookGrows, Born, Dead

(* What is new in the queues of user updates is true of the new books.     *)
LEMMA UpdatesStayTrue ==
  ASSUME Typed, UpdatesAreTrue, BookGrows,
         \A i \in Ids :
           \/ ws'[i] = ws[i]
           \/ ws[i] # <<>> /\ ws'[i] = Tail(ws[i])
           \/ \E u \in UserUpdate : /\ ws'[i] = Append(ws[i], u)
                                    /\ u.matched <= book'[i].matched
                                    /\ u.kind = "cancellation" => Dead(i)'
  PROVE  UpdatesAreTrue'
<1> SUFFICES ASSUME NEW i \in Ids, NEW n \in 1..Len(ws'[i])
             PROVE  /\ ws'[i][n].matched <= book'[i].matched
                    /\ ws'[i][n].kind = "cancellation" => Dead(i)'
  BY DEF UpdatesAreTrue
<1>1. ws[i] \in Seq(UserUpdate)
  BY DEF Typed, TypeOK, ExchangeTyped
<1>2. \A k \in 1..Len(ws[i]) : /\ ws[i][k].matched <= book'[i].matched
                               /\ ws[i][k].kind = "cancellation" => Dead(i)'
  <2> SUFFICES ASSUME NEW k \in 1..Len(ws[i])
               PROVE  /\ ws[i][k].matched <= book'[i].matched
                      /\ ws[i][k].kind = "cancellation" => Dead(i)'
    OBVIOUS
  <2>1. ws[i][k].matched <= book[i].matched /\ ws[i][k].matched \in Nat
    <3>1. ws[i][k] \in UserUpdate
      BY <1>1
    <3> QED
      BY <3>1 DEF UpdatesAreTrue, UserUpdate
  <2>2. ws[i][k].kind = "cancellation" => Dead(i)
    BY DEF UpdatesAreTrue
  <2> QED
    BY <2>1, <2>2 DEF BookGrows
<1>3. CASE ws'[i] = ws[i]
  BY <1>2, <1>3
<1>4. CASE ws[i] # <<>> /\ ws'[i] = Tail(ws[i])
  <2>1. n + 1 \in 1..Len(ws[i]) /\ ws'[i][n] = ws[i][n + 1]
    BY <1>1, <1>4
  <2> QED
    BY <1>2, <2>1
<1>5. ASSUME NEW u \in UserUpdate, ws'[i] = Append(ws[i], u),
             u.matched <= book'[i].matched, u.kind = "cancellation" => Dead(i)'
      PROVE  /\ ws'[i][n].matched <= book'[i].matched
             /\ ws'[i][n].kind = "cancellation" => Dead(i)'
  <2>1. (n \in 1..Len(ws[i]) /\ ws'[i][n] = ws[i][n]) \/ ws'[i][n] = u
    BY <1>1, <1>5
  <2> QED
    BY <1>2, <1>5, <2>1
<1> QED
  BY <1>3, <1>4, <1>5

LEMMA CancelsTell ==
  ASSUME Typed, UpdatesAreTrue, NEW I \in SUBSET Ids, \A i \in I : Resting(i),
         ExchangeCancels(I)
  PROVE  BookGrows /\ UpdatesAreTrue' /\ \A i \in I : Dead(i)'
<1>1. /\ \A i \in I : /\ book'[i] = [book[i] EXCEPT !.st = "canceled"]
                      /\ ws'[i] = Append(ws[i], [kind |-> "cancellation",
                                                 matched |-> book[i].matched])
      /\ \A i \in Ids \ I : book'[i] = book[i] /\ ws'[i] = ws[i]
  BY CanceledOrders DEF Typed
<1>2. \A i \in Ids : book[i] \in OrderState /\ book[i].matched \in Nat
  BY DEF Typed, TypeOK, ExchangeTyped, OrderState
<1>3. ASSUME NEW i \in I
      PROVE  book'[i].st = "canceled" /\ book'[i].sz = book[i].sz
             /\ book'[i].matched = book[i].matched
  <2>1. book[i] \in OrderState /\ book'[i] = [book[i] EXCEPT !.st = "canceled"]
    BY <1>1, <1>2
  <2> QED
    BY <2>1 DEF OrderState
<1>4. BookGrows /\ \A i \in I : Dead(i)'
  BY <1>1, <1>2, <1>3 DEF BookGrows, Born, Dead
<1>5. \A i \in I : \E u \in UserUpdate : /\ ws'[i] = Append(ws[i], u)
                                         /\ u.matched <= book'[i].matched
                                         /\ u.kind = "cancellation" => Dead(i)'
  <2> SUFFICES ASSUME NEW i \in I
               PROVE  \E u \in UserUpdate : /\ ws'[i] = Append(ws[i], u)
                                            /\ u.matched <= book'[i].matched
                                            /\ u.kind = "cancellation" => Dead(i)'
    OBVIOUS
  <2> DEFINE u == [kind |-> "cancellation", matched |-> book[i].matched]
  <2>1. u \in UserUpdate /\ u.matched = book[i].matched
    BY <1>2 DEF UserUpdate
  <2>2. ws'[i] = Append(ws[i], u)
    BY <1>1
  <2> HIDE DEF u
  <2> QED
    BY <1>2, <1>3, <1>4, <2>1, <2>2
<1>6. UpdatesAreTrue'
  BY <1>1, <1>4, <1>5, UpdatesStayTrue
<1> QED
  BY <1>4, <1>6

LEMMA PlacesTell ==
  ASSUME Typed, UpdatesAreTrue, NEW A \in SUBSET DesiredOrder, OnePerKey(A),
         \A p \in A : HasFreshId(p.key), ExchangePlaces(A)
  PROVE  /\ BookGrows /\ UpdatesAreTrue'
         /\ \A p \in A : /\ FreshId(p.key) \in Ids /\ FreshId(p.key)[1] = p.key
                         /\ ~Born(FreshId(p.key))
                         /\ book'[FreshId(p.key)].st # "unborn"
                         /\ book'[FreshId(p.key)].sz = p.sz
<1> DEFINE ids == {FreshId(p.key) : p \in A}
           u == [kind |-> "placement", matched |-> 0]
<1>1. /\ \A p \in A : /\ FreshId(p.key) \in Ids
                      /\ FreshId(p.key)[1] = p.key
                      /\ book[FreshId(p.key)].st = "unborn"
                      /\ book'[FreshId(p.key)] = [st |-> "live", px |-> p.px, sz |-> p.sz,
                                                  matched |-> 0, born |-> now]
                      /\ ws'[FreshId(p.key)] = Append(ws[FreshId(p.key)], u)
      /\ \A i \in Ids : i \notin ids => book'[i] = book[i] /\ ws'[i] = ws[i]
  BY PlacedOrders DEF Typed
<1>2. \A i \in Ids : book[i].matched \in Nat
  BY DEF Typed, TypeOK, ExchangeTyped, OrderState
<1>3. ASSUME NEW p \in A
      PROVE  LET i == FreshId(p.key)
             IN  /\ book'[i].st = "live" /\ book'[i].matched = 0 /\ book'[i].sz = p.sz
                 /\ book[i].st = "unborn" /\ book[i].matched = 0
  <2>1. book'[FreshId(p.key)] = [st |-> "live", px |-> p.px, sz |-> p.sz,
                                 matched |-> 0, born |-> now]
    BY <1>1
  <2>2. book[FreshId(p.key)].st = "unborn" /\ book[FreshId(p.key)].matched = 0
    BY <1>1 DEF Typed, BookSound, Born
  <2> QED
    BY <2>1, <2>2
<1>4. BookGrows
  <2> SUFFICES ASSUME NEW i \in Ids
               PROVE  /\ Born(i) => Born(i)' /\ book'[i].sz = book[i].sz
                      /\ Dead(i) => Dead(i)'
                      /\ book[i].matched \in Nat /\ book'[i].matched \in Nat
                      /\ book[i].matched <= book'[i].matched
    BY DEF BookGrows
  <2>1. CASE i \notin ids
    BY <1>1, <1>2, <2>1 DEF Born, Dead
  <2>2. CASE i \in ids
    BY <1>3, <2>2 DEF Born, Dead
  <2> QED
    BY <2>1, <2>2
<1>5. u \in UserUpdate /\ u.matched = 0 /\ u.kind # "cancellation"
  BY DEF UserUpdate
<1>6. UpdatesAreTrue'
  <2>1. \A i \in ids : ws'[i] = Append(ws[i], u) /\ u.matched <= book'[i].matched
    <3> SUFFICES ASSUME NEW p \in A
                 PROVE  /\ ws'[FreshId(p.key)] = Append(ws[FreshId(p.key)], u)
                        /\ u.matched <= book'[FreshId(p.key)].matched
      OBVIOUS
    <3>1. book'[FreshId(p.key)].matched = 0
      BY <1>3
    <3>2. ws'[FreshId(p.key)] = Append(ws[FreshId(p.key)], u)
      BY <1>1
    <3> HIDE DEF u
    <3> QED
      BY <1>5, <3>1, <3>2
  <2>2. \A i \in Ids : i \notin ids => ws'[i] = ws[i]
    BY <1>1
  <2> HIDE DEF u, ids
  <2>3. \A i \in Ids :
          \/ ws'[i] = ws[i]
          \/ \E v \in UserUpdate : /\ ws'[i] = Append(ws[i], v)
                                   /\ v.matched <= book'[i].matched
                                   /\ v.kind = "cancellation" => Dead(i)'
    BY <1>5, <2>1, <2>2
  <2> QED
    BY <1>4, <2>3, UpdatesStayTrue
<1> QED
  BY <1>1, <1>3, <1>4, <1>6 DEF Born

LEMMA FillTells ==
  ASSUME Typed, UpdatesAreTrue, NEW i \in Ids, Fill(i)
  PROVE  BookGrows /\ UpdatesAreTrue'
<1> DEFINE m == book[i].matched + 1
           o == [book[i] EXCEPT !.matched = m,
                                !.st = IF m = book[i].sz THEN "filled" ELSE "live"]
           u == [kind |-> "update", matched |-> m]
<1>1. /\ book[i] \in OrderState /\ book \in [Ids -> OrderState]
      /\ \A j \in Ids : book[j].matched \in Nat
      /\ ws \in [Ids -> Seq(UserUpdate)]
  BY DEF Typed, TypeOK, ExchangeTyped, OrderState
<1>2. book' = [book EXCEPT ![i] = o] /\ Tell({i}, u)
  BY DEF Fill
<1>3. o.matched = m /\ o.sz = book[i].sz /\ o.st \in {"filled", "live"}
  BY <1>1 DEF OrderState
<1>4. m \in Nat /\ book[i].matched <= m /\ book[i].st = "live"
  BY <1>1 DEF Fill, Resting
<1>5. book'[i] = o /\ \A j \in Ids : j # i => book'[j] = book[j]
  BY <1>1, <1>2
<1>6. BookGrows
  <2>1. /\ book[i].st = "live" /\ book'[i].st \in {"filled", "live"}
        /\ book'[i].sz = book[i].sz /\ book'[i].matched = m
    BY <1>3, <1>4, <1>5
  <2> HIDE DEF m, o
  <2> QED
    BY <1>1, <1>4, <1>5, <2>1 DEF BookGrows, Born, Dead
<1>7. u \in UserUpdate /\ u.matched = m /\ u.kind # "cancellation"
  BY <1>4 DEF UserUpdate
<1>8. ws'[i] = Append(ws[i], u) /\ \A j \in Ids : j # i => ws'[j] = ws[j]
  BY <1>2 DEF Tell
<1>9. u.matched <= book'[i].matched
  BY <1>3, <1>4, <1>5, <1>7
<1> HIDE DEF u
<1>10. UpdatesAreTrue'
  BY <1>6, <1>7, <1>8, <1>9, UpdatesStayTrue
<1> QED
  BY <1>6, <1>10

LEMMA QuietTells ==
  ASSUME Typed, UpdatesAreTrue, UNCHANGED exVars
  PROVE  BookGrows /\ UpdatesAreTrue'
  BY UnchangedGrows DEF exVars, UpdatesAreTrue, Dead

LEMMA CancelStepTells ==
  ASSUME Typed, UpdatesAreTrue, NEW s \in cancelStages, CancelStep(s)
  PROVE  BookGrows /\ UpdatesAreTrue'
<1>1. CASE CancelSend(s)
  <2>1. PICK B \in Batches(s.todo) :
          \E I \in SUBSET {c.id : c \in {d \in B : Resting(d.id)}} : ExchangeCancels(I)
    BY <1>1 DEF CancelSend
  <2>2. B \subseteq CancelAction
    BY DEF Batches, Typed, TypeOK, TasksTyped, CancelStage
  <2>3. \A I \in SUBSET {c.id : c \in {d \in B : Resting(d.id)}} :
          I \in SUBSET Ids /\ \A i \in I : Resting(i)
    BY <2>2 DEF CancelAction
  <2> QED
    BY <2>1, <2>3, CancelsTell
<1>2. CASE CancelDone(s)
  BY <1>2, QuietTells DEF CancelDone
<1> QED
  BY <1>1, <1>2 DEF CancelStep

LEMMA PostStepTells ==
  ASSUME Typed, UpdatesAreTrue, NEW s \in postStages, PostStep(s)
  PROVE  BookGrows /\ UpdatesAreTrue'
<1>1. s \in PostStage /\ OnePerKey(s.todo)
  BY DEF Typed, TypeOK, TasksTyped, PlansAreDistinct
<1>2. s.todo \subseteq DesiredOrder /\ s.reverting \subseteq PostResult
  BY <1>1 DEF PostStage
<1>3. CASE PostSend(s)
  <2>1. PICK B \in SUBSET s.todo, A \in SUBSET s.todo :
          /\ \A p \in A : HasFreshId(p.key)
          /\ ExchangePlaces(A)
    BY <1>3, PostSendCases DEF SentBatch, ErredBatch
  <2>2. A \in SUBSET DesiredOrder /\ OnePerKey(A)
    BY <1>1, <1>2 DEF OnePerKey
  <2> QED
    BY <2>1, <2>2, PlacesTell
<1>4. CASE PostRevert(s)
  <2>1. RevertTargets(s.reverting) \subseteq Ids
    BY <1>2 DEF RevertTargets, PostResult
  <2> QED
    BY <1>4, <2>1, CancelsTell DEF PostRevert
<1>5. CASE PostDone(s)
  BY <1>5, QuietTells DEF PostDone
<1> QED
  BY <1>3, <1>4, <1>5 DEF PostStep

LEMMA NextTells ==
  ASSUME Typed, UpdatesAreTrue, [Next]_vars
  PROVE  BookGrows /\ UpdatesAreTrue'
<1> DEFINE Goal == BookGrows /\ UpdatesAreTrue'
<1>1. ASSUME NEW cmd \in Commands, ExecCommand(cmd) PROVE Goal
  BY <1>1, QuietTells DEF ExecCommand
<1>2. ASSUME NEW s \in cancelStages, CancelStep(s) PROVE Goal
  BY <1>2, CancelStepTells
<1>3. ASSUME NEW s \in postStages, PostStep(s) PROVE Goal
  BY <1>3, PostStepTells
<1>4. ASSUME NEW w \in sweeps, SweepStep(w) PROVE Goal
  <2>1. w \subseteq Ids
    BY DEF Typed, TypeOK, TasksTyped
  <2> QED
    BY <1>4, <2>1, CancelsTell DEF SweepStep
<1>5. CASE DropStale \/ CancelBatch \/ CancelFinished \/ PostBatch \/ PostFinished
           \/ ApplySeed \/ Resync \/ ClockTick
  BY <1>5, QuietTells
  DEF DropStale, CancelBatch, CancelFinished, PostBatch, PostFinished, ApplySeed, Resync,
      ClockTick
<1>6. ASSUME NEW i \in Ids, Fill(i) PROVE Goal
  BY <1>6, FillTells
<1>7. ASSUME NEW i \in Ids, SweptByOther(i) PROVE Goal
  BY <1>7, CancelsTell DEF SweptByOther
<1>8. ASSUME NEW i \in Ids, UserOrderUpdate(i) \/ LoseUpdate(i) PROVE Goal
  <2>1. /\ UNCHANGED book
        /\ \A j \in Ids : ws'[j] = ws[j] \/ (ws[j] # <<>> /\ ws'[j] = Tail(ws[j]))
    BY <1>8 DEF UserOrderUpdate, LoseUpdate, Typed, TypeOK, ExchangeTyped
  <2>2. BookGrows
    BY <2>1, UnchangedGrows
  <2> QED
    BY <2>1, <2>2, UpdatesStayTrue
<1>9. CASE UNCHANGED vars
  BY <1>9, QuietTells DEF vars
<1> QED
  BY <1>1, <1>2, <1>3, <1>4, <1>5, <1>6, <1>7, <1>8, <1>9 DEF Next

-----------------------------------------------------------------------------
(* What the cache, the channels and the stages hold is true of the books.  *)

LEMMA OwnKeyStays ==
  ASSUME BookGrows
  PROVE  /\ \A i \in Ids : \A z : TrueOf(i, z) => book'[i].st # "unborn" /\ book'[i].sz = z
         /\ \A r : OwnKey(r) => OwnKey(r)'
         /\ \A i \in Ids : Dead(i) => Dead(i)'
<1>1. \A i \in Ids : \A z : TrueOf(i, z) => book'[i].st # "unborn" /\ book'[i].sz = z
  BY DEF BookGrows, TrueOf, Born
<1>2. \A r : OwnKey(r) => OwnKey(r)'
  BY <1>1 DEF OwnKey, TrueOf, Born
<1> QED
  BY <1>1, <1>2 DEF BookGrows

LEMMA CacheStaysTrue ==
  ASSUME Typed, CacheTrue(live), BookGrows,
         \A k \in Keys : live'[k] # None =>
           \E j \in Keys : /\ live[j] # None
                          /\ live'[k].id = live[j].id /\ live'[k].sz = live[j].sz
  PROVE  CacheTrue(live)'
<1> SUFFICES ASSUME NEW k \in Keys, live'[k] # None
             PROVE  book'[live'[k].id].st # "unborn" /\ book'[live'[k].id].sz = live'[k].sz
  BY DEF CacheTrue, TrueOf, Born
<1>1. PICK j \in Keys : /\ live[j] # None
                        /\ live'[k].id = live[j].id /\ live'[k].sz = live[j].sz
  OBVIOUS
<1>2. live[j].id \in Ids /\ TrueOf(live[j].id, live[j].sz)
  BY <1>1 DEF CacheTrue, Typed, TypeOK, CacheTyped, LiveOrder
<1> QED
  BY <1>1, <1>2, OwnKeyStays

LEMMA MessagesStayTrue ==
  ASSUME Typed, MessagesTrue, BookGrows,
         UNCHANGED internal \/ (internal # <<>> /\ internal' = Tail(internal))
  PROVE  MessagesTrue'
<1>1. ASSUME NEW m \in OmInternal, MessageTrue(m) PROVE MessageTrue(m)'
  <2>1. m.type = "CancelBatch" => m.gone \subseteq Ids
    BY MessageFields
  <2> QED
    BY <1>1, <2>1, OwnKeyStays DEF MessageTrue
<1>2. \A n \in 1..Len(internal) : internal[n] \in OmInternal /\ MessageTrue(internal[n])
  BY DEF MessagesTrue, Typed, TypeOK, ChannelsTyped
<1>3. \A n \in 1..Len(internal') : \E k \in 1..Len(internal) : internal'[n] = internal[k]
  <2>1. CASE UNCHANGED internal
    BY <2>1
  <2>2. CASE internal # <<>> /\ internal' = Tail(internal)
    <3>1. /\ Len(internal) \in Nat /\ Len(internal') = Len(internal) - 1
          /\ \A n \in 1..Len(internal') : internal'[n] = internal[n + 1]
      BY <2>2, ReceivedChannel DEF Typed, TypeOK
    <3>2. \A n \in 1..Len(internal') : n + 1 \in 1..Len(internal)
      BY <3>1
    <3> QED
      BY <3>1, <3>2
  <2> QED
    BY <2>1, <2>2
<1>4. ASSUME NEW n \in 1..Len(internal')
      PROVE  MessageTrue(internal[n])'
  <2>1. PICK k \in 1..Len(internal) : internal'[n] = internal[k]
    BY <1>3
  <2>2. PICK m : m = internal[k]
    OBVIOUS
  <2>3. m \in OmInternal /\ MessageTrue(m)
    BY <1>2, <2>2
  <2>4. MessageTrue(m)' /\ internal'[n] = m
    BY <1>1, <2>1, <2>2, <2>3
  <2> QED
    BY <2>4 DEF MessageTrue
<1> QED
  BY <1>4 DEF MessagesTrue

LEMMA SentMessageTrue ==
  ASSUME Typed, MessagesTrue, BookGrows, NEW m, Send(m), MessageTrue(m)'
  PROVE  MessagesTrue'
<1>1. /\ Len(internal) \in Nat
      /\ Len(internal') = Len(internal) + 1
      /\ internal'[Len(internal) + 1] = m
      /\ \A n \in 1..Len(internal) : internal'[n] = internal[n]
  BY SentChannel DEF Typed, TypeOK
<1>2. ASSUME NEW n \in 1..Len(internal')
      PROVE  MessageTrue(internal[n])'
  <2>1. PICK x : x = internal'[n]
    OBVIOUS
  <2>2. CASE n \in 1..Len(internal)
    <3>1. x = internal[n] /\ x \in OmInternal /\ MessageTrue(x)
      BY <1>1, <2>1, <2>2 DEF MessagesTrue, Typed, TypeOK, ChannelsTyped
    <3>2. x.type = "CancelBatch" => x.gone \subseteq Ids
      BY <3>1, MessageFields
    <3>3. MessageTrue(x)'
      BY <3>1, <3>2, OwnKeyStays DEF MessageTrue
    <3> QED
      BY <2>1, <3>3 DEF MessageTrue
  <2>3. CASE n \notin 1..Len(internal)
    <3>1. internal'[n] = m
      BY <1>1, <2>3
    <3> QED
      BY <3>1 DEF MessageTrue
  <2> QED
    BY <2>2, <2>3
<1> QED
  BY <1>2 DEF MessagesTrue

LEMMA OrdersFrame ==
  ASSUME Typed, OrdersAreTrue, BookGrows
  PROVE  /\ UNCHANGED live => CacheTrue(live)'
         /\ UNCHANGED seedq => SeedsTrue'
         /\ UNCHANGED cancelStages => CancelsTrue'
         /\ UNCHANGED postStages => RevertsTrue'
         /\ UNCHANGED internal \/ (internal # <<>> /\ internal' = Tail(internal))
              => MessagesTrue'
<1> USE DEF OrdersAreTrue
<1>1. UNCHANGED live => CacheTrue(live)'
  BY CacheStaysTrue
<1>2. ASSUME UNCHANGED seedq PROVE SeedsTrue'
  <2>1. ASSUME NEW n \in 1..Len(seedq), NEW k \in Keys, seedq[n][k] # None
        PROVE  LET o == seedq[n][k]
               IN  book'[o.id].st # "unborn" /\ book'[o.id].sz = o.sz
    <3>1. seedq[n] \in Cache
      BY DEF Typed, TypeOK, ChannelsTyped, Cache
    <3>2. seedq[n][k].id \in Ids
      BY <2>1, <3>1 DEF Cache, LiveOrder
    <3>3. TrueOf(seedq[n][k].id, seedq[n][k].sz)
      BY <2>1 DEF SeedsTrue, CacheTrue
    <3> QED
      BY <3>2, <3>3, OwnKeyStays
  <2> QED
    BY <1>2, <2>1 DEF SeedsTrue, CacheTrue, TrueOf, Born
<1>3. ASSUME UNCHANGED cancelStages PROVE CancelsTrue'
  <2>1. \A s \in cancelStages : \A c \in s.todo : c.id \in Ids
    BY DEF Typed, TypeOK, TasksTyped, CancelStage, CancelAction
  <2> QED
    BY <1>3, <2>1 DEF CancelsTrue, BookGrows, Born
<1>4. UNCHANGED postStages => RevertsTrue'
  BY OwnKeyStays DEF RevertsTrue, Accepted
<1>5. UNCHANGED internal \/ (internal # <<>> /\ internal' = Tail(internal)) => MessagesTrue'
  BY MessagesStayTrue
<1> QED
  BY <1>1, <1>2, <1>3, <1>4, <1>5

LEMMA StartTrue ==
  ASSUME Typed, OrdersAreTrue, NEW cmd \in Commands, NEW b, Start(cmd, b), UNCHANGED book
  PROVE  CancelsTrue' /\ RevertsTrue'
<1> DEFINE known   == InferTicks(cmd, ticks)
           cancels == DiffCancels(cmd, live, known, now)
           posts   == AboveFloor(DiffPosts(cmd, live, known, now))
<1>1. BookGrows
  BY UnchangedGrows
<1>2. cmd \in Desired /\ live \in Cache
  BY ManagerAssumption DEF Desired, Cache, TypeOK, CacheTyped, Typed
<1>3. \A c \in cancels : Born(c.id)
  <2>1. \A c \in cancels : /\ c \in CancelAction /\ live[c.key] # None
                          /\ c.id = live[c.key].id
    BY <1>2, DiffCancelsHit
  <2> QED
    BY <2>1 DEF OrdersAreTrue, CacheTrue, TrueOf, CancelAction
<1> HIDE DEF cancels, posts, known
<1>4. CASE StartCancels(cmd, cancels)
  BY <1>1, <1>3, <1>4, OrdersFrame DEF StartCancels, OrdersAreTrue, CancelsTrue, Born
<1>5. CASE StartPosts(cmd, cancels, posts, b)
  <2>1. \A s \in postStages' : s \in postStages \/ s.reverting = {}
    BY <1>5 DEF StartPosts
  <2>2. RevertsTrue'
    BY <1>1, <2>1, OwnKeyStays DEF OrdersAreTrue, RevertsTrue, Accepted
  <2> QED
    BY <1>1, <1>5, <2>2, OrdersFrame DEF StartPosts
<1>6. CASE NothingToStart(cancels, posts, b)
  BY <1>1, <1>6, OrdersFrame DEF NothingToStart
<1> QED
  BY <1>4, <1>5, <1>6 DEF Start, cancels, posts, known

LEMMA FinishTrue ==
  ASSUME Typed, OrdersAreTrue, NEW continue, NEW b, Finish(continue, b), UNCHANGED book
  PROVE  CancelsTrue' /\ RevertsTrue'
<1>1. CASE NextCommand(continue) = None
  BY <1>1, UnchangedGrows, OrdersFrame DEF Finish, taskVars
<1>2. CASE NextCommand(continue) # None
  <2>1. NextCommand(continue) \in Commands
    BY <1>2 DEF NextCommand, Typed, TypeOK, SlotTyped
  <2> QED
    BY <1>2, <2>1, StartTrue DEF Finish
<1> QED
  BY <1>1, <1>2

Truth == UpdatesAreTrue /\ OrdersAreTrue /\ SeedsAreInjective

(* An order a cancel answer calls gone is dead: it was canceled by this    *)
(* very call, or was not resting when the call was made.                   *)
LEMMA CancelStepTrue ==
  ASSUME Typed, UpdatesAreTrue, OrdersAreTrue, NEW s \in cancelStages, CancelStep(s)
  PROVE  OrdersAreTrue'
<1>1. BookGrows
  BY CancelStepTells
<1>2. UNCHANGED <<live, seedq, postStages>>
  BY DEF CancelStep, cacheVars
<1>3. s \in CancelStage /\ s.todo \subseteq CancelAction
  BY DEF Typed, TypeOK, TasksTyped, CancelStage
<1>4. \A c \in s.todo : c.id \in Ids /\ Born(c.id)
  BY <1>3 DEF CancelAction, OrdersAreTrue, CancelsTrue
<1>5. CancelsTrue'
  <2>1. \A t \in cancelStages' : t \in cancelStages \/ t.todo \subseteq s.todo
    <3>1. \A B : [s EXCEPT !.todo = @ \ B].todo \subseteq s.todo
      BY <1>3 DEF CancelStage
    <3>2. CASE CancelDone(s)
      BY <3>2 DEF CancelDone
    <3>3. CASE CancelSend(s)
      <4>1. PICK B : \/ cancelStages' = (cancelStages \ {s}) \cup {[s EXCEPT !.todo = @ \ B]}
                     \/ cancelStages' = cancelStages \ {s}
        BY <3>3 DEF CancelSend
      <4> QED
        BY <3>1, <4>1
    <3> QED
      BY <3>2, <3>3 DEF CancelStep
  <2>2. \A t \in cancelStages : \A c \in t.todo : c.id \in Ids /\ Born(c.id)
    BY DEF Typed, TypeOK, TasksTyped, CancelStage, CancelAction, OrdersAreTrue, CancelsTrue
  <2> QED
    BY <1>1, <1>4, <2>1, <2>2 DEF CancelsTrue, BookGrows, Born
<1>6. MessagesTrue'
  <2>1. ASSUME NEW m, Send(m), m.type \notin {"CancelBatch", "PostBatch"}
        PROVE  MessagesTrue'
    BY <1>1, <2>1, SentMessageTrue DEF MessageTrue, OrdersAreTrue
  <2>2. CASE CancelDone(s)
    <3> DEFINE m == [type |-> "CancelFinished", gen |-> s.gen, at |-> s.at, fatal |-> FALSE]
    <3>1. m.type \notin {"CancelBatch", "PostBatch"} /\ Send(m)
      BY <2>2 DEF CancelDone
    <3> HIDE DEF m
    <3> QED
      BY <2>1, <3>1
  <2>3. CASE CancelSend(s)
    <3>1. PICK B \in Batches(s.todo) :
            LET resting == {c.id : c \in {d \in B : Resting(d.id)}}
            IN  \/ \E refused \in SUBSET resting :
                     /\ ExchangeCancels(resting \ refused)
                     /\ Send([type |-> "CancelBatch", gen |-> s.gen, at |-> s.at,
                              cancels |-> B, gone |-> Gone(B, refused)])
                \/ Send([type |-> "CancelFinished", gen |-> s.gen, at |-> s.at,
                         fatal |-> TRUE])
      BY <2>3 DEF CancelSend
    <3> DEFINE resting == {c.id : c \in {d \in B : Resting(d.id)}}
               fin == [type |-> "CancelFinished", gen |-> s.gen, at |-> s.at, fatal |-> TRUE]
               msg(refused) == [type |-> "CancelBatch", gen |-> s.gen, at |-> s.at,
                                cancels |-> B, gone |-> Gone(B, refused)]
    <3>2. B \subseteq s.todo
      BY DEF Batches
    <3>3. ASSUME NEW refused \in SUBSET resting, ExchangeCancels(resting \ refused),
                 Send(msg(refused))
          PROVE  MessagesTrue'
      <4>1. PICK m : m = msg(refused)
        OBVIOUS
      <4>2. resting \ refused \in SUBSET Ids /\ \A i \in resting \ refused : Resting(i)
        BY <1>4, <3>2
      <4>3. \A i \in resting \ refused : Dead(i)'
        BY <3>3, <4>2, CancelsTell
      <4>4. \A i \in Gone(B, refused) : Dead(i)'
        <5> SUFFICES ASSUME NEW i \in Gone(B, refused) PROVE Dead(i)'
          OBVIOUS
        <5>1. i \in Ids /\ Born(i) /\ i \notin refused
          BY <1>4, <3>2 DEF Gone
        <5>2. CASE Resting(i)
          BY <4>3, <5>1, <5>2 DEF Gone
        <5>3. CASE ~Resting(i)
          <6>1. book[i] \in OrderState
            BY <5>1 DEF Typed, TypeOK, ExchangeTyped
          <6>2. Dead(i)
            BY <5>1, <5>3, <6>1 DEF OrderState, Dead, Resting, Born
          <6> QED
            BY <1>1, <5>1, <6>2 DEF BookGrows
        <5> QED
          BY <5>2, <5>3
      <4>5. m.type = "CancelBatch" /\ m.gone = Gone(B, refused)
        BY <4>1
      <4>6. MessageTrue(m)'
        BY <4>4, <4>5 DEF MessageTrue, Dead
      <4>7. Send(m)
        BY <3>3, <4>1
      <4> QED
        BY <1>1, <4>6, <4>7, SentMessageTrue DEF OrdersAreTrue
    <3>4. CASE Send(fin)
      <4>1. fin.type \notin {"CancelBatch", "PostBatch"}
        OBVIOUS
      <4> HIDE DEF fin
      <4> QED
        BY <2>1, <3>4, <4>1
    <3> QED
      BY <3>1, <3>3, <3>4
  <2> QED
    BY <2>2, <2>3 DEF CancelStep
<1> QED
  BY <1>1, <1>2, <1>5, <1>6, OrdersFrame DEF OrdersAreTrue

(* The orders a batch's answers report as accepted were just placed.       *)
LEMMA AnswersTrue ==
  ASSUME Typed, UpdatesAreTrue, NEW s \in postStages,
         NEW B \in SUBSET s.todo, NEW A \in SUBSET B,
         \A p \in A : HasFreshId(p.key), NEW err, SentBatch(s, B, A, err),
         NEW R, R = {Answer(p, A, err) : p \in B}
  PROVE  /\ R \subseteq PostResult
         /\ \A r \in Accepted(R) : OwnKey(r)' /\ ~Born(r.id) /\ r.id \in Ids
         /\ \A r \in R : \E p \in B : r.key = p.key
         /\ OnePerKey(R)
<1>1. s \in PostStage /\ OnePerKey(s.todo)
  BY DEF Typed, TypeOK, TasksTyped, PlansAreDistinct
<1>2. B \subseteq DesiredOrder /\ A \in SUBSET DesiredOrder /\ OnePerKey(A)
  BY <1>1 DEF PostStage, OnePerKey
<1>3. err \in {"none", "postonly", "error"} /\ (err = "none" <=> A = B) /\ ExchangePlaces(A)
  BY DEF SentBatch
<1>4. \A p \in B : /\ Answer(p, A, err) \in PostResult
                   /\ Answer(p, A, err).key = p.key
                   /\ Answer(p, A, err).sz = p.sz
                   /\ Answer(p, A, err).id = IF p \in A THEN FreshId(p.key) ELSE None
  BY <1>2, <1>3, AnswerTyped
<1>5. \A p \in A : /\ FreshId(p.key) \in Ids /\ FreshId(p.key)[1] = p.key
                   /\ ~Born(FreshId(p.key))
                   /\ book'[FreshId(p.key)].st # "unborn"
                   /\ book'[FreshId(p.key)].sz = p.sz
  BY <1>2, <1>3, PlacesTell
<1>6. ASSUME NEW r \in Accepted(R)
      PROVE  OwnKey(r)' /\ ~Born(r.id) /\ r.id \in Ids
  <2>1. PICK p \in B : r = Answer(p, A, err)
    BY DEF Accepted
  <2>2. p \in A
    BY <1>4, <2>1 DEF Accepted
  <2>3. r.key = p.key /\ r.sz = p.sz /\ r.id = FreshId(p.key)
    BY <1>4, <2>1, <2>2
  <2> QED
    BY <1>5, <2>2, <2>3 DEF OwnKey, TrueOf, Born
<1>7. OnePerKey(R)
  <2> SUFFICES ASSUME NEW q \in R, NEW r \in R, q.key = r.key PROVE q = r
    BY DEF OnePerKey
  <2>1. PICK x \in B, y \in B : q = Answer(x, A, err) /\ r = Answer(y, A, err)
    OBVIOUS
  <2>2. x.key = y.key
    BY <1>4, <2>1
  <2> QED
    BY <1>1, <2>1, <2>2 DEF OnePerKey
<1>8. \A r \in R : \E p \in B : r.key = p.key
  BY <1>4
<1> QED
  BY <1>4, <1>6, <1>7, <1>8

LEMMA PostStepTrue ==
  ASSUME Typed, UpdatesAreTrue, OrdersAreTrue, NEW s \in postStages, PostStep(s)
  PROVE  OrdersAreTrue'
<1>1. BookGrows
  BY PostStepTells
<1>2. UNCHANGED <<live, seedq, cancelStages>>
  BY DEF PostStep, cacheVars
<1>3. s \in PostStage
  BY DEF Typed, TypeOK, TasksTyped
<1>4. \A t \in postStages : \A r \in Accepted(t.reverting) : OwnKey(r)'
  BY <1>1, OwnKeyStays DEF OrdersAreTrue, RevertsTrue
<1>5. ASSUME NEW m, Send(m), m.type = "PostFinished" PROVE MessagesTrue'
  BY <1>1, <1>5, SentMessageTrue DEF MessageTrue, OrdersAreTrue
<1> DEFINE fin(fatal) == [type |-> "PostFinished", gen |-> s.gen, at |-> s.at, fatal |-> fatal]
<1>6. \A fatal : fin(fatal).type = "PostFinished"
  OBVIOUS
<1> HIDE DEF fin
<1>7. RevertsTrue' /\ MessagesTrue'
  <2>1. CASE PostSend(s)
    <3>1. PICK B \in SUBSET s.todo, A \in SUBSET s.todo :
            /\ A \subseteq B
            /\ \A p \in A : HasFreshId(p.key)
            /\ (\E err : SentBatch(s, B, A, err)) \/ ErredBatch(s, A)
      BY <2>1, PostSendCases
    <3>2. ASSUME NEW err, SentBatch(s, B, A, err) PROVE RevertsTrue' /\ MessagesTrue'
      <4>1. PICK R : R = {Answer(p, A, err) : p \in B}
        OBVIOUS
      <4>2. \A r \in Accepted(R) : OwnKey(r)'
        BY <3>1, <3>2, <4>1, AnswersTrue
      <4>3. /\ [s EXCEPT !.todo = s.todo \ B, !.reverting = R].reverting = R
            /\ [s EXCEPT !.todo = s.todo \ B].reverting = s.reverting
        BY <1>3 DEF PostStage
      <4>4. \/ /\ postStages' = (postStages \ {s}) \cup
                                {[s EXCEPT !.todo = s.todo \ B, !.reverting = R]}
              /\ UNCHANGED internal
           \/ /\ postStages' = (postStages \ {s}) \cup {[s EXCEPT !.todo = s.todo \ B]}
              /\ Send(PostBatchMsg(s, R))
        BY <3>2, <4>1 DEF SentBatch
      <4>5. \A t \in postStages' : t \in postStages \/ t.reverting \in {s.reverting, R}
        BY <4>3, <4>4
      <4>6. RevertsTrue'
        BY <1>4, <4>2, <4>5 DEF RevertsTrue, Accepted
      <4>7. PICK m : m = PostBatchMsg(s, R)
        OBVIOUS
      <4>8. MessageTrue(m)'
        BY <4>2, <4>7 DEF PostBatchMsg, MessageTrue, Accepted
      <4>9. MessagesTrue'
        BY <1>1, <4>4, <4>7, <4>8, SentMessageTrue, MessagesStayTrue DEF OrdersAreTrue
      <4> QED
        BY <4>6, <4>9
    <3>3. CASE ErredBatch(s, A)
      <4>1. Send(fin(TRUE)) /\ postStages' = postStages \ {s}
        BY <3>3 DEF ErredBatch, fin
      <4>2. MessagesTrue'
        BY <1>5, <1>6, <4>1
      <4> QED
        BY <1>4, <4>1, <4>2 DEF RevertsTrue, Accepted
    <3> QED
      BY <3>1, <3>2, <3>3
  <2>2. CASE PostRevert(s)
    <3>1. PICK m : m = PostBatchMsg(s, Reverted(s.reverting))
      OBVIOUS
    <3>2. Send(m) /\ postStages' = (postStages \ {s}) \cup {[s EXCEPT !.reverting = {}]}
      BY <2>2, <3>1 DEF PostRevert
    <3>3. s.reverting \subseteq PostResult /\ [s EXCEPT !.reverting = {}].reverting = {}
      BY <1>3 DEF PostStage
    <3>4. m.type = "PostBatch" /\ \A r \in m.results : r.err # "none"
      BY <3>1, <3>3, RevertedTyped DEF PostBatchMsg
    <3>5. MessagesTrue'
      BY <1>1, <3>2, <3>4, SentMessageTrue DEF OrdersAreTrue, MessageTrue, Accepted
    <3>6. \A t \in postStages' : t \in postStages \/ t.reverting = {}
      BY <3>2, <3>3
    <3>7. RevertsTrue'
      BY <1>4, <3>6 DEF RevertsTrue, Accepted
    <3> QED
      BY <3>5, <3>7
  <2>3. CASE PostDone(s)
    <3>1. Send(fin(FALSE)) /\ postStages' = postStages \ {s}
      BY <2>3 DEF PostDone, fin
    <3>2. MessagesTrue'
      BY <1>5, <1>6, <3>1
    <3> QED
      BY <1>4, <3>1, <3>2 DEF RevertsTrue, Accepted
  <2> QED
    BY <2>1, <2>2, <2>3 DEF PostStep
<1> QED
  BY <1>1, <1>2, <1>7, OrdersFrame DEF OrdersAreTrue

(* What reconciliation reads is true when it reads it.                     *)
LEMMA SeedOrdersSound ==
  ASSUME NEW S, S = SeedOrders
  PROVE  /\ CacheTrue(S)
         /\ \A k \in Keys : S[k] # None => S[k].id \in OpenOrders /\ SeedKey(S[k].id) = k
<1> SUFFICES ASSUME NEW k \in Keys, S[k] # None
             PROVE  /\ TrueOf(S[k].id, S[k].sz)
                    /\ S[k].id \in OpenOrders /\ SeedKey(S[k].id) = k
  BY DEF CacheTrue
<1> DEFINE i == CHOOSE j \in OpenOrders : SeedKey(j) = k
<1>1. \E j \in OpenOrders : SeedKey(j) = k
  BY DEF SeedOrders
<1>2. i \in OpenOrders /\ SeedKey(i) = k
  BY <1>1
<1>3. S[k].id = i /\ S[k].sz = book[i].sz
  BY <1>1 DEF SeedOrders
<1> QED
  BY <1>2, <1>3 DEF TrueOf, Born, OpenOrders, Resting

InjectiveSeed(S) ==
  \A k, j \in Keys : S[k] # None /\ S[j] # None /\ S[k].id = S[j].id => k = j

LEMMA ResyncTrue ==
  ASSUME Typed, Truth, Resync
  PROVE  SeedsTrue' /\ SeedsAreInjective'
<1>1. PICK S : S = SeedOrders
  OBVIOUS
<1>2. CacheTrue(S) /\ InjectiveSeed(S)
  BY <1>1, SeedOrdersSound DEF InjectiveSeed
<1>3. seedq' = Append(seedq, S) /\ book' = book
  BY <1>1 DEF Resync, exVars
<1>4. S \in Cache /\ seedq \in Seq(Cache)
  BY <1>1, SeedOrdersTyped DEF Typed, TypeOK, ChannelsTyped, Cache
<1>5. \A n \in 1..Len(seedq') : seedq'[n] = S \/ (n \in 1..Len(seedq) /\ seedq'[n] = seedq[n])
  BY <1>3, <1>4
<1>6. SeedsTrue'
  <2>1. \A n \in 1..Len(seedq') : CacheTrue(seedq'[n])
    BY <1>2, <1>5 DEF Truth, OrdersAreTrue, SeedsTrue
  <2> QED
    BY <1>3, <2>1 DEF SeedsTrue, CacheTrue, TrueOf, Born
<1>7. SeedsAreInjective'
  BY <1>2, <1>5 DEF Truth, SeedsAreInjective, InjectiveSeed
<1> QED
  BY <1>6, <1>7

LEMMA ApplySeedTrue ==
  ASSUME Typed, Truth, ApplySeed
  PROVE  CacheTrue(live)' /\ SeedsTrue' /\ SeedsAreInjective'
<1>1. seedq \in Seq(Cache) /\ seedq # <<>> /\ seedq' = Tail(seedq) /\ live' = seedq[1]
      /\ book' = book
  BY DEF ApplySeed, exVars, Typed, TypeOK, ChannelsTyped, Cache
<1>2. /\ 1 \in 1..Len(seedq)
      /\ \A n \in 1..Len(seedq') : n + 1 \in 1..Len(seedq) /\ seedq'[n] = seedq[n + 1]
  BY <1>1
<1>3. CacheTrue(live)'
  BY <1>1, <1>2 DEF Truth, OrdersAreTrue, SeedsTrue, CacheTrue, TrueOf, Born
<1>4. SeedsTrue'
  BY <1>1, <1>2 DEF Truth, OrdersAreTrue, SeedsTrue, CacheTrue, TrueOf, Born
<1>5. SeedsAreInjective'
  BY <1>2 DEF Truth, SeedsAreInjective
<1> QED
  BY <1>3, <1>4, <1>5

LEMMA PostBatchTrue ==
  ASSUME Typed, Truth, PostBatch
  PROVE  CacheTrue(live)'
<1> DEFINE m  == Head(internal)
           ok == Accepted(m.results)
<1>1. book' = book /\ m = internal[1] /\ 1 \in 1..Len(internal) /\ m.type = "PostBatch"
  BY ReceivedChannel DEF PostBatch, Receive, exVars, Typed, TypeOK
<1>2. \A r \in ok : OwnKey(r)
  BY <1>1 DEF Truth, OrdersAreTrue, MessagesTrue, MessageTrue
<1> SUFFICES ASSUME NEW k \in Keys, live'[k] # None
             PROVE  book[live'[k].id].st # "unborn" /\ book[live'[k].id].sz = live'[k].sz
  BY <1>1 DEF CacheTrue, TrueOf, Born
<1>3. CASE \E r \in ok : r.key = k
  <2>1. PICK r \in ok : live'[k] = Posted(r, m.at)
    BY <1>3 DEF PostBatch
  <2> QED
    BY <1>2, <2>1 DEF Posted, OwnKey, TrueOf, Born
<1>4. CASE ~ \E r \in ok : r.key = k
  <2>1. live'[k] = live[k]
    BY <1>4 DEF PostBatch
  <2> QED
    BY <2>1 DEF Truth, OrdersAreTrue, CacheTrue, TrueOf, Born
<1> QED
  BY <1>3, <1>4

LEMMA CancelBatchTrue ==
  ASSUME Typed, Truth, CancelBatch
  PROVE  CacheTrue(live)'
<1>1. BookGrows
  BY UnchangedGrows DEF CancelBatch, exVars
<1>2. \A k \in Keys : live'[k] # None => live'[k] = live[k]
  BY DEF CancelBatch, RemoveLive
<1> QED
  BY <1>1, <1>2, CacheStaysTrue DEF Truth, OrdersAreTrue

LEMMA UserOrderUpdateTrue ==
  ASSUME Typed, Truth, NEW i \in Ids, UserOrderUpdate(i)
  PROVE  CacheTrue(live)'
<1> DEFINE u    == Head(ws[i])
           k    == index[i]
           o    == live[k]
           rem  == IF o.sz >= u.matched THEN o.sz - u.matched ELSE 0
           kept == [o EXCEPT !.rem = rem, !.upd = now]
<1>1. BookGrows
  BY UnchangedGrows DEF UserOrderUpdate
<1>2. live \in Cache
  BY DEF Typed, TypeOK, CacheTyped, Cache
<1>3. CASE KnownOrderUpdate(i, u)
  <2>1. k \in Keys /\ o # None /\ o \in LiveOrder
    BY <1>3 DEF KnownOrderUpdate, Known, Typed, TypeOK, CacheTyped
  <2>2. kept.id = o.id /\ kept.sz = o.sz
    <3> HIDE DEF o, rem
    <3> QED
      BY <2>1 DEF LiveOrder
  <2>3. RemoveLive({k}) \/ InsertLive(k, kept)
    BY <1>3 DEF KnownOrderUpdate
  <2>4. \A j \in Keys : live'[j] # None => live'[j] = live[j] \/ (j = k /\ live'[j] = kept)
    <3> HIDE DEF k, kept
    <3> QED
      BY <1>2, <2>3 DEF RemoveLive, InsertLive, Cache
  <2> HIDE DEF k, kept
  <2>5. \A j \in Keys : live'[j] # None =>
          \E x \in Keys : /\ live[x] # None
                         /\ live'[j].id = live[x].id /\ live'[j].sz = live[x].sz
    BY <2>1, <2>2, <2>4
  <2> QED
    BY <1>1, <2>5, CacheStaysTrue DEF Truth, OrdersAreTrue
<1>4. CASE UnknownOrderUpdate(i, u)
  BY <1>1, <1>4, OrdersFrame DEF UnknownOrderUpdate, Truth
<1> QED
  BY <1>3, <1>4 DEF UserOrderUpdate

LEMMA InitTruth == Init => Truth
  BY DEF Init, Truth, UpdatesAreTrue, OrdersAreTrue, CacheTrue, SeedsTrue, CancelsTrue,
         RevertsTrue, MessagesTrue, SeedsAreInjective, NoOrders

LEMMA NextTruth ==
  ASSUME Typed, Truth, [Next]_vars
  PROVE  Truth'
<1>1. BookGrows /\ UpdatesAreTrue'
  BY NextTells DEF Truth
<1>2. /\ UNCHANGED live => CacheTrue(live)'
      /\ UNCHANGED cacheVars => CacheTrue(live)'
      /\ UNCHANGED seedq => SeedsTrue'
      /\ UNCHANGED taskVars => CancelsTrue' /\ RevertsTrue'
      /\ UNCHANGED internal => MessagesTrue'
      /\ internal # <<>> /\ internal' = Tail(internal) => MessagesTrue'
  <2>1. UNCHANGED cacheVars => UNCHANGED live
    BY DEF cacheVars
  <2>2. UNCHANGED taskVars => UNCHANGED cancelStages /\ UNCHANGED postStages
    BY DEF taskVars
  <2> QED
    BY <1>1, <2>1, <2>2, OrdersFrame DEF Truth
<1>3. UNCHANGED seedq => SeedsAreInjective'
  BY DEF Truth, SeedsAreInjective
<1> DEFINE Goal == OrdersAreTrue' /\ SeedsAreInjective'
<1> USE DEF OrdersAreTrue
<1>4. ASSUME NEW cmd \in Commands, ExecCommand(cmd) PROVE Goal
  <2>1. UNCHANGED <<live, seedq, internal, book>>
    BY <1>4 DEF ExecCommand, exVars
  <2>2. CancelsTrue' /\ RevertsTrue'
    BY <1>2, <1>4, <2>1, StartTrue DEF ExecCommand, taskVars, Truth
  <2> QED
    BY <1>2, <1>3, <2>1, <2>2
<1>5. ASSUME NEW s \in cancelStages, CancelStep(s) PROVE Goal
  BY <1>3, <1>5, CancelStepTrue DEF CancelStep, Truth
<1>6. ASSUME NEW s \in postStages, PostStep(s) PROVE Goal
  BY <1>3, <1>6, PostStepTrue DEF PostStep, Truth
<1>7. ASSUME NEW w \in sweeps, SweepStep(w) PROVE Goal
  BY <1>2, <1>3, <1>7 DEF SweepStep
<1>8. ASSUME DropStale PROVE Goal
  BY <1>2, <1>3, <1>8 DEF DropStale
<1>9. ASSUME CancelBatch PROVE Goal
  BY <1>2, <1>3, <1>9, CancelBatchTrue DEF CancelBatch, Receive
<1>10. ASSUME PostBatch PROVE Goal
  BY <1>2, <1>3, <1>10, PostBatchTrue DEF PostBatch, Receive
<1>11. ASSUME CancelFinished PROVE Goal
  <2>1. UNCHANGED <<live, seedq, book>> /\ internal # <<>> /\ internal' = Tail(internal)
    BY <1>11 DEF CancelFinished, Receive, exVars
  <2>2. CancelsTrue' /\ RevertsTrue'
    BY <1>11, <2>1, FinishTrue DEF CancelFinished, Truth
  <2> QED
    BY <1>2, <1>3, <2>1, <2>2
<1>12. ASSUME PostFinished PROVE Goal
  <2>1. UNCHANGED <<live, seedq, book>> /\ internal # <<>> /\ internal' = Tail(internal)
    BY <1>12 DEF PostFinished, Receive, exVars
  <2>2. CancelsTrue' /\ RevertsTrue'
    BY <1>12, <2>1, FinishTrue DEF PostFinished, Truth
  <2> QED
    BY <1>2, <1>3, <2>1, <2>2
<1>13. ASSUME ApplySeed PROVE Goal
  BY <1>2, <1>13, ApplySeedTrue DEF ApplySeed
<1>14. ASSUME Resync PROVE Goal
  BY <1>2, <1>14, ResyncTrue DEF Resync
<1>15. ASSUME ClockTick PROVE Goal
  BY <1>2, <1>3, <1>15 DEF ClockTick
<1>16. ASSUME NEW i \in Ids, UserOrderUpdate(i) PROVE Goal
  BY <1>2, <1>3, <1>16, UserOrderUpdateTrue DEF UserOrderUpdate
<1>17. ASSUME NEW i \in Ids, Fill(i) \/ SweptByOther(i) \/ LoseUpdate(i) PROVE Goal
  BY <1>2, <1>3, <1>17 DEF Fill, SweptByOther, LoseUpdate
<1>18. ASSUME UNCHANGED vars PROVE Goal
  BY <1>2, <1>3, <1>18 DEF vars
<1>19. Goal
  BY <1>4, <1>5, <1>6, <1>7, <1>8, <1>9, <1>10, <1>11, <1>12, <1>13, <1>14, <1>15, <1>16,
     <1>17, <1>18 DEF Next
<1> QED
  BY <1>1, <1>19 DEF Truth

-----------------------------------------------------------------------------
(***************************************************************************)
(* The cache of OrderManager and the answers on their way to it: no answer *)
(* hits the wrong order or overwrites one, and no order that can still be  *)
(* filled is forgotten (except by a reseed).                               *)
(***************************************************************************)

InFlightInv == /\ PostsAreDistinct /\ AnswersAreNew
               /\ CancelsHitOwnOrder /\ PostsLandOnFreeKeys

LEMMA MessageTypes ==
  ASSUME Typed
  PROVE  /\ \A n \in CurrentMsgs :
              /\ internal[n] \in OmInternal
              /\ internal[n].type = "CancelBatch" =>
                   \A c \in internal[n].cancels : c.key \in Keys /\ c.id \in Ids
              /\ internal[n].type = "PostBatch" =>
                   \A r \in internal[n].results : r \in PostResult /\ r.key \in Keys
              /\ internal[n].type = "PostBatch" =>
                   \A r \in Accepted(internal[n].results) : r.id \in Ids
         /\ \A s \in cancelStages : \A c \in s.todo : c.key \in Keys /\ c.id \in Ids
         /\ \A s \in postStages : /\ \A p \in s.todo : p.key \in Keys
                                  /\ \A r \in s.reverting : r \in PostResult /\ r.key \in Keys
<1>1. ASSUME NEW n \in CurrentMsgs
      PROVE  /\ internal[n] \in OmInternal
             /\ internal[n].type = "CancelBatch" =>
                   \A c \in internal[n].cancels : c.key \in Keys /\ c.id \in Ids
             /\ internal[n].type = "PostBatch" =>
                   \A r \in internal[n].results : r \in PostResult /\ r.key \in Keys
             /\ internal[n].type = "PostBatch" =>
                   \A r \in Accepted(internal[n].results) : r.id \in Ids
  <2>1. internal[n] \in OmInternal
    BY DEF CurrentMsgs, Typed, TypeOK, ChannelsTyped
  <2>2. \A c \in CancelAction : c.key \in Keys /\ c.id \in Ids
    BY DEF CancelAction
  <2>3. \A r \in PostResult : r.key \in Keys /\ r.id \in Ids \cup {None}
    BY DEF PostResult
  <2> QED
    BY <2>1, <2>2, <2>3, MessageFields DEF Accepted
<1>2. \A s \in cancelStages : \A c \in s.todo : c.key \in Keys /\ c.id \in Ids
  BY DEF Typed, TypeOK, TasksTyped, CancelStage, CancelAction
<1>3. \A s \in postStages : /\ \A p \in s.todo : p.key \in Keys
                            /\ \A r \in s.reverting : r \in PostResult /\ r.key \in Keys
  <2>1. \A s \in postStages : s.todo \subseteq DesiredOrder /\ s.reverting \subseteq PostResult
    BY DEF Typed, TypeOK, TasksTyped, PostStage
  <2> QED
    BY <2>1 DEF DesiredOrder, PostResult
<1> QED
  BY <1>1, <1>2, <1>3

(* Taking a message out, and orders out of the cache, leaves what is in    *)
(* flight as good as it was.                                               *)
LEMMA Shrinks ==
  ASSUME Typed, InFlightInv, UNCHANGED <<gen, cancelStages, postStages>>,
         UNCHANGED internal \/ (internal # <<>> /\ internal' = Tail(internal)),
         \A k \in Keys : live'[k] = None \/ (live[k] # None /\ live'[k].id = live[k].id),
         \A i \in Ids : index'[i] = None \/ index'[i] = index[i]
  PROVE  InFlightInv'
<1>1. PICK d \in {0, 1} : \A n \in CurrentMsgs' :
        n \in Nat /\ n + d \in CurrentMsgs /\ internal'[n] = internal[n + d]
  <2>1. CASE UNCHANGED internal
    <3>1. \A n \in CurrentMsgs' : n \in Nat /\ n + 0 \in CurrentMsgs
                                  /\ internal'[n] = internal[n + 0]
      BY <2>1 DEF CurrentMsgs
    <3> QED
      BY <3>1
  <2>2. CASE internal # <<>> /\ internal' = Tail(internal)
    <3>1. /\ Len(internal) \in Nat /\ Len(internal') = Len(internal) - 1
          /\ \A n \in 1..Len(internal') : internal'[n] = internal[n + 1]
      BY <2>2, ReceivedChannel DEF Typed, TypeOK
    <3>2. \A n \in CurrentMsgs' : n \in Nat /\ n + 1 \in CurrentMsgs
                                  /\ internal'[n] = internal[n + 1]
      BY <3>1 DEF CurrentMsgs
    <3> QED
      BY <3>2
  <2> QED
    BY <2>1, <2>2
<1>2. CurrentPosts' = CurrentPosts /\ CurrentCancels' = CurrentCancels
  BY DEF CurrentPosts, CurrentCancels
<1>3. \A n, m \in CurrentMsgs' : n # m => n + d # m + d
  BY <1>1
<1>4. PostsAreDistinct'
  BY <1>1, <1>2, <1>3 DEF InFlightInv, PostsAreDistinct
<1>5. AnswersAreNew'
  <2> SUFFICES ASSUME NEW n \in CurrentMsgs', internal'[n].type = "PostBatch",
                      NEW r \in Accepted(internal'[n].results)
               PROVE  index'[r.id] = None
    BY DEF AnswersAreNew, Accepted
  <2>1. n + d \in CurrentMsgs /\ internal'[n] = internal[n + d]
    BY <1>1
  <2>2. r.id \in Ids /\ index[r.id] = None
    BY <2>1, MessageTypes DEF InFlightInv, AnswersAreNew
  <2> QED
    BY <2>2
<1>6. \A k \in Keys, i \in Ids : Holds(k, i) => Holds(k, i)'
  BY DEF Holds
<1>7. CancelsHitOwnOrder'
  <2>1. \A s \in CurrentCancels' : \A c \in s.todo : Holds(c.key, c.id)'
    BY <1>2, <1>6, MessageTypes DEF InFlightInv, CancelsHitOwnOrder, CurrentCancels
  <2>2. ASSUME NEW n \in CurrentMsgs', internal'[n].type = "CancelBatch",
               NEW c \in internal'[n].cancels
        PROVE  Holds(c.key, c.id)'
    <3>1. n + d \in CurrentMsgs /\ internal'[n] = internal[n + d]
      BY <1>1
    <3>2. c.key \in Keys /\ c.id \in Ids /\ Holds(c.key, c.id)
      BY <2>2, <3>1, MessageTypes DEF InFlightInv, CancelsHitOwnOrder
    <3> QED
      BY <1>6, <3>2
  <2> QED
    BY <2>1, <2>2 DEF CancelsHitOwnOrder
<1>8. PostsLandOnFreeKeys'
  <2>1. \A k \in Keys : live[k] = None => live'[k] = None
    OBVIOUS
  <2>2. \A s \in CurrentPosts' : \A p \in s.todo \cup s.reverting : live'[p.key] = None
    BY <1>2, <2>1, MessageTypes DEF InFlightInv, PostsLandOnFreeKeys, CurrentPosts
  <2>3. ASSUME NEW n \in CurrentMsgs', internal'[n].type = "PostBatch",
               NEW r \in internal'[n].results
        PROVE  live'[r.key] = None
    <3>1. n + d \in CurrentMsgs /\ internal'[n] = internal[n + d]
      BY <1>1
    <3> QED
      BY <2>1, <2>3, <3>1, MessageTypes DEF InFlightInv, PostsLandOnFreeKeys
  <2> QED
    BY <2>2, <2>3 DEF PostsLandOnFreeKeys
<1> QED
  BY <1>4, <1>5, <1>7, <1>8 DEF InFlightInv

(* A stage of an older generation works on, unseen by the slot.            *)
LEMMA SameInFlight ==
  ASSUME InFlightInv, UNCHANGED <<live, index>>,
         CurrentMsgs' = CurrentMsgs, \A n \in CurrentMsgs : internal'[n] = internal[n],
         CurrentPosts' = CurrentPosts, CurrentCancels' = CurrentCancels
  PROVE  InFlightInv'
  BY DEF InFlightInv, PostsAreDistinct, AnswersAreNew, CancelsHitOwnOrder,
         PostsLandOnFreeKeys, Holds, Accepted

(* An idle slot has nothing in flight.                                     *)
LEMMA IdleSafe ==
  ASSUME Typed', SlotInv', stage' = None
  PROVE  InFlightInv'
<1>1. None # "posting" /\ None # "canceling"
  BY NoneAssumption
<1>2. CurrentPosts' = {} /\ CurrentCancels' = {}
      /\ \A n \in CurrentMsgs' : /\ internal'[n].type \notin PostTypes
                                 /\ internal'[n].type \notin CancelTypes
  BY <1>1 DEF SlotInv, SlotPhase
<1>3. \A n \in CurrentMsgs' : internal'[n].type \notin {"PostBatch", "CancelBatch"}
  BY <1>2 DEF PostTypes, CancelTypes
<1> QED
  BY <1>2, <1>3
  DEF InFlightInv, PostsAreDistinct, AnswersAreNew, CancelsHitOwnOrder, PostsLandOnFreeKeys

(* A new generation starts with a plan made for the cache as it is.        *)
LEMMA StartSafe ==
  ASSUME Typed, SlotInv, NEW cmd \in Commands, NEW b, Start(cmd, b), UNCHANGED live,
         UNCHANGED internal \/ (internal # <<>> /\ internal' = Tail(internal))
  PROVE  InFlightInv'
<1> DEFINE known   == InferTicks(cmd, ticks)
           cancels == DiffCancels(cmd, live, known, now)
           diff    == DiffPosts(cmd, live, known, now)
           posts   == AboveFloor(diff)
<1>1. /\ CurrentMsgs' = {}
      /\ \A s \in cancelStages \cup postStages : s.gen # gen'
  <2>1. gen' = gen + 1
    BY DEF Start
  <2> QED
    BY <2>1, NewGeneration DEF SlotInv
<1>2. cmd \in Desired /\ live \in Cache
  BY ManagerAssumption DEF Desired, Cache, TypeOK, CacheTyped, Typed
<1>3. ASSUME \A s \in CurrentCancels' : \A c \in s.todo : Holds(c.key, c.id),
             \A s \in CurrentPosts' : /\ s.reverting = {}
                                      /\ \A p \in s.todo : live[p.key] = None
      PROVE  InFlightInv'
  BY <1>1, <1>3
  DEF InFlightInv, PostsAreDistinct, AnswersAreNew, CancelsHitOwnOrder, PostsLandOnFreeKeys,
      OnePerKey, ApartKeys, Holds
<1>4. CASE StartCancels(cmd, cancels)
  <2> DEFINE new == [gen |-> gen', at |-> now, todo |-> cancels]
  <2>1. \A c \in cancels : Holds(c.key, c.id)
    BY <1>2, DiffCancelsHit DEF Holds
  <2>2. new.todo = cancels /\ new.gen = gen'
    OBVIOUS
  <2>3. cancelStages' = cancelStages \cup {new} /\ postStages' = postStages
    BY <1>4 DEF StartCancels
  <2> HIDE DEF new, cancels
  <2>4. CurrentCancels' = {new} /\ CurrentPosts' = {}
    BY <1>1, <2>2, <2>3 DEF CurrentCancels, CurrentPosts
  <2> QED
    BY <1>3, <2>1, <2>2, <2>4
<1>5. CASE StartPosts(cmd, cancels, posts, b)
  <2> DEFINE new == [gen |-> gen', at |-> now, todo |-> posts, reverting |-> {}]
  <2>1. \A p \in posts : live[p.key] = None
    <3>1. cancels = {}
      BY <1>5 DEF StartPosts
    <3>2. \A p \in diff : live[p.key] = None
      BY <1>2, <3>1, DiffPostsFree
    <3> QED
      BY <3>2 DEF AboveFloor
  <2>2. new.todo = posts /\ new.gen = gen' /\ new.reverting = {}
    OBVIOUS
  <2>3. postStages' = postStages \cup {new} /\ cancelStages' = cancelStages
    BY <1>5 DEF StartPosts
  <2> HIDE DEF new, posts
  <2>4. CurrentPosts' = {new} /\ CurrentCancels' = {}
    BY <1>1, <2>2, <2>3 DEF CurrentCancels, CurrentPosts
  <2> QED
    BY <1>3, <2>1, <2>2, <2>4
<1>6. CASE NothingToStart(cancels, posts, b)
  <2>1. CurrentPosts' = {} /\ CurrentCancels' = {}
    BY <1>1, <1>6 DEF CurrentCancels, CurrentPosts, NothingToStart
  <2> QED
    BY <1>3, <2>1
<1> QED
  BY <1>4, <1>5, <1>6 DEF Start

LEMMA FinishSafe ==
  ASSUME Typed, SlotInv, InFlightInv, Typed', SlotInv',
         NEW continue \in BOOLEAN, NEW b, Finish(continue, b),
         UNCHANGED live, internal # <<>>, internal' = Tail(internal)
  PROVE  InFlightInv'
<1>1. CASE NextCommand(continue) = None
  BY <1>1, IdleSafe DEF Finish, GoIdle
<1>2. CASE NextCommand(continue) # None
  <2>1. NextCommand(continue) \in Commands
    BY <1>2 DEF NextCommand, Typed, TypeOK, SlotTyped
  <2> QED
    BY <1>2, <2>1, StartSafe DEF Finish
<1> QED
  BY <1>1, <1>2

(* A cancel stage works off, and reports, what it was started with.        *)
LEMMA CancelStepSafe ==
  ASSUME Typed, SlotInv, InFlightInv, SlotInv', NEW s \in cancelStages, CancelStep(s)
  PROVE  InFlightInv'
<1>1. PICK m, t : /\ Send(m) /\ m.gen = s.gen /\ t.gen = s.gen
                  /\ \/ /\ m.type = "CancelBatch"
                        /\ m.cancels \subseteq s.todo /\ t.todo \subseteq s.todo
                        /\ cancelStages' = (cancelStages \ {s}) \cup {t}
                     \/ /\ m.type = "CancelFinished"
                        /\ cancelStages' = cancelStages \ {s}
  BY CancelStepCases
<1>2. UNCHANGED <<gen, stage, live, index, postStages>>
  BY DEF CancelStep, slotVars, cacheVars
<1>3. s.gen <= gen
  BY DEF SlotInv, GenerationsBounded
<1> DEFINE last == Len(internal) + 1
<1>4. /\ internal'[last] = m
      /\ \A n \in CurrentMsgs : internal'[n] = internal[n]
      /\ CurrentMsgs' = IF m.gen = gen THEN CurrentMsgs \cup {last} ELSE CurrentMsgs
  BY <1>1, <1>2, <1>3, SentMsgs DEF SlotInv
<1> HIDE DEF last
<1>5. CurrentPosts' = CurrentPosts
  BY <1>2 DEF CurrentPosts
<1>6. CASE s.gen # gen
  <2>1. CurrentCancels' = CurrentCancels
    BY <1>1, <1>2, <1>6 DEF CurrentCancels
  <2> QED
    BY <1>1, <1>2, <1>4, <1>5, <1>6, <2>1, SameInFlight
<1>7. CASE s.gen = gen
  <2>1. s \in CurrentCancels
    BY <1>7 DEF CurrentCancels
  <2>2. stage = "canceling"
    BY <2>1 DEF SlotInv, SlotPhase
  <2>3. CurrentPosts' = {} /\ \A n \in CurrentMsgs' : internal'[n].type # "PostBatch"
    BY <1>2, <2>2 DEF SlotInv, SlotPhase, PostTypes
  <2>4. \A c \in s.todo : Holds(c.key, c.id)
    BY <2>1 DEF InFlightInv, CancelsHitOwnOrder
  <2>5. \A x \in CurrentCancels' : \A c \in x.todo : Holds(c.key, c.id)
    BY <1>1, <1>2, <2>4 DEF InFlightInv, CancelsHitOwnOrder, CurrentCancels
  <2>6. ASSUME NEW n \in CurrentMsgs', internal'[n].type = "CancelBatch",
               NEW c \in internal'[n].cancels
        PROVE  Holds(c.key, c.id)
    <3>1. CASE n \in CurrentMsgs
      BY <1>4, <2>6, <3>1 DEF InFlightInv, CancelsHitOwnOrder
    <3>2. CASE n = last
      BY <1>1, <1>4, <2>4, <2>6, <3>2
    <3> QED
      BY <1>4, <3>1, <3>2
  <2>7. CancelsHitOwnOrder'
    BY <1>2, <2>5, <2>6 DEF CancelsHitOwnOrder, Holds
  <2> QED
    BY <2>3, <2>7 DEF InFlightInv, PostsAreDistinct, AnswersAreNew, PostsLandOnFreeKeys
<1> QED
  BY <1>6, <1>7

LEMMA RevertedOnePerKey ==
  ASSUME NEW R \in SUBSET PostResult, OnePerKey(R)
  PROVE  OnePerKey(Reverted(R))
<1> DEFINE err == IF \A r \in R : r.err \in {"none", "postonly"} THEN "postonly" ELSE "error"
           new(r) == IF r.err = "none" THEN [r EXCEPT !.err = err] ELSE r
<1>1. Reverted(R) = {new(r) : r \in R}
  BY DEF Reverted
<1> HIDE DEF err
<1>2. \A r \in R : new(r).key = r.key
  BY DEF PostResult
<1> HIDE DEF new
<1> QED
  BY <1>1, <1>2 DEF OnePerKey

(* What a post stage answers and what it still has to do concern different *)
(* keys of its plan, and the orders it reports as accepted are new.        *)
LEMMA PostStepData ==
  ASSUME Typed, UpdatesAreTrue, NEW s \in postStages, PostStep(s),
         OnePerKey(s.reverting), ApartKeys(s.todo, s.reverting)
  PROVE  \E t, R :
           /\ t.gen = s.gen /\ t.todo \subseteq s.todo
           /\ OnePerKey(R) /\ ApartKeys(R, t.todo)
           /\ \A r \in R : \E p \in s.todo \cup s.reverting : p.key = r.key
           /\ \A r \in Accepted(R) : ~Born(r.id) /\ r.id \in Ids
           /\ \/ /\ postStages' = (postStages \ {s}) \cup {t}
                 /\ UNCHANGED internal
                 /\ t.reverting = R
              \/ /\ postStages' = (postStages \ {s}) \cup {t}
                 /\ Send(PostBatchMsg(s, R))
                 /\ t.reverting = {}
              \/ /\ postStages' = postStages \ {s}
                 /\ \E m : Send(m) /\ m.type = "PostFinished" /\ m.gen = s.gen
<1> DEFINE Goal(t, R) ==
           /\ t.gen = s.gen /\ t.todo \subseteq s.todo
           /\ OnePerKey(R) /\ ApartKeys(R, t.todo)
           /\ \A r \in R : \E p \in s.todo \cup s.reverting : p.key = r.key
           /\ \A r \in Accepted(R) : ~Born(r.id) /\ r.id \in Ids
           /\ \/ /\ postStages' = (postStages \ {s}) \cup {t}
                 /\ UNCHANGED internal
                 /\ t.reverting = R
              \/ /\ postStages' = (postStages \ {s}) \cup {t}
                 /\ Send(PostBatchMsg(s, R))
                 /\ t.reverting = {}
              \/ /\ postStages' = postStages \ {s}
                 /\ \E m : Send(m) /\ m.type = "PostFinished" /\ m.gen = s.gen
<1> SUFFICES \E t, R : Goal(t, R)
  OBVIOUS
<1>1. s \in PostStage /\ OnePerKey(s.todo)
  BY DEF Typed, TypeOK, TasksTyped, PlansAreDistinct
<1> DEFINE fin(fatal) == [type |-> "PostFinished", gen |-> s.gen, at |-> s.at, fatal |-> fatal]
<1>2. \A fatal : fin(fatal).gen = s.gen /\ fin(fatal).type = "PostFinished"
  OBVIOUS
<1> HIDE DEF fin
<1>3. ASSUME NEW fatal, Send(fin(fatal)), postStages' = postStages \ {s}
      PROVE  Goal(s, {})
  BY <1>2, <1>3 DEF OnePerKey, ApartKeys, Accepted
<1>4. CASE PostSend(s)
  <2>1. s.reverting = {}
    BY <1>4 DEF PostSend
  <2>2. PICK B \in SUBSET s.todo, A \in SUBSET s.todo :
          /\ A \subseteq B
          /\ \A p \in A : HasFreshId(p.key)
          /\ (\E err : SentBatch(s, B, A, err)) \/ ErredBatch(s, A)
    BY <1>4, PostSendCases
  <2>3. ASSUME NEW err, SentBatch(s, B, A, err) PROVE \E t, R : Goal(t, R)
    <3>1. PICK R : R = {Answer(p, A, err) : p \in B}
      OBVIOUS
    <3>2. /\ \A r \in Accepted(R) : ~Born(r.id) /\ r.id \in Ids
          /\ \A r \in R : \E p \in B : r.key = p.key
          /\ OnePerKey(R)
      <4>1. A \in SUBSET B /\ \A p \in A : HasFreshId(p.key)
        BY <2>2
      <4>2. \A r \in Accepted(R) : ~Born(r.id) /\ r.id \in Ids
        BY <2>3, <3>1, <4>1, AnswersTrue
      <4>3. \A p : Answer(p, A, err).key = p.key
        BY DEF Answer
      <4>4. \A r \in R : \E p \in B : r.key = p.key
        BY <3>1, <4>3
      <4>5. OnePerKey(R)
        BY <1>1, <3>1, <4>3 DEF OnePerKey
      <4> QED
        BY <4>2, <4>4, <4>5
    <3>3. PICK t, u : /\ t = [s EXCEPT !.todo = s.todo \ B, !.reverting = R]
                      /\ u = [s EXCEPT !.todo = s.todo \ B]
      OBVIOUS
    <3>4. /\ t.gen = s.gen /\ t.todo = s.todo \ B /\ t.reverting = R
          /\ u.gen = s.gen /\ u.todo = s.todo \ B /\ u.reverting = {}
      BY <1>1, <2>1, <3>3 DEF PostStage
    <3>5. ApartKeys(R, s.todo \ B)
      BY <1>1, <3>2 DEF ApartKeys, OnePerKey
    <3>6. \/ postStages' = (postStages \ {s}) \cup {t} /\ UNCHANGED internal
          \/ postStages' = (postStages \ {s}) \cup {u} /\ Send(PostBatchMsg(s, R))
      BY <2>3, <3>1, <3>3 DEF SentBatch
    <3>7. Goal(t, R) \/ Goal(u, R)
      BY <3>2, <3>4, <3>5, <3>6
    <3> QED
      BY <3>7
  <2>4. CASE ErredBatch(s, A)
    <3>1. Send(fin(TRUE)) /\ postStages' = postStages \ {s}
      BY <2>4 DEF ErredBatch, fin
    <3> QED
      BY <1>3, <3>1
  <2> QED
    BY <2>2, <2>3, <2>4
<1>5. CASE PostRevert(s)
  <2>1. PICK t, R : t = [s EXCEPT !.reverting = {}] /\ R = Reverted(s.reverting)
    OBVIOUS
  <2>2. t.gen = s.gen /\ t.todo = s.todo /\ t.reverting = {}
    BY <1>1, <2>1 DEF PostStage
  <2>3. \A q \in R : q.err # "none" /\ \E r \in s.reverting : q.key = r.key
    BY <1>1, <2>1, RevertedTyped DEF PostStage
  <2>4. OnePerKey(R)
    BY <1>1, <2>1, RevertedOnePerKey DEF PostStage
  <2>5. Send(PostBatchMsg(s, R)) /\ postStages' = (postStages \ {s}) \cup {t}
    BY <1>5, <2>1 DEF PostRevert
  <2>6. ApartKeys(R, t.todo) /\ Accepted(R) = {}
    BY <2>2, <2>3 DEF ApartKeys, Accepted
  <2>7. Goal(t, R)
    BY <2>2, <2>3, <2>4, <2>5, <2>6
  <2> QED
    BY <2>7
<1>6. CASE PostDone(s)
  <2>1. Send(fin(FALSE)) /\ postStages' = postStages \ {s}
    BY <1>6 DEF PostDone, fin
  <2> QED
    BY <1>3, <2>1
<1> QED
  BY <1>4, <1>5, <1>6 DEF PostStep

(* An order that was never placed is nowhere in the cache.                 *)
LEMMA UnbornUnknown ==
  ASSUME Typed, Truth, CacheConsistent, NEW i \in Ids, ~Born(i)
  PROVE  index[i] = None
<1> SUFFICES ASSUME index[i] # None PROVE FALSE
  OBVIOUS
<1>1. index[i] \in Keys /\ live[index[i]] # None /\ live[index[i]].id = i
  BY DEF CacheConsistent, Typed, TypeOK, CacheTyped
<1> QED
  BY <1>1 DEF Truth, OrdersAreTrue, CacheTrue, TrueOf

LEMMA PostStepSafe ==
  ASSUME Typed, SlotInv, Truth, CacheConsistent, InFlightInv, SlotInv',
         NEW s \in postStages, PostStep(s)
  PROVE  InFlightInv'
<1>1. UNCHANGED <<gen, stage, live, index, cancelStages>>
  BY DEF PostStep, slotVars, cacheVars
<1>2. s.gen <= gen
  BY DEF SlotInv, GenerationsBounded
<1>3. CurrentCancels' = CurrentCancels
  BY <1>1 DEF CurrentCancels
<1> DEFINE last == Len(internal) + 1
<1>4. CASE s.gen # gen
  <2>1. PICK m, t : /\ m.gen = s.gen /\ t.gen = s.gen
                    /\ UNCHANGED internal \/ Send(m)
                    /\ \/ postStages' = (postStages \ {s}) \cup {t}
                       \/ postStages' = postStages \ {s}
    BY PostStepCases
  <2>2. CurrentPosts' = CurrentPosts
    BY <1>1, <1>4, <2>1 DEF CurrentPosts
  <2>3. CASE UNCHANGED internal
    <3>1. CurrentMsgs' = CurrentMsgs
      BY <1>1, <2>3 DEF CurrentMsgs
    <3> QED
      BY <1>1, <1>3, <2>2, <2>3, <3>1, SameInFlight
  <2>4. CASE Send(m)
    <3>1. /\ \A n \in CurrentMsgs : internal'[n] = internal[n]
          /\ CurrentMsgs' = CurrentMsgs
      BY <1>1, <1>2, <1>4, <2>1, <2>4, SentMsgs DEF SlotInv
    <3> QED
      BY <1>1, <1>3, <2>2, <3>1, SameInFlight
  <2> QED
    BY <2>1, <2>3, <2>4
<1>5. CASE s.gen = gen
  <2>1. s \in CurrentPosts
    BY <1>5 DEF CurrentPosts
  <2>2. stage = "posting" /\ CurrentPosts = {s}
    BY <2>1 DEF SlotInv, SlotPhase, BusyMeansOneStage
  <2>3. CurrentCancels' = {} /\ \A n \in CurrentMsgs' : internal'[n].type # "CancelBatch"
    BY <1>1, <2>2 DEF SlotInv, SlotPhase, CancelTypes
  <2>4. OnePerKey(s.reverting) /\ ApartKeys(s.todo, s.reverting)
    BY <2>1 DEF InFlightInv, PostsAreDistinct
  <2>5. \A p \in s.todo \cup s.reverting : live[p.key] = None
    BY <2>1 DEF InFlightInv, PostsLandOnFreeKeys
  <2>6. PICK t, R :
           /\ t.gen = s.gen /\ t.todo \subseteq s.todo
           /\ OnePerKey(R) /\ ApartKeys(R, t.todo)
           /\ \A r \in R : \E p \in s.todo \cup s.reverting : p.key = r.key
           /\ \A r \in Accepted(R) : ~Born(r.id) /\ r.id \in Ids
           /\ \/ /\ postStages' = (postStages \ {s}) \cup {t}
                 /\ UNCHANGED internal
                 /\ t.reverting = R
              \/ /\ postStages' = (postStages \ {s}) \cup {t}
                 /\ Send(PostBatchMsg(s, R))
                 /\ t.reverting = {}
              \/ /\ postStages' = postStages \ {s}
                 /\ \E m : Send(m) /\ m.type = "PostFinished" /\ m.gen = s.gen
    BY <2>4, PostStepData DEF Truth
  <2>7. \A r \in R : live[r.key] = None
    BY <2>5, <2>6
  <2>8. \A r \in Accepted(R) : index[r.id] = None
    BY <2>6, UnbornUnknown
  <2>9. ASSUME NEW n \in CurrentMsgs, internal[n].type = "PostBatch"
        PROVE  /\ OnePerKey(internal[n].results)
               /\ ApartKeys(internal[n].results, s.todo)
               /\ ApartKeys(internal[n].results, s.reverting)
               /\ ApartKeys(internal[n].results, R)
               /\ ApartKeys(R, internal[n].results)
               /\ ApartKeys(internal[n].results, t.todo)
    <3>1. /\ OnePerKey(internal[n].results)
          /\ ApartKeys(internal[n].results, s.todo)
          /\ ApartKeys(internal[n].results, s.reverting)
      BY <2>1, <2>9 DEF InFlightInv, PostsAreDistinct
    <3>2. ApartKeys(internal[n].results, R) /\ ApartKeys(R, internal[n].results)
      BY <2>6, <3>1 DEF ApartKeys
    <3> QED
      BY <2>6, <3>1, <3>2 DEF ApartKeys
  (* The stage goes on: what it holds back, or sends, keeps its own keys.  *)
  <2>10. CASE /\ postStages' = (postStages \ {s}) \cup {t}
              /\ UNCHANGED internal
              /\ t.reverting = R
    <3>1. CurrentPosts' = {t} /\ CurrentMsgs' = CurrentMsgs
      BY <1>1, <1>5, <2>2, <2>6, <2>10 DEF CurrentPosts, CurrentMsgs
    <3>2. ApartKeys(t.todo, t.reverting)
      BY <2>6, <2>10 DEF ApartKeys
    <3>3. PostsAreDistinct'
      <4>1. \A n, m \in CurrentMsgs :
              internal[n].type = "PostBatch" /\ internal[m].type = "PostBatch" /\ m # n =>
                ApartKeys(internal[n].results, internal[m].results)
        BY DEF InFlightInv, PostsAreDistinct
      <4> QED
        BY <2>6, <2>9, <2>10, <3>1, <3>2, <4>1 DEF PostsAreDistinct
    <3>4. AnswersAreNew'
      BY <1>1, <2>10, <3>1 DEF InFlightInv, AnswersAreNew, Accepted
    <3>5. PostsLandOnFreeKeys'
      BY <1>1, <2>5, <2>6, <2>7, <2>10, <3>1 DEF InFlightInv, PostsLandOnFreeKeys
    <3> QED
      BY <2>3, <3>3, <3>4, <3>5 DEF InFlightInv, CancelsHitOwnOrder
  <2>11. CASE /\ postStages' = (postStages \ {s}) \cup {t}
              /\ Send(PostBatchMsg(s, R))
              /\ t.reverting = {}
    <3>1. CurrentPosts' = {t}
      BY <1>1, <1>5, <2>2, <2>6, <2>11 DEF CurrentPosts
    <3>2. PICK m : m = PostBatchMsg(s, R)
      OBVIOUS
    <3>3. m.gen = gen /\ m.results = R /\ m.type = "PostBatch"
      BY <1>5, <3>2 DEF PostBatchMsg
    <3>4. /\ internal'[last] = m
          /\ \A n \in CurrentMsgs : internal'[n] = internal[n] /\ n < last /\ n \in Nat
          /\ CurrentMsgs' = CurrentMsgs \cup {last}
      BY <1>1, <1>2, <1>5, <2>11, <3>2, <3>3, SentMsgs DEF SlotInv
    <3> HIDE DEF last
    <3>5. PostsAreDistinct'
      <4>1. ASSUME NEW n \in CurrentMsgs', internal'[n].type = "PostBatch"
            PROVE  /\ OnePerKey(internal'[n].results)
                   /\ ApartKeys(internal'[n].results, t.todo)
                   /\ ApartKeys(internal'[n].results, t.reverting)
        BY <2>6, <2>9, <2>11, <3>3, <3>4, <4>1 DEF ApartKeys
      <4>2. ASSUME NEW n \in CurrentMsgs', NEW k \in CurrentMsgs', k # n,
                   internal'[n].type = "PostBatch", internal'[k].type = "PostBatch"
            PROVE  ApartKeys(internal'[n].results, internal'[k].results)
        <5>1. CASE n \in CurrentMsgs /\ k \in CurrentMsgs
          BY <3>4, <4>2, <5>1 DEF InFlightInv, PostsAreDistinct
        <5>2. CASE n \in CurrentMsgs /\ k = last
          BY <2>9, <3>3, <3>4, <4>2, <5>2
        <5>3. CASE n = last /\ k \in CurrentMsgs
          BY <2>9, <3>3, <3>4, <4>2, <5>3
        <5> QED
          BY <3>4, <4>2, <5>1, <5>2, <5>3
      <4>3. OnePerKey(t.reverting) /\ ApartKeys(t.todo, t.reverting)
        BY <2>11 DEF OnePerKey, ApartKeys
      <4> QED
        BY <3>1, <4>1, <4>2, <4>3 DEF PostsAreDistinct
    <3>6. AnswersAreNew'
      <4>1. \A n \in CurrentMsgs' : internal'[n].type = "PostBatch" =>
              \A r \in Accepted(internal'[n].results) : index[r.id] = None
        BY <2>8, <3>3, <3>4 DEF InFlightInv, AnswersAreNew
      <4> QED
        BY <1>1, <4>1 DEF AnswersAreNew, Accepted
    <3>7. PostsLandOnFreeKeys'
      <4>1. \A n \in CurrentMsgs' : internal'[n].type = "PostBatch" =>
              \A r \in internal'[n].results : live[r.key] = None
        BY <2>7, <3>3, <3>4 DEF InFlightInv, PostsLandOnFreeKeys
      <4> QED
        BY <1>1, <2>5, <2>6, <2>11, <3>1, <4>1 DEF PostsLandOnFreeKeys
    <3> QED
      BY <2>3, <3>5, <3>6, <3>7 DEF InFlightInv, CancelsHitOwnOrder
  <2>12. CASE /\ postStages' = postStages \ {s}
              /\ \E m : Send(m) /\ m.type = "PostFinished" /\ m.gen = s.gen
    <3>1. CurrentPosts' = {}
      BY <1>1, <2>2, <2>12 DEF CurrentPosts
    <3>2. PICK m : Send(m) /\ m.type = "PostFinished" /\ m.gen = s.gen
      BY <2>12
    <3>3. /\ internal'[last] = m
          /\ \A n \in CurrentMsgs : internal'[n] = internal[n]
          /\ CurrentMsgs' = CurrentMsgs \cup {last}
      BY <1>1, <1>2, <1>5, <3>2, SentMsgs DEF SlotInv
    <3> HIDE DEF last
    <3>4. \A n \in CurrentMsgs' : internal'[n].type = "PostBatch" =>
            n \in CurrentMsgs /\ internal'[n] = internal[n]
      BY <3>2, <3>3
    <3>5. PostsAreDistinct'
      BY <3>1, <3>4 DEF InFlightInv, PostsAreDistinct
    <3>6. AnswersAreNew'
      BY <1>1, <3>4 DEF InFlightInv, AnswersAreNew, Accepted
    <3>7. PostsLandOnFreeKeys'
      BY <1>1, <3>1, <3>4 DEF InFlightInv, PostsLandOnFreeKeys
    <3> QED
      BY <2>3, <3>5, <3>6, <3>7 DEF InFlightInv, CancelsHitOwnOrder
  <2> QED
    BY <2>6, <2>10, <2>11, <2>12
<1> QED
  BY <1>4, <1>5

-----------------------------------------------------------------------------
(* The operations of the cache keep order_id_index the inverse of live.    *)

LEMMA RemoveConsistent ==
  ASSUME Typed, CacheConsistent, NEW ks \in SUBSET Keys, RemoveLive(ks)
  PROVE  CacheConsistent'
<1>1. /\ \A k \in Keys : live'[k] = IF k \in ks THEN None ELSE live[k]
      /\ \A i \in Ids : index'[i] =
           IF \E k \in ks : live[k] # None /\ live[k].id = i THEN None ELSE index[i]
  BY DEF RemoveLive
<1>2. \A k \in Keys : live[k] # None => live[k].id \in Ids
  BY DEF Typed, TypeOK, CacheTyped, LiveOrder
<1>3. ASSUME NEW k \in Keys, live'[k] # None PROVE index'[live'[k].id] = k
  <2>1. k \notin ks /\ live'[k] = live[k] /\ live[k] # None
    BY <1>1, <1>3
  <2>2. ~ \E j \in ks : live[j] # None /\ live[j].id = live[k].id
    BY <2>1 DEF CacheConsistent
  <2> QED
    BY <1>1, <1>2, <2>1, <2>2 DEF CacheConsistent
<1>4. ASSUME NEW i \in Ids, index'[i] # None
      PROVE  live'[index'[i]] # None /\ live'[index'[i]].id = i
  <2>1. index'[i] = index[i] /\ ~ \E j \in ks : live[j] # None /\ live[j].id = i
    BY <1>1, <1>4
  <2>2. index[i] \in Keys /\ live[index[i]] # None /\ live[index[i]].id = i
    BY <1>4, <2>1 DEF CacheConsistent, Typed, TypeOK, CacheTyped
  <2> QED
    BY <1>1, <2>1, <2>2
<1> QED
  BY <1>3, <1>4 DEF CacheConsistent

LEMMA RemainderIsNat ==
  ASSUME NEW o \in LiveOrder, NEW matched \in Nat
  PROVE  (IF o.sz >= matched THEN o.sz - matched ELSE 0) \in Nat
<1>1. o.sz \in Nat
  BY DEF LiveOrder
<1> QED
  BY <1>1

LEMMA UserOrderUpdateCache ==
  ASSUME Typed, CacheConsistent, NEW i \in Ids, UserOrderUpdate(i)
  PROVE  /\ CacheConsistent'
         /\ \A k \in Keys : live'[k] = None \/ (live[k] # None /\ live'[k].id = live[k].id)
         /\ \A j \in Ids : index'[j] = None \/ index'[j] = index[j]
         /\ \A k \in Keys : live[k] # None /\ live'[k] = None =>
              LET u == Head(ws[i])
              IN  /\ live[k].id = i /\ k = index[i]
                  /\ u.kind = "cancellation" \/ live[k].sz <= u.matched
<1> DEFINE u    == Head(ws[i])
           k    == index[i]
           o    == live[k]
           rem  == IF o.sz >= u.matched THEN o.sz - u.matched ELSE 0
           kept == [o EXCEPT !.rem = rem, !.upd = now]
           gone == u.kind = "cancellation" \/ rem = 0
           Goal == /\ CacheConsistent'
                   /\ \A j \in Keys : \/ live'[j] = None
                                      \/ live[j] # None /\ live'[j].id = live[j].id
                   /\ \A j \in Ids : index'[j] = None \/ index'[j] = index[j]
                   /\ \A j \in Keys : live[j] # None /\ live'[j] = None =>
                        /\ live[j].id = i /\ j = index[i]
                        /\ u.kind = "cancellation" \/ live[j].sz <= u.matched
<1>0. u \in UserUpdate
  BY DEF UserOrderUpdate, Typed, TypeOK, ExchangeTyped
<1> SUFFICES Goal
  OBVIOUS
<1>1. live \in Cache /\ index \in [Ids -> Keys \cup {None}]
  BY DEF Typed, TypeOK, CacheTyped, Cache
<1>2. CASE KnownOrderUpdate(i, u)
  <2>1. k \in Keys /\ o # None /\ o \in LiveOrder /\ o.id = i
    BY <1>2 DEF KnownOrderUpdate, Known, CacheConsistent, Typed, TypeOK, CacheTyped
  <2>2. CASE gone
    <3>1. {k} \in SUBSET Keys
      BY <2>1
    <3>2. RemoveLive({k})
      BY <1>2, <2>2 DEF KnownOrderUpdate
    <3>3. CacheConsistent'
      BY <3>1, <3>2, RemoveConsistent
    <3>4. u.kind = "cancellation" \/ o.sz <= u.matched
      <4>1. u.matched \in Nat /\ o.sz \in Nat
        <5> HIDE DEF u, o
        <5> QED
          BY <1>0, <2>1 DEF UserUpdate, LiveOrder
      <4> HIDE DEF u, o
      <4> QED
        BY <2>2, <4>1
    <3>5. \A j \in Keys : live'[j] = IF j = k THEN None ELSE live[j]
      BY <3>2 DEF RemoveLive
    <3>6. \A j \in Ids : index'[j] = None \/ index'[j] = index[j]
      BY <3>2 DEF RemoveLive
    <3> HIDE DEF u
    <3> QED
      BY <2>1, <3>3, <3>4, <3>5, <3>6
  <2>3. CASE ~gone
    <3>1. kept.id = i
      <4> HIDE DEF o, rem
      <4> QED
        BY <2>1 DEF LiveOrder
    <3>2. kept # None
      <4> HIDE DEF o, rem
      <4>1. PICK n : n = None
        OBVIOUS
      <4>2. \A z : [o EXCEPT !.rem = z, !.upd = now].id = i
        BY <2>1 DEF LiveOrder
      <4>3. kept \in LiveOrder
        <5>1. now \in Nat /\ rem \in Nat
          <6> HIDE DEF u
          <6>2. u.matched \in Nat
            BY <1>0 DEF UserUpdate
          <6> QED
            BY <2>1, <6>2, RemainderIsNat DEF rem, Typed, TypeOK, EnvTyped
        <5> QED
          BY <2>1, <5>1 DEF LiveOrder
      <4> QED
        BY <4>3, NoneAssumption
    <3>3. InsertLive(k, kept)
      BY <1>2, <2>3 DEF KnownOrderUpdate
    <3> HIDE DEF k, kept, u
    <3>9. live' = [live EXCEPT ![k] = kept] /\ index' = [index EXCEPT ![i] = k]
      BY <3>1, <3>3 DEF InsertLive
    <3>4. index' = index
      BY <1>1, <3>9 DEF k
    <3>5. /\ live'[k] = kept /\ \A j \in Keys : j # k => live'[j] = live[j]
      BY <1>1, <2>1, <3>9 DEF Cache
    <3>6. /\ live[k] # None /\ live[k].id = i
      BY <2>1 DEF k
    <3>7. \A j \in Keys : /\ live'[j] = None <=> live[j] = None
                          /\ live[j] # None => live'[j].id = live[j].id
      BY <3>1, <3>2, <3>5, <3>6
    <3>8. CacheConsistent'
      BY <1>1, <3>4, <3>7 DEF CacheConsistent
    <3> QED
      BY <3>4, <3>7, <3>8
  <2> QED
    BY <2>2, <2>3
<1>3. CASE UnknownOrderUpdate(i, u)
  <2>1. UNCHANGED <<live, index>>
    BY <1>3 DEF UnknownOrderUpdate
  <2> QED
    BY <2>1 DEF CacheConsistent
<1> QED
  BY <1>2, <1>3 DEF UserOrderUpdate

LEMMA ApplySeedCache ==
  ASSUME Typed, Truth, ApplySeed
  PROVE  CacheConsistent'
<1> DEFINE seed == Head(seedq)
<1>1. /\ seed \in Cache /\ seed = seedq[1] /\ 1 \in 1..Len(seedq)
      /\ live' = seed /\ index' = IndexOf(seed)
  BY DEF ApplySeed, Typed, TypeOK, ChannelsTyped, Cache
<1>2. \A k, j \in Keys :
        seed[k] # None /\ seed[j] # None /\ seed[k].id = seed[j].id => k = j
  BY <1>1 DEF Truth, SeedsAreInjective
<1> HIDE DEF seed
<1>3. ASSUME NEW k \in Keys, seed[k] # None PROVE IndexOf(seed)[seed[k].id] = k
  <2>1. seed[k].id \in Ids
    BY <1>1, <1>3 DEF Cache, LiveOrder
  <2> QED
    BY <1>2, <1>3, <2>1 DEF IndexOf
<1>4. ASSUME NEW i \in Ids, IndexOf(seed)[i] # None
      PROVE  seed[IndexOf(seed)[i]] # None /\ seed[IndexOf(seed)[i]].id = i
  BY <1>4 DEF IndexOf
<1> QED
  BY <1>1, <1>3, <1>4 DEF CacheConsistent

(* Accepted orders enter a part of the cache that was free.                *)
LEMMA PostBatchCache ==
  ASSUME Typed, SlotInv, Truth, CacheConsistent, InFlightInv, PostBatch
  PROVE  /\ CacheConsistent'
         /\ InFlightInv'
         /\ \A k \in Keys : live[k] # None => live'[k] = live[k]
<1> DEFINE m  == Head(internal)
           ok == Accepted(m.results)
<1>1. /\ Len(internal) \in Nat /\ Len(internal) >= 1
      /\ Len(internal') = Len(internal) - 1
      /\ m = internal[1]
      /\ \A n \in 1..Len(internal') : internal'[n] = internal[n + 1]
  BY ReceivedChannel DEF PostBatch, Receive, Typed, TypeOK
<1>2. 1 \in CurrentMsgs /\ m.type = "PostBatch" /\ m.results = internal[1].results
  BY <1>1 DEF PostBatch, Receive, Stale, CurrentMsgs
<1>3. stage = "posting" /\ UNCHANGED <<gen, stage, cancelStages, postStages>>
  BY <1>1, <1>2 DEF SlotInv, SlotPhase, PostTypes, PostBatch, taskVars
<1>4. \A r \in ok : /\ r \in m.results /\ r.key \in Keys /\ r.id \in Ids /\ r.id[1] = r.key
                    /\ live[r.key] = None /\ index[r.id] = None
  <2>1. \A r \in ok : r \in m.results /\ r.key \in Keys /\ r.id \in Ids
    BY <1>1, <1>2, MessageTypes DEF Accepted
  <2>2. \A r \in ok : OwnKey(r)
    BY <1>1, <1>2 DEF Truth, OrdersAreTrue, MessagesTrue, MessageTrue
  <2>3. \A r \in ok : live[r.key] = None
    BY <1>1, <1>2, <2>1 DEF InFlightInv, PostsLandOnFreeKeys
  <2>4. \A r \in ok : index[r.id] = None
    BY <1>1, <1>2 DEF InFlightInv, AnswersAreNew
  <2> QED
    BY <2>1, <2>2, <2>3, <2>4 DEF OwnKey
<1>5. \A q, r \in ok : q.key = r.key => q = r
  BY <1>1, <1>2, <1>4 DEF InFlightInv, PostsAreDistinct, OnePerKey
<1>6. /\ \A k \in Keys : live'[k] = IF \E r \in ok : r.key = k
                                    THEN Posted(CHOOSE r \in ok : r.key = k, m.at) ELSE live[k]
      /\ \A i \in Ids : index'[i] = IF \E r \in ok : r.id = i
                                    THEN (CHOOSE r \in ok : r.id = i).key ELSE index[i]
  BY DEF PostBatch
<1>7. \A r \in ok : Posted(r, m.at).id = r.id /\ Posted(r, m.at) # None
  <2>1. m.at \in Nat /\ \A r \in ok : r \in PostResult
    <3>1. m \in OmInternal
      BY <1>1, <1>2, MessageTypes
    <3> HIDE DEF m
    <3>2. m.at \in Nat /\ m.results \subseteq PostResult
      BY <1>2, <3>1, MessageFields
    <3> QED
      BY <1>4, <3>2
  <2>2. \A r \in ok : Posted(r, m.at) \in LiveOrder
    BY <1>4, <2>1 DEF Posted, LiveOrder, PostResult
  <2> QED
    BY <2>2, NoneAssumption DEF Posted
<1> HIDE DEF m, ok
<1>8. \A r \in ok : /\ live'[r.key] = Posted(r, m.at)
                    /\ index'[r.id] = r.key
  <2> SUFFICES ASSUME NEW r \in ok
               PROVE  live'[r.key] = Posted(r, m.at) /\ index'[r.id] = r.key
    OBVIOUS
  <2>1. (CHOOSE q \in ok : q.key = r.key) = r
    BY <1>5
  <2>2. \A q \in ok : q.id = r.id => q = r
    BY <1>4, <1>5
  <2>3. (CHOOSE q \in ok : q.id = r.id) = r
    BY <2>2
  <2> QED
    BY <1>4, <1>6, <2>1, <2>3
<1>9. \A k \in Keys : live[k] # None => live'[k] = live[k] /\ ~ \E r \in ok : r.key = k
  BY <1>4, <1>6
<1>10. CacheConsistent'
  <2>1. ASSUME NEW k \in Keys, live'[k] # None PROVE index'[live'[k].id] = k
    <3>1. CASE \E r \in ok : r.key = k
      BY <1>7, <1>8, <3>1
    <3>2. CASE ~ \E r \in ok : r.key = k
      <4>1. live'[k] = live[k] /\ live[k].id \in Ids /\ index[live[k].id] = k
        BY <1>6, <2>1, <3>2 DEF CacheConsistent, Typed, TypeOK, CacheTyped, LiveOrder
      <4>2. ~ \E r \in ok : r.id = live[k].id
        BY <1>4, <4>1, NoneAssumption
      <4> QED
        BY <1>6, <4>1, <4>2
    <3> QED
      BY <3>1, <3>2
  <2>2. ASSUME NEW i \in Ids, index'[i] # None
        PROVE  live'[index'[i]] # None /\ live'[index'[i]].id = i
    <3>1. CASE \E r \in ok : r.id = i
      BY <1>7, <1>8, <3>1
    <3>2. CASE ~ \E r \in ok : r.id = i
      <4>1. index'[i] = index[i] /\ index[i] \in Keys
        BY <1>6, <2>2, <3>2 DEF Typed, TypeOK, CacheTyped
      <4>2. live[index[i]] # None /\ live[index[i]].id = i
        BY <2>2, <4>1 DEF CacheConsistent
      <4> QED
        BY <1>9, <4>1, <4>2
    <3> QED
      BY <3>1, <3>2
  <2> QED
    BY <2>1, <2>2 DEF CacheConsistent
<1>11. \A n \in CurrentMsgs' :
         /\ n \in Nat /\ n + 1 \in CurrentMsgs /\ n + 1 # 1 /\ internal'[n] = internal[n + 1]
  BY <1>1, <1>3 DEF CurrentMsgs
<1>12. CurrentPosts' = CurrentPosts /\ CurrentCancels' = {}
  BY <1>3 DEF CurrentPosts, CurrentCancels, SlotInv, SlotPhase
<1>13. \A n \in CurrentMsgs' : internal'[n].type # "CancelBatch"
  BY <1>3, <1>11 DEF SlotInv, SlotPhase, CancelTypes
<1>14. PostsAreDistinct'
  BY <1>11, <1>12 DEF InFlightInv, PostsAreDistinct
<1>15. \A k \in Keys : live[k] = None /\ (\A r \in m.results : r.key # k) => live'[k] = None
  <2>1. \A r \in ok : r \in m.results
    BY <1>4
  <2> QED
    BY <1>6, <2>1
<1>16. ASSUME NEW n \in CurrentMsgs', internal'[n].type = "PostBatch"
       PROVE  /\ \A r \in internal'[n].results : live'[r.key] = None
              /\ \A r \in Accepted(internal'[n].results) : index'[r.id] = None
  <2>1. n + 1 \in CurrentMsgs /\ internal[n + 1] = internal'[n]
    BY <1>11
  <2>2. ApartKeys(internal'[n].results, m.results)
    BY <1>1, <1>2, <1>11, <1>16, <2>1 DEF InFlightInv, PostsAreDistinct
  <2>3. \A r \in internal'[n].results : r.key \in Keys /\ live[r.key] = None
    BY <1>16, <2>1, MessageTypes DEF InFlightInv, PostsLandOnFreeKeys
  <2>4. \A r \in Accepted(internal'[n].results) :
          r \in internal'[n].results /\ r.id \in Ids /\ index[r.id] = None /\ r.id[1] = r.key
    <3>1. \A r \in Accepted(internal'[n].results) : OwnKey(r)
      BY <1>16, <2>1 DEF Truth, OrdersAreTrue, MessagesTrue, MessageTrue, CurrentMsgs
    <3> QED
      BY <1>16, <2>1, <3>1, MessageTypes DEF InFlightInv, AnswersAreNew, OwnKey, Accepted
  <2>5. \A r \in internal'[n].results : live'[r.key] = None
    BY <1>15, <2>2, <2>3 DEF ApartKeys
  <2>6. ASSUME NEW r \in Accepted(internal'[n].results) PROVE index'[r.id] = None
    <3>1. ~ \E q \in ok : q.id = r.id
      BY <1>4, <2>2, <2>4 DEF ApartKeys
    <3> QED
      BY <1>6, <2>4, <3>1
  <2> QED
    BY <2>5, <2>6
<1>17. \A s \in CurrentPosts : \A p \in s.todo \cup s.reverting : live'[p.key] = None
  <2> SUFFICES ASSUME NEW s \in CurrentPosts, NEW p \in s.todo \cup s.reverting
               PROVE  live'[p.key] = None
    OBVIOUS
  <2>1. p.key \in Keys /\ live[p.key] = None
    BY MessageTypes DEF CurrentPosts, InFlightInv, PostsLandOnFreeKeys
  <2>2. \A r \in m.results : r.key # p.key
    BY <1>1, <1>2 DEF InFlightInv, PostsAreDistinct, ApartKeys
  <2> QED
    BY <1>15, <2>1, <2>2
<1>18. AnswersAreNew'
  BY <1>16 DEF AnswersAreNew, Accepted
<1>19. PostsLandOnFreeKeys'
  BY <1>12, <1>16, <1>17 DEF PostsLandOnFreeKeys
<1>20. CancelsHitOwnOrder'
  BY <1>12, <1>13 DEF CancelsHitOwnOrder
<1> QED
  BY <1>9, <1>10, <1>14, <1>18, <1>19, <1>20 DEF InFlightInv

-----------------------------------------------------------------------------
(* Together they are inductive.                                            *)

FullInv == Typed /\ SlotInv /\ Truth /\ CacheConsistent /\ InFlightInv

LEMMA InitFull == Init => FullInv
<1> SUFFICES ASSUME Init PROVE FullInv
  OBVIOUS
<1>1. Typed /\ SlotInv /\ Truth
  BY InitTyped, InitSlot, InitTruth
<1>2. CacheConsistent
  BY DEF Init, CacheConsistent, NoOrders
<1>3. InFlightInv
  BY DEF Init, InFlightInv, PostsAreDistinct, AnswersAreNew, CancelsHitOwnOrder,
         PostsLandOnFreeKeys, CurrentMsgs, CurrentPosts, CurrentCancels
<1> QED
  BY <1>1, <1>2, <1>3 DEF FullInv

LEMMA CacheFrame ==
  ASSUME CacheConsistent, UNCHANGED <<live, index>>
  PROVE  CacheConsistent'
  BY DEF CacheConsistent

LEMMA QuietSafe ==
  ASSUME Typed, InFlightInv, UNCHANGED <<gen, cancelStages, postStages, live, index>>,
         UNCHANGED internal \/ (internal # <<>> /\ internal' = Tail(internal))
  PROVE  InFlightInv'
<1>1. \A k \in Keys : live'[k] = None \/ (live[k] # None /\ live'[k].id = live[k].id)
  OBVIOUS
<1> QED
  BY <1>1, Shrinks

LEMMA NextSafe ==
  ASSUME FullInv, [Next]_vars, Typed', SlotInv'
  PROVE  CacheConsistent' /\ InFlightInv'
<1> USE DEF FullInv
<1> DEFINE Goal == CacheConsistent' /\ InFlightInv'
<1>1. ASSUME NEW cmd \in Commands, ExecCommand(cmd) PROVE Goal
  <2>1. UNCHANGED <<live, index, internal>>
    BY <1>1 DEF ExecCommand
  <2>2. CASE UNCHANGED <<gen, taskVars>>
    BY <2>1, <2>2, CacheFrame, QuietSafe DEF taskVars
  <2>3. CASE Start(cmd, backoff)
    BY <2>1, <2>3, CacheFrame, StartSafe
  <2> QED
    BY <1>1, <2>2, <2>3 DEF ExecCommand
<1>2. ASSUME NEW s \in cancelStages, CancelStep(s) PROVE Goal
  BY <1>2, CacheFrame, CancelStepSafe DEF CancelStep, cacheVars
<1>3. ASSUME NEW s \in postStages, PostStep(s) PROVE Goal
  BY <1>3, CacheFrame, PostStepSafe DEF PostStep, cacheVars
<1>4. ASSUME NEW w \in sweeps, SweepStep(w) PROVE Goal
  BY <1>4, CacheFrame, QuietSafe DEF SweepStep, slotVars, cacheVars, taskVars
<1>5. ASSUME DropStale PROVE Goal
  BY <1>5, CacheFrame, QuietSafe DEF DropStale, slotVars, cacheVars, taskVars
<1>6. ASSUME CancelBatch PROVE Goal
  <2> DEFINE m  == Head(internal)
             ks == {c.key : c \in {d \in m.cancels : d.id \in m.gone}}
  <2>1. ks \in SUBSET Keys /\ RemoveLive(ks)
    <3>1. m \in OmInternal /\ m.type = "CancelBatch" /\ RemoveLive(ks)
      BY <1>6, ReceiveTyped DEF CancelBatch, Receive, Typed, TypeOK
    <3> HIDE DEF m
    <3>2. m.cancels \subseteq CancelAction
      BY <3>1, MessageFields
    <3> QED
      BY <3>1, <3>2 DEF CancelAction
  <2> HIDE DEF m, ks
  <2>2. \A k \in Keys : live'[k] = None \/ (live[k] # None /\ live'[k].id = live[k].id)
    BY <2>1 DEF RemoveLive
  <2>3. \A i \in Ids : index'[i] = None \/ index'[i] = index[i]
    BY <2>1 DEF RemoveLive
  <2>4. UNCHANGED <<gen, cancelStages, postStages>> /\ internal # <<>>
        /\ internal' = Tail(internal)
    BY <1>6 DEF CancelBatch, Receive, slotVars, taskVars
  <2> QED
    BY <2>1, <2>2, <2>3, <2>4, RemoveConsistent, Shrinks
<1>7. ASSUME PostBatch PROVE Goal
  BY <1>7, PostBatchCache
<1>8. ASSUME CancelFinished PROVE Goal
  <2>1. PICK continue \in BOOLEAN : \E b : Finish(continue, b)
    BY <1>8 DEF CancelFinished
  <2>2. PICK b : Finish(continue, b)
    BY <2>1
  <2> QED
    BY <1>8, <2>2, CacheFrame, FinishSafe DEF CancelFinished, Receive
<1>9. ASSUME PostFinished PROVE Goal
  <2>1. PICK continue \in BOOLEAN : \E b : Finish(continue, b)
    BY <1>9 DEF PostFinished
  <2>2. PICK b : Finish(continue, b)
    BY <2>1
  <2> QED
    BY <1>9, <2>2, CacheFrame, FinishSafe DEF PostFinished, Receive
<1>10. ASSUME ApplySeed PROVE Goal
  <2>1. stage' = None
    BY <1>10 DEF ApplySeed, AbandonStage, GoIdle
  <2> QED
    BY <1>10, <2>1, ApplySeedCache, IdleSafe
<1>11. ASSUME Resync PROVE Goal
  BY <1>11, CacheFrame, QuietSafe DEF Resync, slotVars, cacheVars, taskVars
<1>12. ASSUME ClockTick PROVE Goal
  BY <1>12, CacheFrame, QuietSafe DEF ClockTick, slotVars, cacheVars, taskVars
<1>13. ASSUME NEW i \in Ids, UserOrderUpdate(i) PROVE Goal
  <2>1. UNCHANGED <<gen, cancelStages, postStages, internal>>
    BY <1>13 DEF UserOrderUpdate, slotVars, taskVars
  <2> QED
    BY <1>13, <2>1, UserOrderUpdateCache, Shrinks
<1>14. ASSUME NEW i \in Ids, Fill(i) \/ SweptByOther(i) \/ LoseUpdate(i) PROVE Goal
  BY <1>14, CacheFrame, QuietSafe
  DEF Fill, SweptByOther, LoseUpdate, slotVars, cacheVars, taskVars
<1>15. ASSUME UNCHANGED vars PROVE Goal
  BY <1>15, CacheFrame, QuietSafe DEF vars, slotVars, cacheVars, taskVars
<1> QED
  BY <1>1, <1>2, <1>3, <1>4, <1>5, <1>6, <1>7, <1>8, <1>9, <1>10, <1>11, <1>12, <1>13,
     <1>14, <1>15 DEF Next

LEMMA NextFull ==
  ASSUME FullInv, [Next]_vars
  PROVE  FullInv'
<1>1. Typed' /\ SlotInv'
  BY NextTyped, NextSlot DEF FullInv
<1>2. Truth'
  BY NextTruth DEF FullInv
<1> QED
  BY <1>1, <1>2, NextSafe DEF FullInv

(***************************************************************************)
(* The inductive invariant that TLC checks in the relevel run holds in     *)
(* every reachable state, for every configuration.                         *)
(***************************************************************************)
THEOREM InvariantHolds == Spec => []Inductive
<1>1. FullInv => Inductive
  BY DEF FullInv, Inductive, Typed, SlotInv, Truth, InFlightInv
<1> QED
  BY <1>1, InitFull, NextFull, PTL DEF Spec

(***************************************************************************)
(* order_id_index stays the inverse of the map of live orders through      *)
(* every interleaving of batches, user updates, failures and reseeds.      *)
(***************************************************************************)
THEOREM IndexIsInverse == Spec => []CacheConsistent
<1>1. FullInv => CacheConsistent
  BY DEF FullInv
<1> QED
  BY <1>1, InitFull, NextFull, PTL DEF Spec

(***************************************************************************)
(* Removing by key in apply_cancel_batch never removes an order other than *)
(* the one that was canceled.                                              *)
(***************************************************************************)
THEOREM CancelsAreAimed == Spec => []CancelsHitOwnOrder
<1>1. FullInv => CancelsHitOwnOrder
  BY DEF FullInv, InFlightInv
<1> QED
  BY <1>1, InitFull, NextFull, PTL DEF Spec

(***************************************************************************)
(* Inserting without looking in apply_post_batch never overwrites a live   *)
(* order.                                                                  *)
(***************************************************************************)
THEOREM PostsLandFree == Spec => []PostsLandOnFreeKeys
<1>1. FullInv => PostsLandOnFreeKeys
  BY DEF FullInv, InFlightInv
<1> QED
  BY <1>1, InitFull, NextFull, PTL DEF Spec

(* The orders a cancel answer takes out of the cache are not live any more.*)
LEMMA CancelBatchForgets ==
  ASSUME FullInv, CancelBatch, NEW k \in Keys, live[k] # None, live'[k] # live[k]
  PROVE  ~Resting(live[k].id)
<1> DEFINE m  == Head(internal)
           ks == {c.key : c \in {d \in m.cancels : d.id \in m.gone}}
<1>1. k \in ks
  BY DEF CancelBatch, RemoveLive
<1>2. m = internal[1] /\ 1 \in CurrentMsgs /\ 1 \in 1..Len(internal) /\ m.type = "CancelBatch"
  BY ReceivedChannel
  DEF CancelBatch, Receive, Stale, CurrentMsgs, FullInv, Typed, TypeOK
<1>3. PICK c \in m.cancels : c.key = k /\ c.id \in m.gone
  BY <1>1
<1>4. c.id = live[k].id
  BY <1>2, <1>3 DEF FullInv, InFlightInv, CancelsHitOwnOrder, Holds
<1>5. Dead(c.id)
  BY <1>2, <1>3 DEF FullInv, Truth, OrdersAreTrue, MessagesTrue, MessageTrue
<1> QED
  BY <1>4, <1>5 DEF Dead, Resting

(* So are the orders a user update takes out: it tells of a cancellation,  *)
(* or of the whole size having been matched.                               *)
LEMMA UserOrderUpdateForgets ==
  ASSUME FullInv, NEW i \in Ids, UserOrderUpdate(i), NEW k \in Keys, live[k] # None,
         live'[k] = None
  PROVE  ~Resting(live[k].id)
<1> DEFINE u == Head(ws[i])
<1>1. /\ live[k].id = i
      /\ u.kind = "cancellation" \/ live[k].sz <= u.matched
  BY UserOrderUpdateCache DEF FullInv
<1>2. live[k].sz = book[i].sz
  BY <1>1 DEF FullInv, Truth, OrdersAreTrue, CacheTrue, TrueOf
<1>3. u \in UserUpdate /\ u.matched <= book[i].matched /\ (u.kind = "cancellation" => Dead(i))
  BY DEF UserOrderUpdate, FullInv, Truth, UpdatesAreTrue, Typed, TypeOK, ExchangeTyped
<1>4. book[i].matched \in Nat /\ book[i].sz \in Nat
      /\ (Resting(i) => book[i].matched < book[i].sz)
  BY DEF FullInv, Typed, TypeOK, ExchangeTyped, OrderState, BookSound
<1> HIDE DEF u
<1>5. u.matched \in Nat
  BY <1>3 DEF UserUpdate
<1>6. Dead(i) => ~Resting(i)
  BY DEF Dead, Resting
<1> QED
  BY <1>1, <1>2, <1>3, <1>4, <1>5, <1>6

(* Whether a step that is no reseed takes the order at k out of the cache. *)
Forgets(k) == /\ seedq' = seedq \/ Len(seedq') > Len(seedq)
              /\ live[k] # None
              /\ live'[k] = None \/ live'[k].id # live[k].id

LEMMA NextForgets ==
  ASSUME FullInv, [Next]_vars, NEW k \in Keys, Forgets(k)
  PROVE  ~Resting(live[k].id)
<1> USE DEF Forgets
<1>1. CASE CancelBatch
  BY <1>1, CancelBatchForgets
<1>2. ASSUME NEW i \in Ids, UserOrderUpdate(i) PROVE ~Resting(live[k].id)
  <2>1. live'[k] = None
    BY <1>2, UserOrderUpdateCache DEF FullInv
  <2> QED
    BY <1>2, <2>1, UserOrderUpdateForgets
<1>3. CASE PostBatch
  BY <1>3, PostBatchCache DEF FullInv
<1>4. CASE ApplySeed
  BY <1>4 DEF ApplySeed, FullInv, Typed, TypeOK, ChannelsTyped
<1>5. ASSUME UNCHANGED live PROVE FALSE
  BY <1>5
<1>6. CASE DropStale \/ CancelFinished \/ PostFinished \/ Resync \/ ClockTick
  BY <1>5, <1>6 DEF DropStale, CancelFinished, PostFinished, Resync, ClockTick, cacheVars
<1>7. ASSUME NEW cmd \in Commands, ExecCommand(cmd) PROVE FALSE
  BY <1>5, <1>7 DEF ExecCommand
<1>8. ASSUME NEW s \in cancelStages, CancelStep(s) PROVE FALSE
  BY <1>5, <1>8 DEF CancelStep, cacheVars
<1>9. ASSUME NEW s \in postStages, PostStep(s) PROVE FALSE
  BY <1>5, <1>9 DEF PostStep, cacheVars
<1>10. ASSUME NEW w \in sweeps, SweepStep(w) PROVE FALSE
  BY <1>5, <1>10 DEF SweepStep, cacheVars
<1>11. ASSUME NEW i \in Ids, Fill(i) \/ SweptByOther(i) \/ LoseUpdate(i) PROVE FALSE
  BY <1>5, <1>11 DEF Fill, SweptByOther, LoseUpdate, cacheVars
<1>12. ASSUME UNCHANGED vars PROVE FALSE
  BY <1>5, <1>12 DEF vars, cacheVars
<1> QED
  BY <1>1, <1>2, <1>3, <1>4, <1>6, <1>7, <1>8, <1>9, <1>10, <1>11, <1>12 DEF Next

(***************************************************************************)
(* Apart from a reseed, OrderManager only forgets an order that cannot be  *)
(* filled any more, whatever the interleaving of its answers, its updates  *)
(* and its posts, for every configuration.                                 *)
(***************************************************************************)
THEOREM OnlyDeadOrdersAreForgotten == Spec => ForgetsOnlyDeadOrders
<1> DEFINE Step == \A k \in Keys : Forgets(k) => ~Resting(live[k].id)
<1>1. FullInv /\ [Next]_vars => [Step]_vars
  BY NextForgets
<1> QED
  BY <1>1, InitFull, NextFull, PTL DEF Spec, ForgetsOnlyDeadOrders, Forgets

-----------------------------------------------------------------------------
(***************************************************************************)
(* Every order that can still be filled is in the cache or under way to it,*)
(* and no key ever has two of them (without seeds and failed reverts).     *)
(***************************************************************************)

(* An idle slot has no work of its generation left anywhere.               *)
LEMMA IdleHasNoWork ==
  ASSUME Typed, SlotInv, NothingStale, ~busy
  PROVE  cancelStages = {} /\ postStages = {} /\ internal = <<>>
<1>1. stage # "posting" /\ stage # "canceling"
  BY NoneAssumption DEF SlotInv, SlotPhase
<1>2. /\ CurrentPosts = {} /\ CurrentCancels = {}
      /\ \A n \in CurrentMsgs : internal[n].type \notin CancelTypes \cup PostTypes
  BY <1>1 DEF SlotInv, SlotPhase
<1>3. internal \in Seq(OmInternal) /\ Len(internal) \in Nat
  BY DEF Typed, TypeOK, ChannelsTyped
<1>4. \A n \in 1..Len(internal) : n \in CurrentMsgs /\ internal[n] \in OmInternal
  BY <1>3 DEF NothingStale, CurrentMsgs
<1>5. \A n \in 1..Len(internal) : FALSE
  BY <1>2, <1>4, MessageFields
<1>6. Len(internal) = 0
  BY <1>3, <1>5
<1> QED
  BY <1>2, <1>3, <1>6 DEF NothingStale, CurrentPosts, CurrentCancels

(* The message that ends a stage is the last piece of work there is.       *)
LEMMA EndIsLast ==
  ASSUME Typed, SlotInv, NothingStale, internal # <<>>, internal' = Tail(internal),
         Head(internal).type \in EndTypes
  PROVE  cancelStages = {} /\ postStages = {} /\ internal' = <<>>
<1>1. /\ Len(internal) \in Nat /\ Len(internal) >= 1
      /\ Len(internal') = Len(internal) - 1
      /\ Head(internal) = internal[1]
  BY ReceivedChannel DEF Typed, TypeOK
<1>2. 1 \in CurrentEnds
  BY <1>1 DEF CurrentEnds, CurrentMsgs, NothingStale, EndTypes
<1>3. CurrentCancels = {} /\ CurrentPosts = {} /\ \A m \in CurrentMsgs : m <= 1
  BY <1>2 DEF SlotInv, BusyMeansOneStage
<1>4. Len(internal) \in CurrentMsgs
  BY <1>1 DEF CurrentMsgs, NothingStale
<1>5. Len(internal') = 0 /\ internal' \in Seq(OmInternal)
  BY <1>1, <1>3, <1>4 DEF Typed, TypeOK, ChannelsTyped
<1> QED
  BY <1>3, <1>5 DEF NothingStale, CurrentPosts, CurrentCancels

LEMMA StartNothingStale ==
  ASSUME NEW cmd, NEW b, Start(cmd, b), cancelStages = {}, postStages = {},
         internal' = <<>>
  PROVE  NothingStale'
<1>1. \A s \in cancelStages' \cup postStages' : s.gen = gen'
  BY DEF Start, StartCancels, StartPosts, NothingToStart
<1> QED
  BY <1>1 DEF NothingStale

LEMMA FinishNothingStale ==
  ASSUME Typed, SlotInv, NothingStale, internal # <<>>, internal' = Tail(internal),
         Head(internal).type \in EndTypes,
         NEW continue, NEW b, Finish(continue, b)
  PROVE  NothingStale'
<1>1. cancelStages = {} /\ postStages = {} /\ internal' = <<>>
  BY EndIsLast
<1>2. CASE NextCommand(continue) = None
  BY <1>1, <1>2 DEF Finish, taskVars, NothingStale
<1>3. CASE NextCommand(continue) # None
  BY <1>1, <1>3, StartNothingStale DEF Finish
<1> QED
  BY <1>2, <1>3

(* The messages and stages that are there when no generation begins.       *)
LEMMA NothingStaleFrame ==
  ASSUME Typed, NothingStale, UNCHANGED gen,
         \A s \in cancelStages' \cup postStages' :
           s \in cancelStages \cup postStages \/ s.gen = gen,
         \/ UNCHANGED internal
         \/ internal # <<>> /\ internal' = Tail(internal)
         \/ \E m : Send(m) /\ m.gen = gen
  PROVE  NothingStale'
<1>1. \A s \in cancelStages' \cup postStages' : s.gen = gen'
  BY DEF NothingStale
<1>2. CASE UNCHANGED internal
  BY <1>1, <1>2 DEF NothingStale
<1>3. CASE internal # <<>> /\ internal' = Tail(internal)
  <2>1. /\ Len(internal) \in Nat /\ Len(internal') = Len(internal) - 1
        /\ \A n \in 1..Len(internal') : internal'[n] = internal[n + 1]
    BY <1>3, ReceivedChannel DEF Typed, TypeOK
  <2>2. \A n \in 1..Len(internal') : n + 1 \in 1..Len(internal)
    BY <2>1
  <2> QED
    BY <1>1, <2>1, <2>2 DEF NothingStale
<1>4. ASSUME NEW m, Send(m), m.gen = gen PROVE NothingStale'
  <2>1. /\ Len(internal) \in Nat /\ Len(internal') = Len(internal) + 1
        /\ internal'[Len(internal) + 1] = m
        /\ \A n \in 1..Len(internal) : internal'[n] = internal[n]
    BY <1>4, SentChannel DEF Typed, TypeOK
  <2>2. \A n \in 1..Len(internal') : n \in 1..Len(internal) \/ n = Len(internal) + 1
    BY <2>1
  <2> QED
    BY <1>1, <1>4, <2>1, <2>2 DEF NothingStale
<1> QED
  BY <1>2, <1>3, <1>4

LEMMA NextNothingStale ==
  ASSUME FullInv, seedq = <<>>, NothingStale, [Next]_vars
  PROVE  NothingStale'
<1> USE DEF FullInv
<1>1. ASSUME NEW cmd \in Commands, ExecCommand(cmd) PROVE NothingStale'
  <2>1. UNCHANGED internal
    BY <1>1 DEF ExecCommand
  <2>2. CASE busy /\ UNCHANGED <<gen, taskVars>>
    BY <2>1, <2>2, NothingStaleFrame DEF taskVars
  <2>3. CASE ~busy /\ Start(cmd, backoff)
    BY <2>1, <2>3, IdleHasNoWork, StartNothingStale
  <2> QED
    BY <1>1, <2>2, <2>3 DEF ExecCommand
<1>2. ASSUME NEW s \in cancelStages, CancelStep(s) PROVE NothingStale'
  <2>1. PICK m, t : /\ Send(m) /\ m.gen = s.gen /\ t.gen = s.gen
                    /\ cancelStages' \subseteq cancelStages \cup {t}
    BY <1>2, CancelStepCases
  <2>2. s.gen = gen
    BY DEF NothingStale
  <2> QED
    BY <1>2, <2>1, <2>2, NothingStaleFrame DEF CancelStep, slotVars
<1>3. ASSUME NEW s \in postStages, PostStep(s) PROVE NothingStale'
  <2>1. PICK m, t : /\ m.gen = s.gen /\ t.gen = s.gen
                    /\ UNCHANGED internal \/ Send(m)
                    /\ postStages' \subseteq postStages \cup {t}
    BY <1>3, PostStepCases
  <2>2. s.gen = gen
    BY DEF NothingStale
  <2> QED
    BY <1>3, <2>1, <2>2, NothingStaleFrame DEF PostStep, slotVars
<1>4. CASE DropStale \/ CancelBatch \/ PostBatch
  BY <1>4, NothingStaleFrame
  DEF DropStale, CancelBatch, PostBatch, Receive, slotVars, taskVars
<1>5. CASE CancelFinished
  <2>1. PICK continue, b : Finish(continue, b)
    BY <1>5 DEF CancelFinished
  <2> QED
    BY <1>5, <2>1, FinishNothingStale DEF CancelFinished, Receive, EndTypes
<1>6. CASE PostFinished
  <2>1. PICK continue, b : Finish(continue, b)
    BY <1>6 DEF PostFinished
  <2> QED
    BY <1>6, <2>1, FinishNothingStale DEF PostFinished, Receive, EndTypes
<1>7. CASE ApplySeed
  BY <1>7 DEF ApplySeed
<1>8. ASSUME UNCHANGED <<gen, taskVars, internal>> PROVE NothingStale'
  BY <1>8, NothingStaleFrame DEF taskVars
<1>9. CASE Resync \/ ClockTick \/ UNCHANGED vars
  BY <1>8, <1>9 DEF Resync, ClockTick, vars, slotVars
<1>10. ASSUME NEW i \in Ids, UserOrderUpdate(i) \/ Fill(i) \/ SweptByOther(i) \/ LoseUpdate(i)
       PROVE  NothingStale'
  BY <1>8, <1>10 DEF UserOrderUpdate, Fill, SweptByOther, LoseUpdate, slotVars
<1>11. ASSUME NEW w \in sweeps, SweepStep(w) PROVE NothingStale'
  BY <1>8, <1>11 DEF SweepStep, slotVars
<1> QED
  BY <1>1, <1>2, <1>3, <1>4, <1>5, <1>6, <1>7, <1>9, <1>10, <1>11 DEF Next

-----------------------------------------------------------------------------
(* Without reseeds an order stays under the key it was posted for.         *)

LEMMA PostBatchHome ==
  ASSUME FullInv, PostBatch, NEW k \in Keys, live'[k] # None
  PROVE  live'[k] = live[k] \/ live'[k].id[1] = k
<1> DEFINE m  == Head(internal)
           ok == Accepted(m.results)
<1>1. m = internal[1] /\ 1 \in CurrentMsgs /\ m.type = "PostBatch"
  BY ReceivedChannel
  DEF PostBatch, Receive, Stale, CurrentMsgs, FullInv, Typed, TypeOK
<1>2. \A r \in ok : r.id[1] = r.key
  BY <1>1 DEF FullInv, Truth, OrdersAreTrue, MessagesTrue, MessageTrue, OwnKey, CurrentMsgs
<1>3. CASE \E r \in ok : r.key = k
  <2>1. PICK r \in ok : r.key = k /\ live'[k] = Posted(r, m.at)
    BY <1>3 DEF PostBatch
  <2>2. live'[k].id = r.id
    BY <2>1 DEF Posted
  <2> QED
    BY <1>2, <2>1, <2>2
<1>4. CASE ~\E r \in ok : r.key = k
  BY <1>4 DEF PostBatch
<1> QED
  BY <1>3, <1>4

LEMMA NextHomeKeys ==
  ASSUME FullInv, seedq = <<>>, HomeKeys, [Next]_vars
  PROVE  HomeKeys'
<1> SUFFICES ASSUME NEW k \in Keys, live'[k] # None PROVE live'[k].id[1] = k
  BY DEF HomeKeys
<1>1. ASSUME live[k] # None, live'[k].id = live[k].id PROVE live'[k].id[1] = k
  BY <1>1 DEF HomeKeys
<1>2. ASSUME UNCHANGED live PROVE live'[k].id[1] = k
  BY <1>1, <1>2
<1>3. CASE CancelBatch
  BY <1>1, <1>3 DEF CancelBatch, RemoveLive
<1>4. CASE PostBatch
  BY <1>1, <1>4, PostBatchHome
<1>5. ASSUME NEW i \in Ids, UserOrderUpdate(i) PROVE live'[k].id[1] = k
  BY <1>1, <1>5, UserOrderUpdateCache DEF FullInv
<1>6. CASE ApplySeed
  BY <1>6 DEF ApplySeed
<1>7. CASE DropStale \/ CancelFinished \/ PostFinished \/ Resync \/ ClockTick
  BY <1>2, <1>7 DEF DropStale, CancelFinished, PostFinished, Resync, ClockTick, cacheVars
<1>8. ASSUME NEW cmd \in Commands, ExecCommand(cmd) PROVE live'[k].id[1] = k
  BY <1>2, <1>8 DEF ExecCommand
<1>9. ASSUME NEW s \in cancelStages, CancelStep(s) PROVE live'[k].id[1] = k
  BY <1>2, <1>9 DEF CancelStep, cacheVars
<1>10. ASSUME NEW s \in postStages, PostStep(s) PROVE live'[k].id[1] = k
  BY <1>2, <1>10 DEF PostStep, cacheVars
<1>11. ASSUME NEW w \in sweeps, SweepStep(w) PROVE live'[k].id[1] = k
  BY <1>2, <1>11 DEF SweepStep, cacheVars
<1>12. ASSUME NEW i \in Ids, Fill(i) \/ SweptByOther(i) \/ LoseUpdate(i)
       PROVE  live'[k].id[1] = k
  BY <1>2, <1>12 DEF Fill, SweptByOther, LoseUpdate, cacheVars
<1>13. CASE UNCHANGED vars
  BY <1>2, <1>13 DEF vars, cacheVars
<1> QED
  BY <1>3, <1>4, <1>5, <1>6, <1>7, <1>8, <1>9, <1>10, <1>11, <1>12, <1>13 DEF Next

-----------------------------------------------------------------------------
(* Every resting order is accounted for.                                   *)

(* A cancel call kills the orders it is carried out for.                   *)
LEMMA CancelsDie ==
  ASSUME Typed, NEW I \in SUBSET Ids, ExchangeCancels(I)
  PROVE  \A i \in I : Dead(i)'
<1> SUFFICES ASSUME NEW i \in I PROVE Dead(i)'
  OBVIOUS
<1>1. book[i] \in OrderState /\ book'[i] = [book[i] EXCEPT !.st = "canceled"]
  BY CanceledOrders DEF Typed, TypeOK, ExchangeTyped
<1> QED
  BY <1>1 DEF OrderState, Dead

(* Only a reseed shortens the queue of reseeds.                            *)
LEMMA OnlyResyncSeeds ==
  ASSUME Typed, seedq = <<>>, [Next]_vars
  PROVE  seedq' = seedq \/ Len(seedq') > Len(seedq)
<1>1. CASE Resync
  BY <1>1 DEF Resync, Typed, TypeOK, ChannelsTyped
<1>2. CASE ApplySeed
  BY <1>2 DEF ApplySeed
<1> QED
  BY <1>1, <1>2
  DEF Next, ExecCommand, CancelStep, PostStep, SweepStep, DropStale, CancelBatch,
      CancelFinished, PostBatch, PostFinished, UserOrderUpdate, Fill, SweptByOther,
      LoseUpdate, ClockTick, vars

(* An order in the cache, in an answer or in a batch that is being undone  *)
(* stays accounted for until it is not resting any more.                   *)
LEMMA CachedStays ==
  ASSUME FullInv, seedq = <<>>, [Next]_vars, FullInv',
         NEW i \in Ids, index[i] # None, Resting(i)
  PROVE  index'[i] # None
<1>1. PICK k \in Keys : index[i] = k /\ live[k] # None /\ live[k].id = i
  BY DEF FullInv, CacheConsistent, Typed, TypeOK, CacheTyped
<1>2. seedq' = seedq \/ Len(seedq') > Len(seedq)
  BY OnlyResyncSeeds DEF FullInv
<1>3. live'[k] # None /\ live'[k].id = i
  BY <1>1, <1>2, NextForgets DEF Forgets
<1> QED
  BY <1>1, <1>3, NoneAssumption DEF FullInv, CacheConsistent

LEMMA AnsweredStays ==
  ASSUME FullInv, [Next]_vars, NothingStale', seedq = <<>>,
         NEW i \in Ids, NEW n \in CurrentMsgs, internal[n].type = "PostBatch",
         NEW r \in Accepted(internal[n].results), r.id = i
  PROVE  Accounted(i)'
<1>1. \A j \in 1..Len(internal') : internal'[j] = internal[n] => Accounted(i)'
  BY DEF Accounted, CurrentMsgs, NothingStale, Accepted
<1>2. n \in 1..Len(internal) /\ internal[n].gen = gen
  BY DEF CurrentMsgs
<1>3. ASSUME UNCHANGED internal PROVE Accounted(i)'
  BY <1>1, <1>2, <1>3
<1>4. ASSUME NEW m, Send(m) PROVE Accounted(i)'
  <2>1. /\ Len(internal) \in Nat /\ Len(internal') = Len(internal) + 1
        /\ \A j \in 1..Len(internal) : internal'[j] = internal[j]
    BY <1>4, SentChannel DEF FullInv, Typed, TypeOK
  <2>2. n \in 1..Len(internal')
    BY <1>2, <2>1
  <2> QED
    BY <1>1, <1>2, <2>1, <2>2
<1>5. ASSUME internal # <<>>, internal' = Tail(internal),
             Head(internal).type # "PostBatch" \/ Stale(Head(internal))
      PROVE  Accounted(i)'
  <2>1. /\ Len(internal) \in Nat /\ Len(internal') = Len(internal) - 1
        /\ Head(internal) = internal[1]
        /\ \A j \in 1..Len(internal') : internal'[j] = internal[j + 1]
    BY <1>5, ReceivedChannel DEF FullInv, Typed, TypeOK
  <2>2. n # 1
    BY <1>2, <1>5, <2>1 DEF Stale
  <2>3. n - 1 \in 1..Len(internal') /\ internal'[n - 1] = internal[n]
    BY <1>2, <2>1, <2>2
  <2> QED
    BY <1>1, <2>3
<1>6. CASE PostBatch
  <2>1. /\ Len(internal) \in Nat /\ Len(internal') = Len(internal) - 1
        /\ Head(internal) = internal[1]
        /\ \A j \in 1..Len(internal') : internal'[j] = internal[j + 1]
    BY <1>6, ReceivedChannel DEF PostBatch, Receive, FullInv, Typed, TypeOK
  <2>2. CASE n = 1
    <3>1. PICK q \in Accepted(internal[n].results) : index'[i] = q.key
      BY <1>6, <2>1, <2>2 DEF PostBatch
    <3>2. q.key \in Keys
      BY <3>1, MessageTypes DEF FullInv, Accepted
    <3> QED
      BY <3>1, <3>2, NoneAssumption DEF Accounted
  <2>3. CASE n # 1
    <3>1. n - 1 \in 1..Len(internal') /\ internal'[n - 1] = internal[n]
      BY <1>2, <2>1, <2>3
    <3> QED
      BY <1>1, <3>1
  <2> QED
    BY <2>2, <2>3
<1>7. CASE DropStale \/ CancelBatch \/ CancelFinished \/ PostFinished
  BY <1>5, <1>7 DEF DropStale, CancelBatch, CancelFinished, PostFinished, Receive
<1>8. CASE ApplySeed
  BY <1>8 DEF ApplySeed
<1>9. CASE Resync \/ ClockTick \/ UNCHANGED vars
  BY <1>3, <1>9 DEF Resync, ClockTick, vars
<1>10. ASSUME NEW cmd \in Commands, ExecCommand(cmd) PROVE Accounted(i)'
  BY <1>3, <1>10 DEF ExecCommand
<1>11. ASSUME NEW s \in cancelStages, CancelStep(s) PROVE Accounted(i)'
  BY <1>4, <1>11, CancelStepCases DEF FullInv
<1>12. ASSUME NEW s \in postStages, PostStep(s) PROVE Accounted(i)'
  <2>1. \E m : UNCHANGED internal \/ Send(m)
    BY <1>12, PostStepCases DEF FullInv
  <2> QED
    BY <1>3, <1>4, <2>1
<1>13. ASSUME NEW w \in sweeps, SweepStep(w) PROVE Accounted(i)'
  BY <1>3, <1>13 DEF SweepStep
<1>14. ASSUME NEW j \in Ids, UserOrderUpdate(j) \/ Fill(j) \/ SweptByOther(j) \/ LoseUpdate(j)
       PROVE  Accounted(i)'
  BY <1>3, <1>14 DEF UserOrderUpdate, Fill, SweptByOther, LoseUpdate
<1> QED
  BY <1>6, <1>7, <1>8, <1>9, <1>10, <1>11, <1>12, <1>13, <1>14 DEF Next

LEMMA RevertingStays ==
  ASSUME "revert_fail" \notin Faults, FullInv, [Next]_vars, NothingStale', seedq = <<>>,
         NEW i \in Ids, NEW s \in CurrentPosts,
         NEW r \in Accepted(s.reverting), r.id = i, Resting(i)'
  PROVE  Accounted(i)'
<1>1. ASSUME s \in postStages' PROVE Accounted(i)'
  BY <1>1 DEF Accounted, CurrentPosts, NothingStale, Accepted
<1>2. s \in postStages /\ s.reverting # {}
  BY DEF CurrentPosts, Accepted
<1>3. ASSUME NEW t, NEW T, postStages' = (postStages \ {t}) \cup T, t # s
      PROVE  Accounted(i)'
  BY <1>1, <1>2, <1>3
<1>4. CASE UNCHANGED postStages
  BY <1>1, <1>2, <1>4
<1>5. CASE PostStep(s)
  <2>1. PostRevert(s)
    BY <1>2, <1>5 DEF PostStep, PostSend, PostDone
  <2> DEFINE resting == {j \in RevertTargets(s.reverting) : Resting(j)}
  <2>2. ExchangeCancels(resting)
    BY <2>1 DEF PostRevert, Fault
  <2>3. resting \in SUBSET Ids
    <3>1. s.reverting \subseteq PostResult
      BY <1>2 DEF FullInv, Typed, TypeOK, TasksTyped, PostStage
    <3> QED
      BY <3>1 DEF RevertTargets, PostResult
  <2>4. i \in RevertTargets(s.reverting)
    BY DEF RevertTargets, Accepted
  <2> HIDE DEF resting
  <2>5. \A j \in resting : Dead(j)'
    BY <2>2, <2>3, CanceledOrders, CancelsDie DEF FullInv
  <2>6. i \notin resting => book'[i] = book[i]
    BY <2>2, <2>3, CanceledOrders DEF FullInv, Typed
  <2>7. i \in resting
    BY <2>4, <2>6 DEF resting, Resting
  <2> QED
    BY <2>5, <2>7 DEF Dead, Resting
<1>6. ASSUME NEW t \in postStages, PostStep(t) PROVE Accounted(i)'
  <2>1. PICK T : postStages' = (postStages \ {t}) \cup T
    BY <1>6, PostStepCases DEF FullInv
  <2> QED
    BY <1>3, <1>5, <1>6, <2>1
<1>7. ASSUME NEW T, postStages' = postStages \cup T PROVE Accounted(i)'
  BY <1>1, <1>2, <1>7
<1>8. ASSUME NEW cmd, NEW b, Start(cmd, b) PROVE Accounted(i)'
  BY <1>4, <1>7, <1>8 DEF Start, StartCancels, StartPosts, NothingToStart
<1>9. ASSUME NEW continue, NEW b, Finish(continue, b) PROVE Accounted(i)'
  BY <1>4, <1>8, <1>9 DEF Finish, taskVars
<1>10. ASSUME NEW cmd \in Commands, ExecCommand(cmd) PROVE Accounted(i)'
  BY <1>4, <1>8, <1>10 DEF ExecCommand, taskVars
<1>11. CASE CancelFinished \/ PostFinished
  BY <1>9, <1>11 DEF CancelFinished, PostFinished
<1>12. CASE DropStale \/ CancelBatch \/ PostBatch \/ Resync \/ ClockTick \/ UNCHANGED vars
  BY <1>4, <1>12 DEF DropStale, CancelBatch, PostBatch, Resync, ClockTick, vars, taskVars
<1>13. CASE ApplySeed
  BY <1>13 DEF ApplySeed
<1>14. ASSUME NEW c \in cancelStages, CancelStep(c) PROVE Accounted(i)'
  BY <1>4, <1>14 DEF CancelStep
<1>15. ASSUME NEW w \in sweeps, SweepStep(w) PROVE Accounted(i)'
  BY <1>4, <1>15 DEF SweepStep, taskVars
<1>16. ASSUME NEW j \in Ids, UserOrderUpdate(j) \/ Fill(j) \/ SweptByOther(j) \/ LoseUpdate(j)
       PROVE  Accounted(i)'
  BY <1>4, <1>16 DEF UserOrderUpdate, Fill, SweptByOther, LoseUpdate, taskVars
<1> QED
  BY <1>6, <1>10, <1>11, <1>12, <1>13, <1>14, <1>15, <1>16 DEF Next

(* An order comes to rest only by a post, whose answer accounts for it.    *)
LEMMA PlacedIsAccounted ==
  ASSUME "post_err_applied" \notin Faults, FullInv, NothingStale,
         NEW s \in postStages, PostStep(s), NothingStale',
         NEW i \in Ids, ~Resting(i), Resting(i)'
  PROVE  Accounted(i)'
<1>1. s \in PostStage /\ OnePerKey(s.todo) /\ s.todo \subseteq DesiredOrder /\ s.gen = gen
  BY DEF FullInv, Typed, TypeOK, TasksTyped, PostStage, PlansAreDistinct, NothingStale
<1>2. ASSUME NEW I \in SUBSET Ids, ExchangeCancels(I) PROVE FALSE
  <2>1. \A j \in Ids \ I : book'[j] = book[j]
    BY <1>2, CanceledOrders DEF FullInv, Typed
  <2>2. \A j \in I : Dead(j)'
    BY <1>2, CancelsDie DEF FullInv
  <2> QED
    BY <2>1, <2>2 DEF Resting, Dead
<1>3. CASE PostSend(s)
  <2>1. PICK B \in SUBSET s.todo, A \in SUBSET s.todo :
          /\ A \subseteq B
          /\ \A p \in A : HasFreshId(p.key)
          /\ (\E err : SentBatch(s, B, A, err)) \/ ErredBatch(s, A)
    BY <1>3, PostSendCases
  <2>2. A \in SUBSET DesiredOrder /\ OnePerKey(A) /\ ExchangePlaces(A)
    BY <1>1, <2>1 DEF OnePerKey, SentBatch, ErredBatch
  <2>3. PICK p \in A : i = FreshId(p.key)
    <3>1. i \notin {FreshId(p.key) : p \in A} => book'[i] = book[i]
      BY <2>1, <2>2, PlacedOrders DEF FullInv, Typed
    <3> QED
      BY <3>1 DEF Resting
  <2>4. PICK err : SentBatch(s, B, A, err)
    BY <2>1, <2>3 DEF ErredBatch, Fault
  <2> DEFINE R == {Answer(q, A, err) : q \in B}
             r == Answer(p, A, err)
  <2>5. r \in R /\ r.id = i /\ r.err = "none" /\ r.id # None
    BY <2>1, <2>3, NoneAssumption DEF Answer
  <2>6. r \in Accepted(R)
    BY <2>5 DEF Accepted
  <2> HIDE DEF r, R
  <2>7. CASE postStages' = (postStages \ {s}) \cup {[s EXCEPT !.todo = s.todo \ B, !.reverting = R]}
    <3> DEFINE t == [s EXCEPT !.todo = s.todo \ B, !.reverting = R]
    <3>1. t \in postStages' /\ t.reverting = R
      BY <1>1, <2>7 DEF PostStage
    <3> HIDE DEF t
    <3>2. t \in CurrentPosts'
      BY <3>1 DEF CurrentPosts, NothingStale
    <3> QED
      BY <2>5, <2>6, <3>1, <3>2 DEF Accounted, Accepted
  <2>8. CASE Send(PostBatchMsg(s, R))
    <3> DEFINE last == Len(internal) + 1
    <3>1. /\ Len(internal) \in Nat /\ Len(internal') = last
          /\ internal'[last] = PostBatchMsg(s, R)
      BY <2>8, SentChannel DEF FullInv, Typed, TypeOK
    <3>2. internal'[last].type = "PostBatch" /\ internal'[last].results = R
      BY <3>1 DEF PostBatchMsg
    <3>3. last \in CurrentMsgs'
      BY <3>1 DEF CurrentMsgs, NothingStale
    <3> HIDE DEF last
    <3> QED
      BY <2>5, <2>6, <3>2, <3>3 DEF Accounted, Accepted
  <2> QED
    BY <2>4, <2>7, <2>8 DEF SentBatch, R
<1>4. CASE PostRevert(s)
  <2>1. s.reverting \subseteq PostResult
    BY <1>1 DEF PostStage
  <2>2. RevertTargets(s.reverting) \subseteq Ids
    BY <2>1 DEF RevertTargets, PostResult
  <2> QED
    BY <1>2, <1>4, <2>2 DEF PostRevert
<1>5. CASE PostDone(s)
  BY <1>5 DEF PostDone, exVars, Resting
<1> QED
  BY <1>3, <1>4, <1>5 DEF PostStep

(* Every other step only takes orders off the book.                        *)
LEMMA OnlyPostsPlace ==
  ASSUME FullInv, [Next]_vars, NEW i \in Ids, ~Resting(i), Resting(i)'
  PROVE  \E s \in postStages : PostStep(s)
<1> SUFFICES ASSUME \A s \in postStages : ~PostStep(s) PROVE FALSE
  OBVIOUS
<1>1. ASSUME NEW I \in SUBSET Ids, ExchangeCancels(I) PROVE FALSE
  <2>1. \A j \in Ids \ I : book'[j] = book[j]
    BY <1>1, CanceledOrders DEF FullInv, Typed
  <2>2. \A j \in I : Dead(j)'
    BY <1>1, CancelsDie DEF FullInv
  <2> QED
    BY <2>1, <2>2 DEF Resting, Dead
<1>2. ASSUME UNCHANGED book PROVE FALSE
  BY <1>2 DEF Resting
<1>3. ASSUME NEW s \in cancelStages, CancelStep(s) PROVE FALSE
  <2>1. CASE CancelSend(s)
    <3>1. PICK B \in Batches(s.todo) :
            \E I \in SUBSET {c.id : c \in {d \in B : Resting(d.id)}} : ExchangeCancels(I)
      BY <2>1 DEF CancelSend
    <3>2. B \subseteq CancelAction
      BY DEF Batches, FullInv, Typed, TypeOK, TasksTyped, CancelStage
    <3> QED
      BY <1>1, <3>1, <3>2 DEF CancelAction
  <2> QED
    BY <1>2, <1>3, <2>1 DEF CancelStep, CancelDone, exVars
<1>4. ASSUME NEW w \in sweeps, SweepStep(w) PROVE FALSE
  <2>1. w \subseteq Ids
    BY DEF FullInv, Typed, TypeOK, TasksTyped
  <2> QED
    BY <1>1, <1>4, <2>1 DEF SweepStep
<1>5. ASSUME NEW j \in Ids, SweptByOther(j) PROVE FALSE
  BY <1>1, <1>5 DEF SweptByOther
<1>6. ASSUME NEW j \in Ids, Fill(j) PROVE FALSE
  BY <1>6 DEF Fill, Resting, FullInv, Typed, TypeOK, ExchangeTyped
<1>7. ASSUME NEW j \in Ids, UserOrderUpdate(j) \/ LoseUpdate(j) PROVE FALSE
  BY <1>2, <1>7 DEF UserOrderUpdate, LoseUpdate
<1>8. ASSUME NEW cmd \in Commands, ExecCommand(cmd) PROVE FALSE
  BY <1>2, <1>8 DEF ExecCommand, exVars
<1>9. CASE DropStale \/ CancelBatch \/ CancelFinished \/ PostBatch \/ PostFinished
           \/ ApplySeed \/ Resync \/ ClockTick \/ UNCHANGED vars
  BY <1>2, <1>9
  DEF DropStale, CancelBatch, CancelFinished, PostBatch, PostFinished, ApplySeed, Resync,
      ClockTick, vars, exVars
<1> QED
  BY <1>3, <1>4, <1>5, <1>6, <1>7, <1>8, <1>9 DEF Next

(* The exchange is quiet and reliable enough to account for every order:   *)
(* nobody reseeds the cache, a post call that errs has placed nothing, and *)
(* a cancel that undoes a partial batch is carried out.                    *)
Accountable == /\ MaxSeeds = 0
               /\ "post_err_applied" \notin Faults
               /\ "revert_fail" \notin Faults

AccountInv == FullInv /\ seedq = <<>> /\ NothingStale /\ HomeKeys /\ NoOrphanedOrder

LEMMA InitAccount == Init => AccountInv
<1> SUFFICES ASSUME Init PROVE AccountInv
  OBVIOUS
<1>1. FullInv
  BY InitFull
<1>2. \A i \in Ids : ~Resting(i)
  BY DEF Init, Resting, Unborn
<1> QED
  BY <1>1, <1>2 DEF Init, AccountInv, NothingStale, HomeKeys, NoOrphanedOrder, NoOrders

LEMMA NextAccount ==
  ASSUME Accountable, AccountInv, [Next]_vars
  PROVE  AccountInv'
<1> USE DEF AccountInv
<1>1. FullInv' /\ NothingStale' /\ HomeKeys'
  BY NextFull, NextNothingStale, NextHomeKeys
<1>2. seedq' = <<>>
  <2>1. ~Resync
    BY DEF Resync, Accountable, FullInv, Typed, TypeOK, EnvTyped
  <2>2. ~ApplySeed
    BY DEF ApplySeed
  <2> QED
    BY <2>1, <2>2
    DEF Next, ExecCommand, CancelStep, PostStep, SweepStep, DropStale, CancelBatch,
        CancelFinished, PostBatch, PostFinished, UserOrderUpdate, Fill, SweptByOther,
        LoseUpdate, ClockTick, vars
<1>3. ASSUME NEW i \in Ids, Resting(i)' PROVE Accounted(i)'
  <2>1. CASE ~Resting(i)
    BY <1>1, <1>3, <2>1, OnlyPostsPlace, PlacedIsAccounted DEF Accountable
  <2>2. CASE Resting(i)
    <3>1. Accounted(i)
      BY <2>2 DEF NoOrphanedOrder
    <3>2. CASE index[i] # None
      BY <1>1, <2>2, <3>2, CachedStays DEF Accounted
    <3>3. ASSUME NEW n \in CurrentMsgs, internal[n].type = "PostBatch",
                 NEW r \in Accepted(internal[n].results), r.id = i
          PROVE  Accounted(i)'
      BY <1>1, <3>3, AnsweredStays
    <3>4. ASSUME NEW s \in CurrentPosts, NEW r \in Accepted(s.reverting), r.id = i
          PROVE  Accounted(i)'
      BY <1>1, <1>3, <3>4, RevertingStays DEF Accountable
    <3> QED
      BY <3>1, <3>2, <3>3, <3>4 DEF Accounted
  <2> QED
    BY <2>1, <2>2
<1> QED
  BY <1>1, <1>2, <1>3 DEF NoOrphanedOrder

(***************************************************************************)
(* No resting order is ever lost track of: under the hypotheses above,     *)
(* none of which TLC finds dispensable, every order the exchange can still *)
(* match is in the cache, in an answer on its way there, or about to be    *)
(* undone by the stage that placed it.                                     *)
(***************************************************************************)
THEOREM EveryOrderIsAccounted ==
  ASSUME Accountable
  PROVE  Spec => []NoOrphanedOrder
<1>1. AccountInv => NoOrphanedOrder
  BY DEF AccountInv
<1>2. AccountInv /\ [Next]_vars => AccountInv'
  BY NextAccount
<1> QED
  BY <1>1, <1>2, InitAccount, PTL DEF Spec

LEMMA AccountOnePerKey == AccountInv => OneOrderPerKey
<1> SUFFICES ASSUME AccountInv, NEW k \in Keys, NEW m \in 1..MaxPerKey, NEW n \in 1..MaxPerKey,
                    Resting(<<k, m>>), Resting(<<k, n>>)
             PROVE  m = n
  BY DEF OneOrderPerKey
<1> DEFINE Cached(i)    == live[k] # None /\ live[k].id = i
           Answered(i)  == \E x \in CurrentMsgs : /\ internal[x].type = "PostBatch"
                             /\ \E r \in Accepted(internal[x].results) : r.id = i /\ r.key = k
           Reverting(i) == \E s \in CurrentPosts : \E r \in Accepted(s.reverting) :
                             r.id = i /\ r.key = k
<1>1. ASSUME NEW i \in Ids, i[1] = k, Resting(i)
      PROVE  Cached(i) \/ Answered(i) \/ Reverting(i)
  <2>1. Accounted(i)
    BY <1>1 DEF AccountInv, NoOrphanedOrder
  <2>2. CASE index[i] # None
    BY <1>1, <2>2 DEF AccountInv, FullInv, CacheConsistent, HomeKeys, Typed, TypeOK, CacheTyped
  <2>3. ASSUME NEW x \in CurrentMsgs, internal[x].type = "PostBatch",
               NEW r \in Accepted(internal[x].results), r.id = i
        PROVE  Answered(i)
    <3>1. OwnKey(r)
      BY <2>3 DEF AccountInv, FullInv, Truth, OrdersAreTrue, MessagesTrue, MessageTrue, CurrentMsgs
    <3> QED
      BY <1>1, <2>3, <3>1 DEF OwnKey
  <2>4. ASSUME NEW s \in CurrentPosts, NEW r \in Accepted(s.reverting), r.id = i
        PROVE  Reverting(i)
    <3>1. OwnKey(r)
      BY <2>4 DEF AccountInv, FullInv, Truth, OrdersAreTrue, RevertsTrue, CurrentPosts
    <3> QED
      BY <1>1, <2>4, <3>1 DEF OwnKey
  <2> QED
    BY <2>1, <2>2, <2>3, <2>4 DEF Accounted
<1>2. \A i, j : Answered(i) \/ Reverting(i) => ~Cached(j)
  BY DEF AccountInv, FullInv, InFlightInv, PostsLandOnFreeKeys, Accepted
<1>3. \A i, j : Answered(i) /\ Answered(j) => i = j
  BY DEF AccountInv, FullInv, InFlightInv, PostsAreDistinct, OnePerKey, ApartKeys, Accepted
<1>4. \A i, j : Reverting(i) /\ Reverting(j) => i = j
  BY DEF AccountInv, FullInv, InFlightInv, PostsAreDistinct, OnePerKey, Accepted, SlotInv,
         BusyMeansOneStage
<1>5. \A i, j : Answered(i) => ~Reverting(j)
  BY DEF AccountInv, FullInv, InFlightInv, PostsAreDistinct, ApartKeys, Accepted
<1>6. /\ <<k, m>> \in Ids /\ <<k, m>>[1] = k
      /\ <<k, n>> \in Ids /\ <<k, n>>[1] = k
  BY DEF Ids
<1>7. <<k, m>> = <<k, n>>
  <2> DEFINE i == <<k, m>>
             j == <<k, n>>
  <2>1. (Cached(i) \/ Answered(i) \/ Reverting(i)) /\ (Cached(j) \/ Answered(j) \/ Reverting(j))
    BY <1>1, <1>6
  <2>2. Cached(i) /\ Cached(j) => i = j
    OBVIOUS
  <2> HIDE DEF i, j, Cached, Answered, Reverting
  <2>3. i = j
    BY <1>2, <1>3, <1>4, <1>5, <2>1, <2>2
  <2> QED
    BY <2>3 DEF i, j
<1> QED
  BY <1>7

(***************************************************************************)
(* OrderManager never double-posts: under the same hypotheses at most one  *)
(* order rests per token, side and level.                                  *)
(***************************************************************************)
THEOREM NeverDoublePosted ==
  ASSUME Accountable
  PROVE  Spec => []OneOrderPerKey
<1>1. AccountInv /\ [Next]_vars => AccountInv'
  BY NextAccount
<1> QED
  BY <1>1, InitAccount, AccountOnePerKey, PTL DEF Spec
===============================================================================
