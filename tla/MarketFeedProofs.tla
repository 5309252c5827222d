------------------------- MODULE MarketFeedProofs -------------------------
(***************************************************************************)
(* Proofs about MarketFeed, for every length of a market, every grace time *)
(* and channels of any capacity.                                           *)
(***************************************************************************)
EXTENDS MarketFeedProperties, FiniteSetTheorems, TLAPS

(* What the reader of a channel will have is a fold of what it does with   *)
(* one message.                                                            *)
EventOp(p, states, event) == ApplyEvent(states, event)
CmdOp(p, set, cmd) == Applied(cmd, set)

EventFold == INSTANCE FoldTheorems WITH Op <- EventOp
CmdFold   == INSTANCE FoldTheorems WITH Op <- CmdOp

States == [Markets -> MarketState]

-----------------------------------------------------------------------------
(* The clock.                                                              *)

LEMMA Multiples ==
  /\ \A t \in Int : t = (Interval * (t \div Interval)) + (t % Interval) /\ t \div Interval \in Int
  /\ \A q \in Int : (Interval * q) % Interval = 0
  BY FeedAssumption

(* Two starts of markets are an interval apart.                            *)
LEMMA StartsApart ==
  ASSUME NEW a \in Int, NEW b \in Int, a % Interval = 0, b % Interval = 0, a < b
  PROVE  a + Interval <= b
<1>1. a = Interval * (a \div Interval) /\ b = Interval * (b \div Interval)
      /\ a \div Interval \in Int /\ b \div Interval \in Int
  BY Multiples, FeedAssumption
<1>2. PICK x \in Int, y \in Int : a = Interval * x /\ b = Interval * y
  BY <1>1
<1>3. x < y
  <2>1. SUFFICES ASSUME y <= x PROVE FALSE
    OBVIOUS
  <2>2. Interval * y <= Interval * x
    BY <2>1, FeedAssumption
  <2> QED
    BY <1>2, <2>2
<1>4. Interval * (x + 1) <= Interval * y
  BY <1>3, FeedAssumption
<1>5. Interval * (x + 1) = Interval * x + Interval
  BY FeedAssumption
<1> QED
  BY <1>2, <1>4, <1>5

LEMMA StartStep ==
  ASSUME NEW a \in Int, a % Interval = 0
  PROVE  (a + Interval) % Interval = 0 /\ (a - Interval) % Interval = 0
<1>1. a = Interval * (a \div Interval) /\ a \div Interval \in Int
  BY Multiples, FeedAssumption
<1>2. PICK x \in Int : a = Interval * x
  BY <1>1
<1>3. a + Interval = Interval * (x + 1) /\ a - Interval = Interval * (x - 1)
  BY <1>2, FeedAssumption
<1> QED
  BY <1>3, Multiples

LEMMA StartFacts ==
  ASSUME NEW t \in Nat
  PROVE  /\ StartOf(t) \in Int /\ StartOf(t) % Interval = 0
         /\ StartOf(t) <= t /\ t < StartOf(t) + Interval
<1>1. t % Interval \in 0..(Interval - 1)
  BY FeedAssumption
<1>2. (t - (t % Interval)) % Interval = 0
  BY FeedAssumption
<1> QED
  BY <1>1, <1>2, FeedAssumption DEF StartOf

LEMMA StartGrows ==
  ASSUME NEW t \in Nat, NEW u \in Nat, t <= u
  PROVE  StartOf(t) <= StartOf(u)
<1>1. SUFFICES ASSUME StartOf(u) < StartOf(t) PROVE FALSE
  BY StartFacts
<1>2. StartOf(u) + Interval <= StartOf(t)
  BY <1>1, StartFacts, StartsApart
<1> QED
  BY <1>2, StartFacts, FeedAssumption

(* The window of a time on the clock lies within the markets.              *)
LEMMA WindowTyped ==
  ASSUME NEW t \in FirstNow..MaxNow
  PROVE  /\ DiscoverySlugs(t) \in [cur : Markets, next : Markets, prev : SUBSET Markets]
         /\ TrackedSlugs(DiscoverySlugs(t)) \subseteq Markets
<1> DEFINE c == StartOf(t)
<1>1. t \in Nat /\ FirstNow \in Nat /\ MaxNow \in Nat
  BY FeedAssumption
<1>2. StartOf(FirstNow) <= c /\ StartOf(FirstNow) \in Int /\ c \in Int /\ c <= MaxNow
  BY <1>1, StartFacts, StartGrows
<1>3. c % Interval = 0 /\ (c + Interval) % Interval = 0 /\ (c - Interval) % Interval = 0
  BY <1>1, StartFacts, StartStep
<1> HIDE DEF c
<1>4. {c, c + Interval, c - Interval} \subseteq Markets
  BY <1>2, <1>3, FeedAssumption DEF Markets
<1>5. DiscoverySlugs(t).cur = c /\ DiscoverySlugs(t).next = c + Interval
      /\ DiscoverySlugs(t).prev \subseteq {c - Interval}
  BY DEF DiscoverySlugs, c
<1>6. DiscoverySlugs(t) = [cur |-> DiscoverySlugs(t).cur, next |-> DiscoverySlugs(t).next,
                           prev |-> DiscoverySlugs(t).prev]
  BY DEF DiscoverySlugs
<1> QED
  BY <1>4, <1>5, <1>6 DEF TrackedSlugs

-----------------------------------------------------------------------------
(* What a reader will have.                                                *)

Read(states, seq) == FoldLeft(ApplyEvent, states, seq)
Obey(set, seq)    == FoldLeft(LAMBDA old, cmd : Applied(cmd, old), set, seq)

LEMMA ReadIsFold ==
  ASSUME NEW states, NEW seq
  PROVE  Read(states, seq) = EventFold!Fold(0, states, seq)
  BY DEF Read, EventFold!Fold, EventOp, FoldLeft, MapThenFoldSet, Max,
         EventFold!FoldLeft, EventFold!MapThenFoldSet, EventFold!Max

LEMMA ObeyIsFold ==
  ASSUME NEW set, NEW seq
  PROVE  Obey(set, seq) = CmdFold!Fold(0, set, seq)
  BY DEF Obey, CmdFold!Fold, CmdOp, FoldLeft, MapThenFoldSet, Max,
         CmdFold!FoldLeft, CmdFold!MapThenFoldSet, CmdFold!Max

LEMMA ApplyTyped ==
  ASSUME NEW states \in States, NEW e \in Event
  PROVE  ApplyEvent(states, e) \in States
<1>1. CASE e.kind = "tracked"
  <2>1. ApplyEvent(states, e) = [m \in Markets |-> IF m \in e.slugs THEN states[m] ELSE NoState]
    BY <1>1 DEF ApplyEvent
  <2>2. NoState \in MarketState
    BY DEF NoState, NewMarket, MarketState
  <2> HIDE DEF NoState
  <2> QED
    BY <2>1, <2>2 DEF States
<1>2. CASE e.kind = "discovered"
  <2>1. e.slug \in Markets /\ e.status \in Status
    BY <1>2 DEF Event
  <2>2. states[e.slug] \in MarketState
    BY <2>1 DEF States
  <2>3. /\ [states[e.slug] EXCEPT !.status = e.status] \in MarketState
        /\ NewMarket(e.status) \in MarketState
    BY <2>1, <2>2 DEF MarketState, NewMarket
  <2>4. ApplyEvent(states, e) =
          [states EXCEPT ![e.slug] = IF Known(states[e.slug])
                                     THEN [states[e.slug] EXCEPT !.status = e.status]
                                     ELSE NewMarket(e.status)]
    BY <1>2 DEF ApplyEvent
  <2> QED
    BY <2>1, <2>3, <2>4 DEF States
<1>3. CASE e.kind = "seed"
  <2>1. e.slug \in Markets
    BY <1>3 DEF Event
  <2>2. states[e.slug] \in MarketState
    BY <2>1 DEF States
  <2>3. ApplyEvent(states, e) =
          [states EXCEPT ![e.slug] = [states[e.slug] EXCEPT !.tick =
             states[e.slug].tick \/ Known(states[e.slug])]]
    BY <1>3, <2>1 DEF ApplyEvent, States
  <2>4. states[e.slug].tick \in BOOLEAN /\ Known(states[e.slug]) \in BOOLEAN
    BY <2>2 DEF MarketState, Known
  <2>5. \A b \in BOOLEAN : [states[e.slug] EXCEPT !.tick = b] \in MarketState
    BY <2>2 DEF MarketState
  <2>6. (states[e.slug].tick \/ Known(states[e.slug])) \in BOOLEAN
    BY <2>4
  <2> QED
    BY <2>1, <2>3, <2>5, <2>6 DEF States
<1> QED
  BY <1>1, <1>2, <1>3 DEF Event

LEMMA ReadTyped ==
  ASSUME NEW states \in States, NEW seq \in Seq(Event)
  PROVE  Read(states, seq) \in States
<1>1. Len(seq) \in Nat /\ DOMAIN seq = 1..Len(seq) /\ \A i \in 1..Len(seq) : seq[i] \in Event
  OBVIOUS
<1>2. \A x \in States, i \in 1..Len(seq) : EventOp(0, x, seq[i]) \in States
  BY <1>1, ApplyTyped DEF EventOp
<1>3. EventFold!Fold(0, states, seq) \in States
  BY <1>1, <1>2, EventFold!FoldStaysIn
<1> QED
  BY <1>3, ReadIsFold

-----------------------------------------------------------------------------
(* Types.                                                                  *)

LEMMA RetainTyped ==
  ASSUME NEW f \in [Markets -> Status \cup {NoMarket}], NEW keep
  PROVE  /\ Retain(f, keep) \in [Markets -> Status \cup {NoMarket}]
         /\ \A m \in Markets : Retain(f, keep)[m] = IF m \in keep THEN f[m] ELSE NoMarket
  BY DEF Retain

LEMMA StatusesDiffer == NoMarket \notin Status /\ "unlisted" \notin Status
  BY DEF NoMarket, Status

LEMMA IdentityTyped ==
  ASSUME TypeOK, NEW m \in Markets, NEW fetch
  PROVE  Identity(m, fetch) \in Status \cup {NoMarket}
  BY DEF TypeOK, Identity

(* What discovery does with the identity of one market.                    *)
LEMMA TakeIdentityData ==
  ASSUME TypeOK, NEW m \in Markets, NEW fetch, out = <<>>, TakeIdentity(m, fetch)
  PROVE  /\ cache' \in [Markets -> Status \cup {NoMarket}]
         /\ lastSent' \in [Markets -> Status \cup {NoMarket}]
         /\ out' \in Seq(Event)
         /\ \/ UNCHANGED <<lastSent, out>> /\ Identity(m, fetch) \in {NoMarket, lastSent[m]}
            \/ \E e \in Event : /\ e.kind = "discovered" /\ e.slug = m
                                /\ e.status \in Status
                                /\ lastSent' = [lastSent EXCEPT ![m] = e.status]
                                /\ out' = <<e>>
<1>1. Identity(m, fetch) \in Status \cup {NoMarket}
  BY IdentityTyped
<1>2. cache' = [cache EXCEPT ![m] = Identity(m, fetch)]
  BY DEF TakeIdentity
<1>3. CASE Identity(m, fetch) \in {NoMarket, lastSent[m]}
  BY <1>1, <1>2, <1>3 DEF TakeIdentity, TypeOK
<1>4. CASE Identity(m, fetch) \notin {NoMarket, lastSent[m]}
  <2> DEFINE e == [kind |-> "discovered", slug |-> m, status |-> Identity(m, fetch)]
  <2>1. e \in Event /\ e.kind = "discovered" /\ e.slug = m /\ e.status = Identity(m, fetch)
        /\ e.status \in Status
    BY <1>1, <1>4 DEF Event
  <2>2. lastSent' = [lastSent EXCEPT ![m] = e.status] /\ out' = <<e>>
    BY <1>4 DEF TakeIdentity
  <2> HIDE DEF e
  <2>3. <<e>> \in Seq(Event)
    BY <2>1
  <2>4. out' \in Seq(Event)
    BY <2>2, <2>3
  <2>5. /\ cache' \in [Markets -> Status \cup {NoMarket}]
        /\ lastSent' \in [Markets -> Status \cup {NoMarket}]
    BY <1>1, <1>2, <2>1, <2>2 DEF TypeOK
  <2> QED
    BY <2>1, <2>2, <2>4, <2>5
<1> QED
  BY <1>3, <1>4

(* A finite set, listed: every element has a place.                        *)
LEMMA SetListed ==
  ASSUME NEW S, IsFiniteSet(S)
  PROVE  /\ SetToSeq(S) \in Seq(S)
         /\ \A x \in S : \E i \in 1..Len(SetToSeq(S)) : SetToSeq(S)[i] = x
<1> DEFINE n == Cardinality(S)
           f == SetToSeq(S)
<1>1. n \in Nat /\ ExistsBijection(1..n, S)
  BY FS_CardinalityType
<1>2. \E g \in [1..n -> S] : IsInjective(g)
  BY <1>1 DEF ExistsBijection, Bijection, Injection
<1>3. f \in [1..n -> S] /\ IsInjective(f)
  BY <1>2 DEF SetToSeq
<1>4. f \in Injection(1..n, S)
  BY <1>3 DEF Injection
<1> HIDE DEF f
<1>5. IsFiniteSet(1..n) /\ Cardinality(1..n) = n
  <2>1. IsFiniteSet(1..n) /\ Cardinality(1..n) = IF 1 > n THEN 0 ELSE n - 1 + 1
    BY <1>1, FS_Interval
  <2> QED
    BY <1>1, <2>1
<1>6. f \in Surjection(1..n, S)
  BY <1>4, <1>5, FS_Injection
<1> QED
  BY <1>1, <1>3, <1>6 DEF Surjection, f

(* The seeds that are sent are those of the markets answered.              *)
LEMMA SeedsListed ==
  ASSUME NEW answered \in SUBSET Markets
  PROVE  LET list == SetToSeq({[kind |-> "seed", slug |-> m] : m \in answered})
         IN  /\ list \in Seq(Event)
             /\ \A i \in 1..Len(list) : list[i] \in {[kind |-> "seed", slug |-> m] : m \in answered}
             /\ \A m \in answered : \E i \in 1..Len(list) : list[i] = [kind |-> "seed", slug |-> m]
<1> DEFINE S == {[kind |-> "seed", slug |-> m] : m \in answered}
           seed == [m \in answered |-> [kind |-> "seed", slug |-> m]]
<1>1. IsFiniteSet(answered)
  <2>1. IsFiniteSet((StartOf(FirstNow) - Interval)..(MaxNow + Interval))
    BY StartFacts, FeedAssumption, FS_Interval
  <2>2. answered \subseteq (StartOf(FirstNow) - Interval)..(MaxNow + Interval)
    BY DEF Markets
  <2> QED
    BY <2>1, <2>2, FS_Subset
<1>2. IsFiniteSet(S)
  <2>1. seed \in Surjection(answered, S)
    BY DEF Surjection
  <2> HIDE DEF S, seed
  <2> QED
    BY <1>1, <2>1, FS_Surjection
<1>3. S \subseteq Event
  BY DEF Event
<1>4. \A m \in answered : [kind |-> "seed", slug |-> m] \in S
  OBVIOUS
<1> HIDE DEF S
<1>5. /\ SetToSeq(S) \in Seq(S)
      /\ \A x \in S : \E i \in 1..Len(SetToSeq(S)) : SetToSeq(S)[i] = x
  BY <1>2, SetListed
<1>6. PICK list : list = SetToSeq(S)
  OBVIOUS
<1>7. list \in Seq(Event) /\ \A i \in 1..Len(list) : list[i] \in S
  BY <1>3, <1>5, <1>6
<1>8. \A m \in answered : \E i \in 1..Len(list) : list[i] = [kind |-> "seed", slug |-> m]
  BY <1>4, <1>5, <1>6
<1> QED
  BY <1>6, <1>7, <1>8 DEF S

LEMMA InitTyped == Init => TypeOK
<1> SUFFICES ASSUME Init PROVE TypeOK
  OBVIOUS
<1>1. FirstNow \in FirstNow..MaxNow
  BY FeedAssumption
<1>2. slugs \in [cur : Markets, next : Markets, prev : SUBSET Markets]
  BY <1>1, WindowTyped DEF Init
<1>3. gamma \in [Markets -> Status \cup {"unlisted"}]
  BY DEF Init, Status
<1>4. markets \in [Markets -> MarketState]
  BY DEF Init, NoState, NewMarket, MarketState
<1>5. lastSent \in [Markets -> Status \cup {NoMarket}] /\ cache \in [Markets -> Status \cup {NoMarket}]
  BY DEF Init
<1>6. out \in Seq(Event) /\ events \in Seq(Event) /\ cmds \in Seq(Command)
  BY DEF Init
<1> QED
  BY <1>1, <1>2, <1>3, <1>4, <1>5, <1>6 DEF Init, TypeOK

(* The step of the clock, of Gamma and of the websocket leave discovery    *)
(* and StateManager alone, and so on: the types, one task at a time.       *)
DiscoveryTyped ==
  /\ pc \in {"wait", "cur", "next", "prev", "seed", "unsub", "sub", "dead"}
  /\ slugs \in [cur : Markets, next : Markets, prev : SUBSET Markets]
  /\ desired \subseteq Markets /\ lastTracked \subseteq Markets
  /\ seeded \subseteq Markets /\ subscribed \subseteq Markets
  /\ lastSent \in [Markets -> Status \cup {NoMarket}]
  /\ cache \in [Markets -> Status \cup {NoMarket}]
  /\ out \in Seq(Event)

SocketTyped ==
  /\ wanted \subseteq Markets /\ server \subseteq Markets
  /\ conn \in {"connecting", "up", "backoff", "ended"}
  /\ broken \in BOOLEAN /\ sessions \in Nat

WorldTyped ==
  /\ now \in FirstNow..MaxNow
  /\ gamma \in [Markets -> Status \cup {"unlisted"}]
  /\ events \in Seq(Event) /\ cmds \in Seq(Command)
  /\ markets \in [Markets -> MarketState]
  /\ faults \in Nat

LEMMA TypeParts == TypeOK <=> DiscoveryTyped /\ SocketTyped /\ WorldTyped
  BY DEF TypeOK, DiscoveryTyped, SocketTyped, WorldTyped

LEMMA SentCommand ==
  ASSUME TypeOK, NEW op \in {"subscribe", "unsubscribe"}, NEW tokens \in SUBSET Markets,
         SendCommand(op, tokens)
  PROVE  /\ cmds' \in Seq(Command)
         /\ \/ tokens = {} /\ cmds' = cmds
            \/ \E c \in Command : c.op = op /\ c.tokens = tokens /\ cmds' = Append(cmds, c)
<1> DEFINE c == [op |-> op, tokens |-> tokens]
<1>1. c \in Command /\ c.op = op /\ c.tokens = tokens
  BY DEF Command
<1>2. (tokens = {} /\ cmds' = cmds) \/ cmds' = Append(cmds, c)
  BY DEF SendCommand
<1>3. cmds \in Seq(Command)
  BY DEF TypeOK
<1> HIDE DEF c
<1>4. cmds' \in Seq(Command)
  <2>1. Append(cmds, c) \in Seq(Command)
    BY <1>1, <1>3
  <2> QED
    BY <1>2, <1>3, <2>1
<1> QED
  BY <1>1, <1>2, <1>4

LEMMA AppliedTyped ==
  ASSUME NEW c \in Command, NEW set \in SUBSET Markets
  PROVE  Applied(c, set) \subseteq Markets
  BY DEF Applied, Command

LEMMA HitTyped ==
  ASSUME NEW kind, faults \in Nat, Hit(kind)
  PROVE  faults' \in Nat
  BY DEF Hit

LEMMA NextTyped ==
  ASSUME TypeOK, [Next]_vars
  PROVE  TypeOK'
<1>0. DiscoveryTyped /\ SocketTyped /\ WorldTyped
  BY TypeParts
<1> DEFINE Goal == DiscoveryTyped' /\ SocketTyped' /\ WorldTyped'
<1>a. ASSUME UNCHANGED <<pass, kept>> PROVE DiscoveryTyped'
  BY <1>0, <1>a DEF pass, kept, DiscoveryTyped
<1>b. ASSUME UNCHANGED socket PROVE SocketTyped'
  BY <1>0, <1>b DEF socket, SocketTyped
<1>c. ASSUME UNCHANGED <<now, gamma, events, cmds, markets, faults>> PROVE WorldTyped'
  BY <1>0, <1>c DEF WorldTyped
<1>1. ASSUME Poll PROVE Goal
  <2>1. now \in FirstNow..MaxNow
    BY DEF TypeOK
  <2>2. /\ slugs' \in [cur : Markets, next : Markets, prev : SUBSET Markets]
        /\ lastTracked' = TrackedSlugs(slugs') /\ lastTracked' \subseteq Markets
    BY <1>1, <2>1, WindowTyped DEF Poll
  <2>3. out' \in Seq(Event)
    <3> DEFINE e == [kind |-> "tracked", slugs |-> lastTracked']
    <3>1. e \in Event
      BY <2>2 DEF Event
    <3>2. out' = <<>> \/ out' = <<e>>
      BY <1>1, <2>2 DEF Poll
    <3> HIDE DEF e
    <3>3. <<e>> \in Seq(Event) /\ <<>> \in Seq(Event)
      BY <3>1
    <3> QED
      BY <3>2, <3>3
  <2>4. /\ lastSent' \in [Markets -> Status \cup {NoMarket}]
        /\ cache' \in [Markets -> Status \cup {NoMarket}]
    BY <1>0, <1>1, RetainTyped DEF Poll, DiscoveryTyped
  <2>5. DiscoveryTyped'
    BY <1>0, <1>1, <2>2, <2>3, <2>4 DEF Poll, DiscoveryTyped
  <2> QED
    BY <1>b, <1>c, <1>1, <2>5 DEF Poll
<1>2. ASSUME Send PROVE Goal
  <2>1. Head(out) \in Event /\ out' \in Seq(Event) /\ events' \in Seq(Event)
    BY <1>0, <1>2 DEF Send, DiscoveryTyped, WorldTyped
  <2> QED
    BY <1>0, <1>b, <1>2, <2>1 DEF Send, DiscoveryTyped, WorldTyped, kept
<1>3. ASSUME FetchCurrent PROVE Goal
  <2>1. slugs[pc] \in Markets
    BY <1>0, <1>3 DEF FetchCurrent, DiscoveryTyped
  <2>2. TakeIdentity(slugs[pc], TRUE) /\ out = <<>>
    BY <1>3 DEF FetchCurrent
  <2>3. /\ cache' \in [Markets -> Status \cup {NoMarket}]
        /\ lastSent' \in [Markets -> Status \cup {NoMarket}]
        /\ out' \in Seq(Event)
    BY <2>1, <2>2, TakeIdentityData
  <2>4. DiscoveryTyped'
    BY <1>0, <1>3, <2>1, <2>3 DEF FetchCurrent, DiscoveryTyped
  <2> QED
    BY <1>b, <1>c, <1>3, <2>4 DEF FetchCurrent
<1>4. ASSUME FetchPrevious PROVE Goal
  <2>1. /\ cache' \in [Markets -> Status \cup {NoMarket}]
        /\ lastSent' \in [Markets -> Status \cup {NoMarket}]
        /\ out' \in Seq(Event)
    <3>1. CASE UNCHANGED <<cache, lastSent, out>>
      BY <1>0, <3>1 DEF DiscoveryTyped
    <3>2. CASE \E m \in slugs.prev : TakeIdentity(m, cache[m] # "closed")
      <4>1. PICK m \in slugs.prev : TakeIdentity(m, cache[m] # "closed")
        BY <3>2
      <4>2. m \in Markets /\ out = <<>>
        BY <1>0, <1>4 DEF FetchPrevious, DiscoveryTyped
      <4> QED
        BY <4>1, <4>2, TakeIdentityData
    <3> QED
      BY <1>4, <3>1, <3>2 DEF FetchPrevious
  <2>2. DiscoveryTyped'
    BY <1>0, <1>4, <2>1 DEF FetchPrevious, DiscoveryTyped
  <2> QED
    BY <1>b, <1>c, <1>4, <2>2 DEF FetchPrevious
<1>5. ASSUME FetchFails PROVE Goal
  BY <1>0, <1>b, <1>5, HitTyped DEF FetchFails, DiscoveryTyped, WorldTyped, kept
<1>6. ASSUME NEW answered \in SUBSET Markets, SeedTicks(answered) PROVE Goal
  <2>1. out' \in Seq(Event) /\ faults' \in Nat
    BY <1>0, <1>6, SeedsListed, HitTyped DEF SeedTicks, WorldTyped
  <2> QED
    BY <1>0, <1>b, <1>6, <2>1 DEF SeedTicks, DiscoveryTyped, WorldTyped
<1>7. ASSUME Unsubscribe PROVE Goal
  <2>1. cmds' \in Seq(Command)
    BY <1>0, <1>7, SentCommand DEF Unsubscribe, DiscoveryTyped
  <2> QED
    BY <1>0, <1>b, <1>7, <2>1 DEF Unsubscribe, DiscoveryTyped, WorldTyped, kept
<1>8. ASSUME Subscribe PROVE Goal
  <2>1. cmds' \in Seq(Command)
    BY <1>0, <1>8, SentCommand DEF Subscribe, DiscoveryTyped
  <2> QED
    BY <1>0, <1>b, <1>8, <2>1 DEF Subscribe, DiscoveryTyped, WorldTyped
<1>9. ASSUME Connect \/ ConnectFails \/ Break \/ SessionEnds \/ BackoffOver \/ SocketEnds
      PROVE  Goal
  <2>1. DiscoveryTyped'
    BY <1>a, <1>9 DEF Connect, ConnectFails, Break, SessionEnds, BackoffOver, SocketEnds
  <2>2. SocketTyped'
    <3>1. sessions' \in Nat /\ conn' \in {"connecting", "up", "backoff", "ended"}
      BY <1>0, <1>9
      DEF Connect, ConnectFails, Break, SessionEnds, BackoffOver, SocketEnds, SocketTyped
    <3>2. wanted' = wanted /\ server' \in {{}, wanted, server} /\ broken' \in {TRUE, FALSE, broken}
      BY <1>9 DEF Connect, ConnectFails, Break, SessionEnds, BackoffOver, SocketEnds
    <3> QED
      BY <1>0, <3>1, <3>2 DEF SocketTyped
  <2>3. faults' \in Nat
    BY <1>0, <1>9, HitTyped
    DEF Connect, ConnectFails, Break, SessionEnds, BackoffOver, SocketEnds, WorldTyped
  <2>4. WorldTyped'
    BY <1>0, <1>9, <2>3
    DEF Connect, ConnectFails, Break, SessionEnds, BackoffOver, SocketEnds, WorldTyped
  <2> QED
    BY <2>1, <2>2, <2>4
<1>10. ASSUME HandleCommand \/ QueueCommand PROVE Goal
  <2>1. Head(cmds) \in Command /\ cmds' \in Seq(Command)
    <3>1. cmds # <<>> /\ cmds' = Tail(cmds)
      BY <1>10 DEF HandleCommand, QueueCommand
    <3>2. cmds \in Seq(Command)
      BY <1>0 DEF WorldTyped
    <3> QED
      BY <3>1, <3>2
  <2>2. /\ Applied(Head(cmds), wanted) \subseteq Markets
        /\ Applied(Head(cmds), server) \subseteq Markets
    BY <1>0, <2>1, AppliedTyped DEF SocketTyped
  <2>3. DiscoveryTyped'
    BY <1>a, <1>10 DEF HandleCommand, QueueCommand
  <2>4. SocketTyped'
    BY <1>0, <1>10, <2>2 DEF HandleCommand, QueueCommand, SocketTyped
  <2> QED
    BY <1>0, <1>10, <2>1, <2>3, <2>4 DEF HandleCommand, QueueCommand, WorldTyped
<1>11. ASSUME Apply PROVE Goal
  <2>1. Head(events) \in Event /\ events' \in Seq(Event)
    BY <1>0, <1>11 DEF Apply, WorldTyped
  <2>2. markets' \in [Markets -> MarketState]
    BY <1>0, <1>11, <2>1, ApplyTyped DEF Apply, WorldTyped, States
  <2> QED
    BY <1>0, <1>a, <1>b, <1>11, <2>1, <2>2 DEF Apply, WorldTyped
<1>12. ASSUME Clock PROVE Goal
  <2>1. now' \in FirstNow..MaxNow
    BY <1>0, <1>12, FeedAssumption DEF Clock, WorldTyped
  <2> QED
    BY <1>0, <1>a, <1>b, <1>12, <2>1 DEF Clock, WorldTyped
<1>13. ASSUME NEW m \in Markets, GammaChanges(m) PROVE Goal
  <2>1. gamma' \in [Markets -> Status \cup {"unlisted"}]
    BY <1>0, <1>13 DEF GammaChanges, WorldTyped, Status
  <2> QED
    BY <1>0, <1>a, <1>b, <1>13, <2>1 DEF GammaChanges, WorldTyped
<1>14. ASSUME UNCHANGED vars PROVE Goal
  BY <1>a, <1>b, <1>c, <1>14 DEF vars
<1>15. Goal
  BY <1>1, <1>2, <1>3, <1>4, <1>5, <1>6, <1>7, <1>8, <1>9, <1>10, <1>11, <1>12, <1>13, <1>14
  DEF Next, DiscoveryStep, SocketStep
<1>16. (TypeOK <=> DiscoveryTyped /\ SocketTyped /\ WorldTyped)'
  BY TypeParts, PTL
<1> QED
  BY <1>15, <1>16

(***************************************************************************)
(* Type correctness: in particular discovery only ever names markets whose *)
(* start is a multiple of the interval.                                    *)
(***************************************************************************)
THEOREM FeedTyped == Spec => []TypeOK
  BY InitTyped, NextTyped, PTL DEF Spec

-----------------------------------------------------------------------------
(* The websocket.                                                          *)

(* A command sent is obeyed after those before it, and one that is handled *)
(* leaves what there is to obey as it was.                                 *)
LEMMA ObeyAppend ==
  ASSUME NEW set, NEW seq \in Seq(Command), NEW c \in Command
  PROVE  Obey(set, Append(seq, c)) = Applied(c, Obey(set, seq))
<1>1. CmdFold!Fold(0, set, Append(seq, c)) = CmdOp(0, CmdFold!Fold(0, set, seq), c)
  BY CmdFold!FoldAppend
<1> QED
  BY <1>1, ObeyIsFold DEF CmdOp

LEMMA ObeyHead ==
  ASSUME NEW set, NEW seq \in Seq(Command), seq # <<>>
  PROVE  Obey(set, seq) = Obey(Applied(Head(seq), set), Tail(seq))
<1>1. CmdFold!Fold(0, set, seq) = CmdFold!Fold(0, CmdOp(0, set, Head(seq)), Tail(seq))
  BY CmdFold!FoldHead
<1> QED
  BY <1>1, ObeyIsFold DEF CmdOp

(* What the websocket is to want, by what discovery believes.              *)
Believed == IF pc = "sub" THEN subscribed \cap desired ELSE subscribed

LEMMA FollowsIs ==
  SubscriptionsFollow <=> /\ conn # "ended" => Obey(wanted, cmds) = Believed
                          /\ conn = "up" /\ ~broken => server = wanted
  BY DEF SubscriptionsFollow, AheadWanted, Obey, Believed

(* A send, or its omission, does to what will be wanted what it says.      *)
LEMMA SendIsObeyed ==
  ASSUME TypeOK, NEW op \in {"subscribe", "unsubscribe"}, NEW tokens \in SUBSET Markets,
         SendCommand(op, tokens)
  PROVE  Obey(wanted, cmds') = IF op = "subscribe" THEN Obey(wanted, cmds) \cup tokens
                               ELSE Obey(wanted, cmds) \ tokens
<1>1. cmds \in Seq(Command)
  BY DEF TypeOK
<1>2. CASE tokens = {} /\ cmds' = cmds
  <2>1. Obey(wanted, cmds) \cup {} = Obey(wanted, cmds) /\ Obey(wanted, cmds) \ {} = Obey(wanted, cmds)
    <3>1. Obey(wanted, cmds) \subseteq Markets
      <4>1. Len(cmds) \in Nat /\ DOMAIN cmds = 1..Len(cmds) /\ \A i \in 1..Len(cmds) : cmds[i] \in Command
        BY <1>1
      <4>2. \A x \in SUBSET Markets, i \in 1..Len(cmds) : CmdOp(0, x, cmds[i]) \in SUBSET Markets
        BY <4>1, AppliedTyped DEF CmdOp
      <4>3. wanted \in SUBSET Markets
        BY DEF TypeOK
      <4>4. CmdFold!Fold(0, wanted, cmds) \in SUBSET Markets
        BY <4>1, <4>2, <4>3, CmdFold!FoldStaysIn
      <4> QED
        BY <4>4, ObeyIsFold
    <3> QED
      BY <3>1
  <2> QED
    BY <1>2, <2>1
<1>3. CASE \E c \in Command : c.op = op /\ c.tokens = tokens /\ cmds' = Append(cmds, c)
  <2>1. PICK c \in Command : c.op = op /\ c.tokens = tokens /\ cmds' = Append(cmds, c)
    BY <1>3
  <2>2. Obey(wanted, cmds') = Applied(c, Obey(wanted, cmds))
    BY <1>1, <2>1, ObeyAppend
  <2> QED
    BY <2>1, <2>2 DEF Applied
<1> QED
  BY <1>2, <1>3, SentCommand

LEMMA NextFollows ==
  ASSUME TypeOK, SubscriptionsFollow, [Next]_vars
  PROVE  SubscriptionsFollow'
<1> DEFINE Goal == /\ conn' # "ended" => Obey(wanted', cmds') = Believed'
                   /\ conn' = "up" /\ ~broken' => server' = wanted'
<1>0. /\ conn # "ended" => Obey(wanted, cmds) = Believed
      /\ conn = "up" /\ ~broken => server = wanted
  BY FollowsIs
<1>t. /\ cmds \in Seq(Command) /\ desired \subseteq Markets /\ subscribed \subseteq Markets
      /\ wanted \subseteq Markets /\ broken \in BOOLEAN
  BY DEF TypeOK
<1>1. ASSUME UNCHANGED <<conn, wanted, server, broken, cmds>>, Believed' = Believed PROVE Goal
  BY <1>0, <1>1
<1>2. ASSUME Poll PROVE Goal
  BY <1>1, <1>2 DEF Poll, socket, Believed
<1>3. ASSUME Send PROVE Goal
  BY <1>1, <1>3 DEF Send, socket, kept, Believed
<1>4. ASSUME FetchCurrent PROVE Goal
  BY <1>1, <1>4 DEF FetchCurrent, socket, Believed
<1>5. ASSUME FetchPrevious PROVE Goal
  BY <1>1, <1>5 DEF FetchPrevious, socket, Believed
<1>6. ASSUME FetchFails PROVE Goal
  BY <1>1, <1>6 DEF FetchFails, socket, kept, Believed
<1>7. ASSUME NEW answered \in SUBSET Markets, SeedTicks(answered) PROVE Goal
  BY <1>1, <1>7 DEF SeedTicks, socket, Believed
<1>8. ASSUME Unsubscribe PROVE Goal
  <2>1. /\ pc = "unsub" /\ pc' = "sub" /\ SendCommand("unsubscribe", subscribed \ desired)
        /\ UNCHANGED <<conn, wanted, server, broken, desired, subscribed>>
    BY <1>8 DEF Unsubscribe, socket, kept
  <2>2. Obey(wanted, cmds') = Obey(wanted, cmds) \ (subscribed \ desired)
    <3>1. subscribed \ desired \in SUBSET Markets
      BY <1>t
    <3> QED
      BY <2>1, <3>1, SendIsObeyed
  <2> QED
    BY <1>0, <2>1, <2>2 DEF Believed
<1>9. ASSUME Subscribe PROVE Goal
  <2>1. /\ pc = "sub" /\ pc' = "wait" /\ SendCommand("subscribe", desired \ subscribed)
        /\ subscribed' = desired /\ UNCHANGED <<conn, wanted, server, broken>>
    BY <1>9 DEF Subscribe, socket
  <2>2. Obey(wanted, cmds') = Obey(wanted, cmds) \cup (desired \ subscribed)
    <3>1. desired \ subscribed \in SUBSET Markets
      BY <1>t
    <3> QED
      BY <2>1, <3>1, SendIsObeyed
  <2> QED
    BY <1>0, <2>1, <2>2 DEF Believed
<1>10. ASSUME HandleCommand \/ QueueCommand PROVE Goal
  <2>1. /\ conn \in {"up", "backoff"} /\ cmds # <<>> /\ cmds' = Tail(cmds)
        /\ wanted' = Applied(Head(cmds), wanted) /\ Believed' = Believed
    BY <1>10 DEF HandleCommand, QueueCommand, pass, kept, Believed
  <2>2. Obey(wanted', cmds') = Obey(wanted, cmds)
    BY <1>t, <2>1, ObeyHead
  <2>3. conn' = "up" /\ ~broken' => server' = wanted'
    BY <1>0, <1>t, <1>10, <2>1 DEF HandleCommand, QueueCommand
  <2> QED
    BY <1>0, <2>1, <2>2, <2>3
<1>11. ASSUME Connect \/ ConnectFails \/ Break \/ SessionEnds \/ BackoffOver \/ SocketEnds PROVE Goal
  <2>1. UNCHANGED <<wanted, cmds>> /\ Believed' = Believed
    BY <1>11 DEF Connect, ConnectFails, Break, SessionEnds, BackoffOver, SocketEnds, pass, kept, Believed
  <2>2. conn' # "ended" => conn # "ended"
    BY <1>11 DEF Connect, ConnectFails, Break, SessionEnds, BackoffOver, SocketEnds
  <2>3. conn' = "up" /\ ~broken' => server' = wanted'
    BY <1>0, <1>11 DEF Connect, ConnectFails, Break, SessionEnds, BackoffOver, SocketEnds
  <2> QED
    BY <1>0, <2>1, <2>2, <2>3
<1>12. ASSUME Apply PROVE Goal
  BY <1>1, <1>12 DEF Apply, socket, pass, kept, Believed
<1>13. ASSUME Clock PROVE Goal
  BY <1>1, <1>13 DEF Clock, socket, pass, kept, Believed
<1>14. ASSUME NEW m \in Markets, GammaChanges(m) PROVE Goal
  BY <1>1, <1>14 DEF GammaChanges, socket, pass, kept, Believed
<1>15. ASSUME UNCHANGED vars PROVE Goal
  BY <1>1, <1>15 DEF vars, socket, pass, kept, Believed
<1>16. Goal
  BY <1>2, <1>3, <1>4, <1>5, <1>6, <1>7, <1>8, <1>9, <1>10, <1>11, <1>12, <1>13, <1>14, <1>15
  DEF Next, DiscoveryStep, SocketStep
<1>17. (SubscriptionsFollow <=> /\ conn # "ended" => Obey(wanted, cmds) = Believed
                                /\ conn = "up" /\ ~broken => server = wanted)'
  BY FollowsIs, PTL
<1> QED
  BY <1>16, <1>17

LEMMA InitFollows == Init => SubscriptionsFollow
<1> SUFFICES ASSUME Init PROVE SubscriptionsFollow
  OBVIOUS
<1>1. Obey({}, <<>>) = {}
  BY ObeyIsFold, CmdFold!FoldEmpty
<1> QED
  BY <1>1, FollowsIs DEF Init, Believed

(***************************************************************************)
(* SubscriptionsFollow: whatever happens to the sessions of the market     *)
(* websocket, and however the commands and the reconnects interleave, what *)
(* it will want once it has read its channel is what discovery believes it *)
(* has subscribed to, and a live session serves what it wants.             *)
(***************************************************************************)
THEOREM SubscriptionsAlwaysFollow == Spec => []SubscriptionsFollow
<1>1. Init => TypeOK /\ SubscriptionsFollow
  BY InitTyped, InitFollows
<1>2. TypeOK /\ SubscriptionsFollow /\ [Next]_vars => (TypeOK /\ SubscriptionsFollow)'
  BY NextTyped, NextFollows
<1> QED
  BY <1>1, <1>2, PTL DEF Spec

-----------------------------------------------------------------------------
(* The identities.                                                         *)

(* What discovery tracks is a window of the past; before its first pass it *)
(* tracks nothing.                                                         *)
Polled ==
  /\ \E t \in FirstNow..now : slugs = DiscoverySlugs(t)
  /\ \/ lastTracked = TrackedSlugs(slugs)
     \/ lastTracked = {} /\ pc = "wait" /\ seeded = {}

(* It has sent identities of tracked markets only, and desires markets it  *)
(* has sent.                                                               *)
SentAreTracked == \A m \in Markets : lastSent[m] # NoMarket => m \in lastTracked
DesiredAreSent ==
  pc # "wait" => \A m \in desired : m \in lastTracked /\ lastSent[m] # NoMarket

(* A market whose ticks were sent is still announced, or over for good.    *)
SeededOnce ==
  \A m \in seeded : IF m \in lastTracked THEN lastSent[m] # NoMarket ELSE m < slugs.cur

IdentityInv ==
  TypeOK /\ Polled /\ SentAreTracked /\ DesiredAreSent /\ SeededOnce /\ IdentitiesAreCurrent

(* A window that has passed does not come back: what a later one tracks of *)
(* the markets before an earlier one, the earlier one tracked as well; and *)
(* what it no longer tracks of the earlier one lies before it.             *)
LEMMA WindowsMoveOn ==
  ASSUME NEW t \in FirstNow..MaxNow, NEW u \in FirstNow..MaxNow, t <= u, NEW m \in Markets
  PROVE  /\ m < DiscoverySlugs(t).cur /\ m \in TrackedSlugs(DiscoverySlugs(u))
              => m \in TrackedSlugs(DiscoverySlugs(t))
         /\ m \in TrackedSlugs(DiscoverySlugs(t)) /\ m \notin TrackedSlugs(DiscoverySlugs(u))
              => m < DiscoverySlugs(u).cur
         /\ DiscoverySlugs(t).cur <= DiscoverySlugs(u).cur
         /\ DiscoverySlugs(t).cur \in Int /\ DiscoverySlugs(u).cur \in Int
<1> DEFINE a == StartOf(t)
           b == StartOf(u)
<1>1. t \in Nat /\ u \in Nat /\ Interval \in Nat \ {0} /\ Grace \in Nat
  BY FeedAssumption
<1>2. a \in Int /\ b \in Int /\ a % Interval = 0 /\ b % Interval = 0 /\ a <= b
  BY <1>1, StartFacts, StartGrows
<1>3. m \in Int /\ m % Interval = 0
  <2>1. StartOf(FirstNow) \in Int /\ MaxNow \in Int
    BY FeedAssumption, StartFacts
  <2> QED
    BY <1>1, <2>1 DEF Markets
<1>4. /\ m < a => m + Interval <= a
      /\ b < m => b + Interval <= m
  BY <1>2, <1>3, StartsApart
<1>5. /\ DiscoverySlugs(t).cur = a /\ DiscoverySlugs(u).cur = b
      /\ m \in TrackedSlugs(DiscoverySlugs(t))
           <=> m \in {a, a + Interval} \/ (Grace > 0 /\ t - a <= Grace /\ m = a - Interval)
      /\ m \in TrackedSlugs(DiscoverySlugs(u))
           <=> m \in {b, b + Interval} \/ (Grace > 0 /\ u - b <= Grace /\ m = b - Interval)
  BY DEF DiscoverySlugs, TrackedSlugs
<1> HIDE DEF a, b
<1>6. ASSUME m < a, m \in TrackedSlugs(DiscoverySlugs(u)) PROVE m \in TrackedSlugs(DiscoverySlugs(t))
  <2>1. Grace > 0 /\ u - b <= Grace /\ m = b - Interval
    BY <1>1, <1>2, <1>3, <1>5, <1>6
  <2>2. a = b
    BY <1>1, <1>2, <1>3, <1>4, <1>6, <2>1
  <2> QED
    BY <1>1, <1>2, <1>5, <2>1, <2>2
<1>7. ASSUME m \in TrackedSlugs(DiscoverySlugs(t)), m \notin TrackedSlugs(DiscoverySlugs(u)) PROVE m < b
  <2>1. m <= a + Interval
    BY <1>1, <1>2, <1>3, <1>5, <1>7
  <2>2. m # b /\ m # b + Interval
    BY <1>5, <1>7
  <2> QED
    BY <1>1, <1>2, <1>3, <1>4, <2>1, <2>2
<1> QED
  BY <1>2, <1>5, <1>6, <1>7

(* What StateManager will have, of one market.                             *)
LEMMA AppliedTracked ==
  ASSUME NEW states \in States, NEW tracked \in SUBSET Markets, NEW m \in Markets
  PROVE  ApplyEvent(states, [kind |-> "tracked", slugs |-> tracked])[m]
           = IF m \in tracked THEN states[m] ELSE NoState
  BY DEF ApplyEvent

LEMMA AppliedIdentity ==
  ASSUME NEW states \in States, NEW e \in Event, e.kind = "discovered", NEW m \in Markets
  PROVE  /\ e.slug \in Markets
         /\ m # e.slug => ApplyEvent(states, e)[m] = states[m]
         /\ ApplyEvent(states, e)[e.slug].status = e.status
         /\ Known(states[e.slug]) => ApplyEvent(states, e)[e.slug].tick = states[e.slug].tick
<1>1. e.slug \in Markets /\ e.status \in Status
  BY DEF Event
<1>2. ApplyEvent(states, e) =
        [states EXCEPT ![e.slug] = IF Known(states[e.slug])
                                   THEN [states[e.slug] EXCEPT !.status = e.status]
                                   ELSE NewMarket(e.status)]
  BY DEF ApplyEvent
<1>3. states[e.slug] \in MarketState
  BY <1>1 DEF States
<1>4. /\ [states[e.slug] EXCEPT !.status = e.status].status = e.status
      /\ [states[e.slug] EXCEPT !.status = e.status].tick = states[e.slug].tick
      /\ NewMarket(e.status).status = e.status
  BY <1>3 DEF MarketState, NewMarket
<1>5. ApplyEvent(states, e)[e.slug] = IF Known(states[e.slug])
                                      THEN [states[e.slug] EXCEPT !.status = e.status]
                                      ELSE NewMarket(e.status)
  BY <1>1, <1>2 DEF States
<1>6. m # e.slug => ApplyEvent(states, e)[m] = states[m]
  BY <1>1, <1>2 DEF States
<1> QED
  BY <1>1, <1>4, <1>5, <1>6

LEMMA AppliedSeed ==
  ASSUME NEW states \in States, NEW s \in Markets, NEW m \in Markets
  PROVE  /\ ApplyEvent(states, [kind |-> "seed", slug |-> s])[m].status = states[m].status
         /\ states[m].tick => ApplyEvent(states, [kind |-> "seed", slug |-> s])[m].tick
         /\ m = s /\ Known(states[m]) => ApplyEvent(states, [kind |-> "seed", slug |-> s])[m].tick
<1> DEFINE e == [kind |-> "seed", slug |-> s]
<1>1. ApplyEvent(states, e) =
        [states EXCEPT ![s] = [states[s] EXCEPT !.tick = states[s].tick \/ Known(states[s])]]
  BY DEF ApplyEvent, States
<1>2. states[s] \in MarketState /\ states[m] \in MarketState
  BY DEF States
<1>3. /\ [states[s] EXCEPT !.tick = states[s].tick \/ Known(states[s])].status = states[s].status
      /\ [states[s] EXCEPT !.tick = states[s].tick \/ Known(states[s])].tick
           = (states[s].tick \/ Known(states[s]))
  BY <1>2 DEF MarketState
<1>4. /\ ApplyEvent(states, e)[s] = [states[s] EXCEPT !.tick = states[s].tick \/ Known(states[s])]
      /\ m # s => ApplyEvent(states, e)[m] = states[m]
  BY <1>1 DEF States
<1> HIDE DEF e
<1>5. CASE m = s
  BY <1>3, <1>4, <1>5 DEF e
<1>6. CASE m # s
  BY <1>4, <1>6 DEF e
<1> QED
  BY <1>5, <1>6

(* A fold over events that are read, more that are sent, or one applied.   *)
LEMMA AheadIs ==
  Ahead = Read(markets, events \o out) /\ Ahead' = Read(markets', events' \o out')
  BY DEF Ahead, Read

LEMMA AheadTyped ==
  ASSUME TypeOK
  PROVE  Ahead \in States
<1>1. markets \in States /\ events \o out \in Seq(Event)
  BY DEF TypeOK, States
<1> QED
  BY <1>1, AheadIs, ReadTyped

LEMMA SendingAdds ==
  ASSUME TypeOK, out = <<>>, UNCHANGED <<markets, events>>, out' \in Seq(Event)
  PROVE  Ahead' = Read(Ahead, out')
<1>1. events \in Seq(Event) /\ events \o out = events
  BY DEF TypeOK
<1>2. EventFold!Fold(0, markets, events \o out')
        = EventFold!Fold(0, EventFold!Fold(0, markets, events), out')
  BY <1>1, EventFold!FoldConcat
<1> QED
  BY <1>1, <1>2, AheadIs, ReadIsFold

LEMMA ReadNothing ==
  ASSUME NEW states
  PROVE  Read(states, <<>>) = states
  BY ReadIsFold, EventFold!FoldEmpty

LEMMA ReadOne ==
  ASSUME NEW states, NEW e
  PROVE  Read(states, <<e>>) = ApplyEvent(states, e)
<1>1. EventFold!Fold(0, states, <<e>>) = EventOp(0, states, e)
  BY EventFold!FoldOne
<1>2. \A seq : Read(states, seq) = EventFold!Fold(0, states, seq)
  BY ReadIsFold
<1> QED
  BY <1>1, <1>2 DEF EventOp

(* Neither a send nor an application changes what will have been read.     *)
LEMMA ReadingKeepsAhead ==
  ASSUME TypeOK, Send \/ Apply
  PROVE  Ahead' = Ahead
<1>0. events \in Seq(Event) /\ out \in Seq(Event)
  BY DEF TypeOK
<1>1. CASE Send
  <2>1. out # <<>> /\ events' = Append(events, Head(out)) /\ out' = Tail(out) /\ markets' = markets
    BY <1>1 DEF Send
  <2>2. Append(events, Head(out)) \o Tail(out) = events \o out
    BY <1>0, <2>1
  <2> QED
    BY <2>1, <2>2, AheadIs
<1>2. CASE Apply
  <2>1. events # <<>> /\ markets' = ApplyEvent(markets, Head(events)) /\ events' = Tail(events) /\ out' = out
    BY <1>2 DEF Apply, pass
  <2> DEFINE all == events \o out
  <2>2. all \in Seq(Event) /\ all # <<>> /\ Head(all) = Head(events) /\ Tail(all) = Tail(events) \o out
    BY <1>0, <2>1
  <2> HIDE DEF all
  <2>3. EventFold!Fold(0, markets, all) = EventFold!Fold(0, EventOp(0, markets, Head(all)), Tail(all))
    BY <2>2, EventFold!FoldHead
  <2> QED
    BY <2>1, <2>2, <2>3, AheadIs, ReadIsFold DEF EventOp, all
<1> QED
  BY <1>1, <1>2

(* The seeds: no status changes, and every market answered has its tick.   *)
LEMMA ReadSeeds ==
  ASSUME NEW states \in States, NEW answered \in SUBSET Markets,
         \A m \in answered : Known(states[m]),
         NEW list, list = SetToSeq({[kind |-> "seed", slug |-> m] : m \in answered})
  PROVE  \A m \in Markets : /\ Read(states, list)[m].status = states[m].status
                            /\ states[m].tick => Read(states, list)[m].tick
                            /\ m \in answered => Read(states, list)[m].tick
<1>1. /\ list \in Seq(Event)
      /\ \A i \in 1..Len(list) : list[i] \in {[kind |-> "seed", slug |-> m] : m \in answered}
      /\ \A m \in answered : \E i \in 1..Len(list) : list[i] = [kind |-> "seed", slug |-> m]
  BY SeedsListed
<1>2. Len(list) \in Nat /\ DOMAIN list = 1..Len(list)
  BY <1>1
<1> DEFINE T == {x \in States : \A m \in Markets : /\ x[m].status = states[m].status
                                                   /\ states[m].tick => x[m].tick}
<1>3. states \in T
  OBVIOUS
<1>4. ASSUME NEW x \in T, NEW i \in 1..Len(list) PROVE EventOp(0, x, list[i]) \in T
  <2>1. PICK s \in answered : list[i] = [kind |-> "seed", slug |-> s]
    BY <1>1
  <2>2. x \in States /\ s \in Markets /\ list[i] \in Event
    BY <1>1, <2>1
  <2>3. EventOp(0, x, list[i]) \in States
    BY <2>2, ApplyTyped DEF EventOp
  <2>4. ASSUME NEW m \in Markets
        PROVE  /\ EventOp(0, x, list[i])[m].status = states[m].status
               /\ states[m].tick => EventOp(0, x, list[i])[m].tick
    <3>1. /\ ApplyEvent(x, [kind |-> "seed", slug |-> s])[m].status = x[m].status
          /\ x[m].tick => ApplyEvent(x, [kind |-> "seed", slug |-> s])[m].tick
      BY <2>2, AppliedSeed
    <3> QED
      BY <2>1, <3>1 DEF EventOp
  <2> QED
    BY <2>3, <2>4
<1>5. Read(states, list) \in T
  <2> HIDE DEF T
  <2>1. EventFold!Fold(0, states, list) \in T
    BY <1>2, <1>3, <1>4, EventFold!FoldStaysIn
  <2> QED
    BY <2>1, ReadIsFold
<1>6. ASSUME NEW m \in answered PROVE Read(states, list)[m].tick
  <2> DEFINE U == {x \in T : x[m].tick}
  <2>1. ASSUME NEW x \in U \cap T, NEW i \in 1..Len(list) PROVE EventOp(0, x, list[i]) \in U
    <3>1. PICK s \in answered : list[i] = [kind |-> "seed", slug |-> s]
      BY <1>1
    <3>2. x \in States /\ s \in Markets /\ m \in Markets /\ x[m].tick
      BY <3>1
    <3>3. ApplyEvent(x, [kind |-> "seed", slug |-> s])[m].tick
      BY <3>2, AppliedSeed
    <3>4. EventOp(0, x, list[i]) \in T
      BY <1>4
    <3> QED
      BY <3>1, <3>3, <3>4 DEF EventOp
  <2>2. PICK k \in 1..Len(list) : list[k] = [kind |-> "seed", slug |-> m]
    BY <1>1
  <2>3. ASSUME NEW x \in T PROVE EventOp(0, x, list[k]) \in U
    <3>1. x \in States /\ m \in Markets /\ Known(x[m])
      BY DEF Known
    <3>2. ApplyEvent(x, [kind |-> "seed", slug |-> m])[m].tick
      BY <3>1, AppliedSeed
    <3>3. EventOp(0, x, list[k]) \in T
      BY <1>4
    <3> QED
      BY <2>2, <3>2, <3>3 DEF EventOp
  <2> HIDE DEF T, U
  <2>4. EventFold!Fold(0, states, list) \in U \cap T
    BY <1>2, <1>3, <1>4, <2>1, <2>3, EventFold!FoldReaches
  <2>5. Read(states, list) \in U
    BY <2>4, ReadIsFold
  <2> QED
    BY <2>5 DEF U
<1> QED
  BY <1>5, <1>6

LEMMA InitIdentities == Init => IdentityInv
<1> SUFFICES ASSUME Init PROVE IdentityInv
  OBVIOUS
<1>1. TypeOK
  BY InitTyped
<1>2. Polled
  <2>1. now \in FirstNow..now /\ slugs = DiscoverySlugs(now)
    BY FeedAssumption DEF Init
  <2> QED
    BY <2>1 DEF Init, Polled
<1>3. SentAreTracked /\ DesiredAreSent /\ SeededOnce
  BY DEF Init, SentAreTracked, DesiredAreSent, SeededOnce
<1>4. Ahead = [m \in Markets |-> NoState]
  <2>1. events \o out = <<>> /\ markets = [m \in Markets |-> NoState]
    BY DEF Init
  <2> QED
    BY <2>1, AheadIs, ReadNothing
<1>5. NoState.status = NoMarket /\ ~Known(NoState)
  BY DEF NoState, NewMarket, Known
<1>6. IdentitiesAreCurrent
  BY <1>4, <1>5 DEF Init, IdentitiesAreCurrent
<1> QED
  BY <1>1, <1>2, <1>3, <1>6 DEF IdentityInv

(* A pass begins: the markets that are no longer tracked are forgotten by  *)
(* both sides.                                                             *)
LEMMA PollIdentities ==
  ASSUME IdentityInv, TypeOK', Poll
  PROVE  IdentityInv'
<1>0. /\ TypeOK /\ Polled /\ SentAreTracked /\ SeededOnce
      /\ now \in FirstNow..MaxNow /\ FirstNow \in Nat /\ MaxNow \in Nat
  BY FeedAssumption DEF IdentityInv, TypeOK
<1>1. /\ out = <<>> /\ slugs' = DiscoverySlugs(now) /\ lastTracked' = TrackedSlugs(slugs')
      /\ out' = IF lastTracked' = lastTracked THEN <<>>
                ELSE <<[kind |-> "tracked", slugs |-> lastTracked']>>
      /\ lastSent' = Retain(lastSent, lastTracked')
      /\ desired' = {} /\ UNCHANGED <<now, seeded, events, markets>>
  BY DEF Poll
<1>2. lastTracked' \subseteq Markets /\ lastTracked \subseteq Markets /\ seeded \subseteq Markets
      /\ lastSent \in [Markets -> Status \cup {NoMarket}]
      /\ out' \in Seq(Event)
  BY <1>0, <1>1, WindowTyped DEF TypeOK
<1>3. \A m \in Markets : lastSent'[m] = IF m \in lastTracked' THEN lastSent[m] ELSE NoMarket
  BY <1>1, <1>2, RetainTyped
<1>4. Polled'
  <2>1. now' \in FirstNow..now' /\ slugs' = DiscoverySlugs(now')
    BY <1>0, <1>1
  <2> QED
    BY <1>1, <2>1 DEF Polled
<1>5. SentAreTracked'
  BY <1>3 DEF SentAreTracked
<1>6. DesiredAreSent'
  BY <1>1 DEF DesiredAreSent
<1>7. SeededOnce'
  <2> SUFFICES ASSUME NEW m \in seeded
               PROVE  IF m \in lastTracked' THEN lastSent'[m] # NoMarket ELSE m < slugs'.cur
    BY <1>1 DEF SeededOnce
  <2>1. PICK t \in FirstNow..now : slugs = DiscoverySlugs(t)
    BY <1>0 DEF Polled
  <2>2. t \in FirstNow..MaxNow /\ t <= now /\ m \in Markets /\ lastTracked = TrackedSlugs(DiscoverySlugs(t))
    BY <1>0, <1>2, <2>1 DEF Polled
  <2>3. /\ m < slugs.cur /\ m \in lastTracked' => m \in lastTracked
        /\ m \in lastTracked /\ m \notin lastTracked' => m < slugs'.cur
        /\ slugs.cur <= slugs'.cur /\ slugs.cur \in Int /\ slugs'.cur \in Int
    BY <1>0, <1>1, <2>1, <2>2, WindowsMoveOn
  <2>4. IF m \in lastTracked THEN lastSent[m] # NoMarket ELSE m < slugs.cur
    BY <1>0 DEF SeededOnce
  <2>5. m \in Int
    BY <1>0, <2>2, StartFacts, FeedAssumption DEF Markets
  <2> QED
    BY <1>3, <2>2, <2>3, <2>4, <2>5
<1>8. \A m \in Markets : \/ Ahead'[m] = Ahead[m] /\ (m \in lastTracked' \/ lastTracked' = lastTracked)
                         \/ Ahead'[m] = NoState /\ m \notin lastTracked'
  <2>1. Ahead' = Read(Ahead, out') /\ Ahead \in States
    BY <1>0, <1>1, <1>2, SendingAdds, AheadTyped
  <2>2. CASE lastTracked' = lastTracked
    <3>1. Ahead' = Ahead
      BY <1>1, <2>1, <2>2, ReadNothing
    <3> QED
      BY <2>2, <3>1
  <2>3. CASE lastTracked' # lastTracked
    <3>1. Ahead' = ApplyEvent(Ahead, [kind |-> "tracked", slugs |-> lastTracked'])
      <4> DEFINE e == [kind |-> "tracked", slugs |-> lastTracked']
      <4>1. out' = <<e>>
        BY <1>1, <2>3
      <4> HIDE DEF e
      <4>2. Ahead' = ApplyEvent(Ahead, e)
        BY <2>1, <4>1, ReadOne
      <4> QED
        BY <4>2 DEF e
    <3> QED
      BY <1>2, <2>1, <3>1, AppliedTracked
  <2> QED
    BY <2>2, <2>3
<1>9. IdentitiesAreCurrent'
  <2> SUFFICES ASSUME NEW m \in Markets
               PROVE  /\ Ahead'[m].status = IF m \in lastTracked' THEN lastSent'[m] ELSE NoMarket
                      /\ m \in seeded' /\ Known(Ahead'[m]) => Ahead'[m].tick
    BY DEF IdentitiesAreCurrent
  <2>1. /\ Ahead[m].status = IF m \in lastTracked THEN lastSent[m] ELSE NoMarket
        /\ m \in seeded /\ Known(Ahead[m]) => Ahead[m].tick
    BY DEF IdentityInv, IdentitiesAreCurrent
  <2>2. NoState.status = NoMarket /\ ~Known(NoState)
    BY DEF NoState, NewMarket, Known
  <2>3. m \notin lastTracked => lastSent[m] = NoMarket
    BY <1>0 DEF SentAreTracked
  <2>4. CASE Ahead'[m] = Ahead[m] /\ (m \in lastTracked' \/ lastTracked' = lastTracked)
    BY <1>1, <1>3, <2>1, <2>3, <2>4
  <2>5. CASE Ahead'[m] = NoState /\ m \notin lastTracked'
    BY <2>2, <2>5
  <2> QED
    BY <1>8, <2>4, <2>5
<1> QED
  BY <1>4, <1>5, <1>6, <1>7, <1>9 DEF IdentityInv

(* An identity is announced, and remembered as announced.                  *)
LEMMA TakeIdentities ==
  ASSUME IdentityInv, NEW m \in lastTracked, NEW fetch, TakeIdentity(m, fetch), out = <<>>,
         UNCHANGED <<now, slugs, lastTracked, seeded, events, markets>>
  PROVE  /\ SentAreTracked' /\ SeededOnce' /\ IdentitiesAreCurrent'
         /\ Identity(m, fetch) # NoMarket => lastSent'[m] # NoMarket
         /\ \A n \in Markets : lastSent[n] # NoMarket => lastSent'[n] # NoMarket
<1>0. TypeOK /\ m \in Markets /\ lastSent \in [Markets -> Status \cup {NoMarket}]
      /\ seeded \subseteq Markets
  BY DEF IdentityInv, TypeOK
<1>1. /\ cache' \in [Markets -> Status \cup {NoMarket}]
      /\ lastSent' \in [Markets -> Status \cup {NoMarket}]
      /\ out' \in Seq(Event)
      /\ \/ UNCHANGED <<lastSent, out>> /\ Identity(m, fetch) \in {NoMarket, lastSent[m]}
         \/ \E e \in Event : /\ e.kind = "discovered" /\ e.slug = m
                             /\ e.status \in Status
                             /\ lastSent' = [lastSent EXCEPT ![m] = e.status]
                             /\ out' = <<e>>
  BY <1>0, TakeIdentityData
<1>2. Ahead' = Read(Ahead, out') /\ Ahead \in States
  BY <1>0, <1>1, SendingAdds, AheadTyped
<1>3. CASE UNCHANGED <<lastSent, out>> /\ Identity(m, fetch) \in {NoMarket, lastSent[m]}
  <2>1. Ahead' = Ahead
    BY <1>2, <1>3, ReadNothing
  <2> QED
    BY <1>3, <2>1 DEF IdentityInv, SentAreTracked, SeededOnce, IdentitiesAreCurrent
<1>4. CASE \E e \in Event : /\ e.kind = "discovered" /\ e.slug = m
                            /\ e.status \in Status
                            /\ lastSent' = [lastSent EXCEPT ![m] = e.status]
                            /\ out' = <<e>>
  <2>1. PICK e \in Event : /\ e.kind = "discovered" /\ e.slug = m
                           /\ e.status \in Status
                           /\ lastSent' = [lastSent EXCEPT ![m] = e.status]
                           /\ out' = <<e>>
    BY <1>4
  <2>2. Ahead' = ApplyEvent(Ahead, e)
    BY <1>2, <2>1, ReadOne
  <2>3. e.status # NoMarket
    BY <2>1, StatusesDiffer
  <2>4. \A n \in Markets : lastSent'[n] = IF n = m THEN e.status ELSE lastSent[n]
    BY <1>0, <2>1
  <2>5. SentAreTracked'
    BY <2>4 DEF IdentityInv, SentAreTracked
  <2>6. SeededOnce'
    BY <1>0, <2>3, <2>4 DEF IdentityInv, SeededOnce
  <2>7. IdentitiesAreCurrent'
    <3> SUFFICES ASSUME NEW n \in Markets
                 PROVE  /\ Ahead'[n].status = IF n \in lastTracked' THEN lastSent'[n] ELSE NoMarket
                        /\ n \in seeded' /\ Known(Ahead'[n]) => Ahead'[n].tick
      BY DEF IdentitiesAreCurrent
    <3>1. /\ Ahead[n].status = IF n \in lastTracked THEN lastSent[n] ELSE NoMarket
          /\ n \in seeded /\ Known(Ahead[n]) => Ahead[n].tick
      BY DEF IdentityInv, IdentitiesAreCurrent
    <3>2. /\ n # e.slug => ApplyEvent(Ahead, e)[n] = Ahead[n]
          /\ ApplyEvent(Ahead, e)[e.slug].status = e.status
          /\ Known(Ahead[e.slug]) => ApplyEvent(Ahead, e)[e.slug].tick = Ahead[e.slug].tick
      BY <1>2, <2>1, AppliedIdentity
    <3>3. CASE n # m
      BY <2>1, <2>2, <2>4, <3>1, <3>2, <3>3
    <3>4. CASE n = m
      <4>1. Ahead'[n].status = e.status
        BY <2>1, <2>2, <3>2, <3>4
      <4>2. n \in seeded => Known(Ahead[n])
        BY <3>1, <3>4 DEF IdentityInv, SeededOnce, Known
      <4>3. n \in seeded => Ahead'[n].tick
        BY <2>1, <2>2, <3>1, <3>2, <3>4, <4>2
      <4> QED
        BY <2>4, <3>4, <4>1, <4>3
    <3> QED
      BY <3>3, <3>4
  <2> QED
    BY <1>0, <2>3, <2>4, <2>5, <2>6, <2>7
<1> QED
  BY <1>1, <1>3, <1>4

(* Outside of the wait what is tracked is the window.                      *)
LEMMA WindowTracked ==
  ASSUME Polled, pc # "wait"
  PROVE  lastTracked = TrackedSlugs(slugs)
  BY DEF Polled

LEMMA FetchIdentities ==
  ASSUME IdentityInv, TypeOK', FetchCurrent \/ FetchPrevious
  PROVE  IdentityInv'
<1>0. TypeOK /\ Polled /\ SentAreTracked /\ DesiredAreSent /\ SeededOnce
  BY DEF IdentityInv
<1>1. /\ out = <<>> /\ UNCHANGED <<now, slugs, lastTracked, seeded, events, markets>>
      /\ pc \in {"cur", "next", "prev"} /\ pc' # "wait"
  BY DEF FetchCurrent, FetchPrevious
<1>2. lastTracked = TrackedSlugs(slugs)
  BY <1>0, <1>1, WindowTracked
<1>3. Polled'
  BY <1>0, <1>1, <1>2 DEF Polled
<1>4. CASE FetchCurrent
  <2>1. slugs[pc] \in lastTracked /\ pc \in {"cur", "next"} /\ TakeIdentity(slugs[pc], TRUE)
        /\ desired' = IF Identity(slugs[pc], TRUE) = NoMarket THEN desired ELSE desired \cup {slugs[pc]}
    BY <1>2, <1>4 DEF FetchCurrent, TrackedSlugs
  <2>2. /\ SentAreTracked' /\ SeededOnce' /\ IdentitiesAreCurrent'
        /\ Identity(slugs[pc], TRUE) # NoMarket => lastSent'[slugs[pc]] # NoMarket
        /\ \A n \in Markets : lastSent[n] # NoMarket => lastSent'[n] # NoMarket
    BY <1>1, <2>1, TakeIdentities
  <2>3. desired \subseteq Markets
    BY <1>0 DEF TypeOK
  <2>4. DesiredAreSent'
    <3> SUFFICES ASSUME NEW n \in desired' PROVE n \in lastTracked' /\ lastSent'[n] # NoMarket
      BY DEF DesiredAreSent
    <3>1. CASE n \in desired
      BY <1>0, <1>1, <2>2, <2>3, <3>1 DEF DesiredAreSent
    <3>2. CASE n = slugs[pc] /\ Identity(slugs[pc], TRUE) # NoMarket
      BY <1>1, <2>1, <2>2, <3>2
    <3> QED
      BY <2>1, <3>1, <3>2
  <2> QED
    BY <1>3, <2>2, <2>4 DEF IdentityInv
<1>5. CASE FetchPrevious
  <2>1. desired' = desired /\ desired \subseteq Markets
    BY <1>0, <1>5 DEF FetchPrevious, TypeOK
  <2>2. CASE UNCHANGED <<cache, lastSent, out>>
    <3>1. Ahead' = Ahead
      BY <1>1, <2>2, AheadIs
    <3> QED
      BY <1>0, <1>1, <1>3, <2>1, <2>2, <3>1
      DEF IdentityInv, SentAreTracked, SeededOnce, DesiredAreSent, IdentitiesAreCurrent
  <2>3. CASE \E m \in slugs.prev : TakeIdentity(m, cache[m] # "closed")
    <3>1. PICK m \in slugs.prev : TakeIdentity(m, cache[m] # "closed")
      BY <2>3
    <3>2. m \in lastTracked
      BY <1>2 DEF TrackedSlugs
    <3>3. /\ SentAreTracked' /\ SeededOnce' /\ IdentitiesAreCurrent'
          /\ \A n \in Markets : lastSent[n] # NoMarket => lastSent'[n] # NoMarket
      BY <1>1, <3>1, <3>2, TakeIdentities
    <3>4. DesiredAreSent'
      BY <1>0, <1>1, <2>1, <3>3 DEF DesiredAreSent
    <3> QED
      BY <1>3, <3>3, <3>4 DEF IdentityInv
  <2> QED
    BY <1>5, <2>2, <2>3 DEF FetchPrevious
<1> QED
  BY <1>4, <1>5

(* The tick sizes that are sent reach markets that have been announced.    *)
LEMMA SeedIdentities ==
  ASSUME IdentityInv, TypeOK', NEW answered \in SUBSET Markets, SeedTicks(answered)
  PROVE  IdentityInv'
<1>0. TypeOK /\ Polled /\ SentAreTracked /\ DesiredAreSent /\ SeededOnce
  BY DEF IdentityInv
<1>1. /\ pc = "seed" /\ pc' = "unsub" /\ out = <<>> /\ answered \subseteq desired
      /\ seeded' = seeded \cup answered
      /\ out' = SetToSeq({[kind |-> "seed", slug |-> m] : m \in answered})
      /\ UNCHANGED <<now, slugs, desired, lastTracked, lastSent, events, markets>>
  BY DEF SeedTicks
<1>2. \A m \in answered : m \in lastTracked /\ lastSent[m] # NoMarket
  BY <1>0, <1>1 DEF DesiredAreSent
<1>3. Polled' /\ SentAreTracked' /\ DesiredAreSent' /\ SeededOnce'
  BY <1>0, <1>1, <1>2 DEF Polled, SentAreTracked, DesiredAreSent, SeededOnce
<1>4. Ahead' = Read(Ahead, out') /\ Ahead \in States
  BY <1>0, <1>1, SeedsListed, SendingAdds, AheadTyped
<1>5. \A m \in answered : Known(Ahead[m])
  BY <1>2 DEF IdentityInv, IdentitiesAreCurrent, Known
<1>6. \A m \in Markets : /\ Ahead'[m].status = Ahead[m].status
                         /\ Ahead[m].tick => Ahead'[m].tick
                         /\ m \in answered => Ahead'[m].tick
  BY <1>1, <1>4, <1>5, ReadSeeds
<1>7. IdentitiesAreCurrent'
  BY <1>1, <1>6 DEF IdentityInv, IdentitiesAreCurrent, Known
<1> QED
  BY <1>3, <1>7 DEF IdentityInv

(* The other steps of discovery, and those of the rest of the program.     *)
LEMMA OtherIdentities ==
  ASSUME IdentityInv, TypeOK', Ahead' = Ahead,
         UNCHANGED <<slugs, desired, lastTracked, lastSent, seeded>>,
         now' = now \/ Clock, pc' = pc \/ (pc # "wait" /\ pc' # "wait") \/ Subscribe
  PROVE  IdentityInv'
<1>0. TypeOK /\ Polled /\ SentAreTracked /\ DesiredAreSent /\ SeededOnce
  BY DEF IdentityInv
<1>1. now \in FirstNow..now' /\ FirstNow..now \subseteq FirstNow..now'
  <2>1. now \in FirstNow..MaxNow /\ FirstNow \in Nat /\ MaxNow \in Nat
    BY <1>0, FeedAssumption DEF TypeOK
  <2> QED
    BY <2>1 DEF Clock
<1>2. Polled'
  <2>1. PICK t \in FirstNow..now : slugs = DiscoverySlugs(t)
    BY <1>0 DEF Polled
  <2>2. t \in FirstNow..now' /\ slugs' = DiscoverySlugs(t)
    BY <1>1, <2>1
  <2>3. \/ lastTracked = TrackedSlugs(slugs)
        \/ lastTracked = {} /\ pc = "wait" /\ seeded = {}
    BY <1>0 DEF Polled
  <2>4. pc = "wait" => pc' = "wait"
    BY DEF Subscribe
  <2> QED
    BY <2>2, <2>3, <2>4 DEF Polled
<1>3. SentAreTracked' /\ SeededOnce' /\ IdentitiesAreCurrent'
  BY <1>0 DEF IdentityInv, SentAreTracked, SeededOnce, IdentitiesAreCurrent
<1>4. DesiredAreSent'
  BY <1>0 DEF DesiredAreSent, Subscribe
<1> QED
  BY <1>2, <1>3, <1>4 DEF IdentityInv

LEMMA NextIdentities ==
  ASSUME IdentityInv, [Next]_vars
  PROVE  IdentityInv'
<1>0. TypeOK /\ TypeOK'
  BY NextTyped DEF IdentityInv
<1>a. ASSUME UNCHANGED <<pass, kept, events, markets>>, now' = now \/ Clock PROVE IdentityInv'
  <2>1. Ahead' = Ahead
    BY <1>a, AheadIs DEF pass
  <2> QED
    BY <1>0, <1>a, <2>1, OtherIdentities DEF pass, kept
<1>1. ASSUME Send \/ Apply PROVE IdentityInv'
  <2>1. Ahead' = Ahead
    BY <1>0, <1>1, ReadingKeepsAhead
  <2> QED
    BY <1>0, <1>1, <2>1, OtherIdentities DEF Send, Apply, pass, kept
<1>2. ASSUME FetchFails \/ Unsubscribe \/ Subscribe PROVE IdentityInv'
  <2>1. UNCHANGED <<events, out, markets, now, slugs, desired, lastTracked, lastSent, seeded>>
    BY <1>2 DEF FetchFails, Unsubscribe, Subscribe, kept
  <2>2. Ahead' = Ahead
    BY <2>1, AheadIs
  <2>3. (pc # "wait" /\ pc' # "wait") \/ Subscribe
    BY <1>2 DEF FetchFails, Unsubscribe
  <2> QED
    BY <1>0, <2>1, <2>2, <2>3, OtherIdentities
<1>3. ASSUME Connect \/ ConnectFails \/ Break \/ SessionEnds \/ BackoffOver \/ SocketEnds
             \/ HandleCommand \/ QueueCommand
      PROVE  IdentityInv'
  BY <1>a, <1>3
  DEF Connect, ConnectFails, Break, SessionEnds, BackoffOver, SocketEnds, HandleCommand, QueueCommand
<1>4. ASSUME Clock PROVE IdentityInv'
  BY <1>a, <1>4 DEF Clock
<1>5. ASSUME NEW m \in Markets, GammaChanges(m) PROVE IdentityInv'
  BY <1>a, <1>5 DEF GammaChanges
<1>6. ASSUME UNCHANGED vars PROVE IdentityInv'
  BY <1>a, <1>6 DEF vars
<1> QED
  BY <1>0, <1>1, <1>2, <1>3, <1>4, <1>5, <1>6, PollIdentities, FetchIdentities, SeedIdentities
  DEF Next, DiscoveryStep, SocketStep

(***************************************************************************)
(* IdentitiesAreCurrent: whatever the capacity of the channel and however  *)
(* far StateManager lags, what it will have once it has read its events is *)
(* exactly the tracked markets with the identities announced last, and the *)
(* tick sizes that are sent only once are there.  It rests on the windows  *)
(* of the clock: a market that has been dropped, whose seed would not be   *)
(* sent again, is never tracked again.                                     *)
(***************************************************************************)
THEOREM IdentitiesStayCurrent == Spec => []IdentitiesAreCurrent
<1>1. IdentityInv => IdentitiesAreCurrent
  BY DEF IdentityInv
<1>2. IdentityInv /\ [Next]_vars => IdentityInv'
  BY NextIdentities
<1> QED
  BY <1>1, <1>2, InitIdentities, PTL DEF Spec
=============================================================================
