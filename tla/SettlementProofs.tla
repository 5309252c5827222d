-------------------------- MODULE SettlementProofs --------------------------
(***************************************************************************)
(* Proofs about Settlement, for every set of markets and all its limits.   *)
(***************************************************************************)
EXTENDS SettlementProperties, SequenceTheorems, FiniteSetTheorems, TLAPS

(* What StateManager will hold of market p, once it has read its events.   *)
BookOp(p, h, e) == IF e.market = p THEN Applied(h, e) ELSE h

Book   == INSTANCE FoldTheorems WITH Op <- BookOp
Merges == INSTANCE FoldTheorems WITH Op <- MergeOne
Redeems == INSTANCE FoldTheorems WITH Op <- RedeemOne

Job == [kind : Kinds, market : Markets, sets : Nat, mined : BOOLEAN]
Engine == [last : [Kinds -> [Markets -> Nat]], ops : Seq(Nat), spent : Seq(Nat),
           queue : Seq(Requests)]

-----------------------------------------------------------------------------
(* Sequences.                                                              *)

LEMMA FunctionIsSeq ==
  ASSUME NEW n \in Nat, NEW S, NEW f \in [1..n -> S]
  PROVE  f \in Seq(S) /\ Len(f) = n
<1>1. f \in Seq(S)
  BY SeqDef
<1>2. DOMAIN f = 1..Len(f) /\ Len(f) \in Nat
  BY <1>1, LenProperties
<1>3. DOMAIN f = 1..n
  OBVIOUS
<1> QED
  BY <1>1, <1>2, <1>3

(* What is recent is a suffix, and begins with a recent age.               *)
LEMMA RecentSuffix ==
  ASSUME NEW ages \in Seq(Nat), NEW limit \in Int
  PROVE  /\ Recent(ages, limit) \in Seq(Nat)
         /\ \E k \in 1..(Len(ages) + 1) :
              /\ Len(Recent(ages, limit)) = Len(ages) + 1 - k
              /\ \A i \in 1..(Len(ages) + 1 - k) : Recent(ages, limit)[i] = ages[k - 1 + i]
              /\ \A i \in 1..(k - 1) : ages[i] > limit
              /\ k <= Len(ages) => ages[k] <= limit
<1> DEFINE kept == {i \in DOMAIN ages : ages[i] <= limit}
           n == Len(ages)
<1>1. n \in Nat /\ DOMAIN ages = 1..n /\ \A i \in 1..n : ages[i] \in Nat
  OBVIOUS
<1>2. CASE kept = {}
  <2>1. Recent(ages, limit) = <<>>
    BY <1>2 DEF Recent
  <2>2. \A i \in 1..n : ages[i] > limit
    BY <1>1, <1>2
  <2>3. n + 1 \in 1..(n + 1) /\ n + 1 - (n + 1) = 0 /\ (n + 1) - 1 = n /\ ~(n + 1 <= n)
    BY <1>1
  <2> HIDE DEF n, kept
  <2>4. /\ Len(<<>>) = 0 /\ <<>> \in Seq(Nat)
        /\ \A i \in 1..0 : <<>>[i] = ages[(n + 1) - 1 + i]
    OBVIOUS
  <2> QED
    BY <2>1, <2>2, <2>3, <2>4 DEF n
<1>3. CASE kept # {}
  <2> DEFINE k == CHOOSE i \in kept : \A j \in kept : i <= j
  <2>1. \E i \in kept : \A j \in kept : i <= j
    <3>1. kept \subseteq Nat
      BY <1>1
    <3> HIDE DEF kept
    <3> QED
      BY <1>3, <3>1, Book!SmallestNat
  <2>2. k \in kept /\ \A j \in kept : k <= j
    <3> HIDE DEF kept
    <3> QED
      BY <2>1
  <2>3. Recent(ages, limit) = SubSeq(ages, k, n)
    BY <1>3 DEF Recent
  <2>4. k \in 1..n /\ ages[k] <= limit
    BY <1>1, <2>2
  <2>5. \A i \in 1..(k - 1) : ages[i] > limit
    <3> TAKE i \in 1..(k - 1)
    <3>1. i \in 1..n /\ i < k /\ k \in Nat /\ i \in Nat
      <4> HIDE DEF kept, k
      <4> QED
        BY <1>1, <2>4
    <3>2. i \notin kept
      <4> HIDE DEF kept, k
      <4> QED
        BY <2>2, <3>1
    <3>3. ages[i] \in Nat /\ ~(ages[i] <= limit)
      BY <1>1, <3>1, <3>2
    <3> QED
      BY <3>3
  <2> HIDE DEF k, kept
  <2>6. /\ SubSeq(ages, k, n) \in Seq(Nat)
        /\ Len(SubSeq(ages, k, n)) = n + 1 - k
        /\ \A i \in 1..(n + 1 - k) : SubSeq(ages, k, n)[i] = ages[k - 1 + i]
    BY <1>1, <2>4
  <2>7. k \in 1..(n + 1)
    BY <1>1, <2>4
  <2> QED
    BY <2>3, <2>4, <2>5, <2>6, <2>7
<1> QED
  BY <1>2, <1>3

-----------------------------------------------------------------------------
(* The engine.                                                             *)

LEMMA Requested ==
  ASSUME NEW e \in Engine, NEW kind \in Kinds, NEW m \in Markets, NEW sets \in Nat, NEW lag \in Nat
  PROVE  /\ Request(e, kind, m, sets, lag) \in Engine
         /\ Request(e, kind, m, sets, lag).ops = Append(e.ops, lag)
         /\ Request(e, kind, m, sets, lag).spent = Append(e.spent, 0)
<1> DEFINE r == [kind |-> kind, market |-> m, sets |-> sets]
           last1 == [e.last EXCEPT ![kind][m] = lag]
           queue1 == IF Len(e.queue) = QueueCap THEN e.queue ELSE Append(e.queue, r)
<1>1. Request(e, kind, m, sets, lag) = [last |-> last1, ops |-> Append(e.ops, lag),
                                        spent |-> Append(e.spent, 0), queue |-> queue1]
  BY DEF Request, Engine
<1>2. r \in Requests
  BY DEF Requests
<1>3. e.last \in [Kinds -> [Markets -> Nat]] /\ e.queue \in Seq(Requests)
      /\ e.ops \in Seq(Nat) /\ e.spent \in Seq(Nat)
  BY DEF Engine
<1>4. last1 \in [Kinds -> [Markets -> Nat]]
  BY <1>3
<1>5. queue1 \in Seq(Requests)
  <2> HIDE DEF r
  <2> QED
    BY <1>2, <1>3
<1>6. Append(e.ops, lag) \in Seq(Nat) /\ Append(e.spent, 0) \in Seq(Nat)
  BY <1>3
<1> HIDE DEF last1, queue1
<1> QED
  BY <1>1, <1>4, <1>5, <1>6 DEF Engine

Seen(seen) == seen \in [Markets -> Tick \cup {NoTick}]

LEMMA SetsTyped ==
  ASSUME NEW seen, Seen(seen), NEW m \in Markets, seen[m] # NoTick
  PROVE  FullSets(seen[m].inv) \in Nat
  BY DEF Seen, Tick, Holding, FullSets

(* Whatever holds of the engine, and of every request while the budget     *)
(* lasts, holds of the engine after a tick.                                *)
LEMMA DecideKeeps ==
  ASSUME TypeOK, NEW seen, Seen(seen), NEW order \in Orders, NEW fast, NEW lag \in Nat,
         Decide(seen, order, fast, lag),
         NEW T \in SUBSET Engine,
         [last |-> last, ops |-> PruneOps(ops, lag), spent |-> spent, queue |-> queue] \in T,
         \A e \in T, kind \in Kinds, m \in Markets, sets \in Nat :
           Len(e.ops) < MaxOps => Request(e, kind, m, sets, lag) \in T
  PROVE  [last |-> last', ops |-> ops', spent |-> spent', queue |-> queue'] \in T
<1> DEFINE view == [seen |-> seen, fast |-> fast, lag |-> lag]
           start == [last |-> last, ops |-> PruneOps(ops, lag), spent |-> spent, queue |-> queue]
           merged == Merges!Fold(view, start, order)
           end == Redeems!Fold(view, merged, order)
           n == Cardinality(Markets)
<1>1. n \in Nat
  BY SettlementAssumption, FS_CardinalityType
<1>2. DOMAIN order = 1..n /\ \A i \in 1..n : order[i] \in Markets
  BY DEF Orders, SetToSeqs
<1> HIDE DEF n
<1>3. last' = end.last /\ ops' = end.ops /\ spent' = end.spent /\ queue' = end.queue
  BY DEF Decide, Merges!Fold, Redeems!Fold, FoldLeft, MapThenFoldSet, Max,
         Merges!FoldLeft, Merges!MapThenFoldSet, Merges!Max,
         Redeems!FoldLeft, Redeems!MapThenFoldSet, Redeems!Max
<1>4. view.seen = seen /\ view.fast = fast /\ view.lag = lag
  OBVIOUS
<1> HIDE DEF view, start
<1>5. start \in T
  BY DEF start
<1>6. ASSUME NEW e \in T, NEW i \in 1..n
      PROVE  MergeOne(view, e, order[i]) \in T /\ RedeemOne(view, e, order[i]) \in T
  <2> DEFINE m == order[i]
  <2>1. m \in Markets
    BY <1>2
  <2> HIDE DEF m
  <2>2. MergeOne(view, e, m) \in T
    <3>1. CASE MergeOne(view, e, m) = e
      BY <3>1
    <3>2. CASE /\ seen[m] # NoTick /\ Len(e.ops) < MaxOps
               /\ MergeOne(view, e, m) = Request(e, "merge", m, FullSets(seen[m].inv), lag)
      BY <2>1, <3>2, SetsTyped DEF Kinds
    <3> QED
      BY <1>4, <3>1, <3>2 DEF MergeOne, MayAct
  <2>3. RedeemOne(view, e, m) \in T
    <3>1. CASE RedeemOne(view, e, m) = e
      BY <3>1
    <3>2. CASE Len(e.ops) < MaxOps /\ RedeemOne(view, e, m) = Request(e, "redeem", m, 0, lag)
      BY <2>1, <3>2 DEF Kinds
    <3> QED
      BY <1>4, <3>1, <3>2 DEF RedeemOne, MayAct
  <2> QED
    BY <2>2, <2>3 DEF m
<1>7. merged \in T
  BY <1>1, <1>2, <1>5, <1>6, Merges!FoldStaysIn
<1> HIDE DEF merged
<1>8. end \in T
  BY <1>1, <1>2, <1>6, <1>7, Redeems!FoldStaysIn
<1> HIDE DEF end
<1>9. end \in Engine
  BY <1>8
<1>10. end = [last |-> end.last, ops |-> end.ops, spent |-> end.spent, queue |-> end.queue]
  BY <1>9 DEF Engine
<1> QED
  BY <1>3, <1>8, <1>10

-----------------------------------------------------------------------------
(* Types.                                                                  *)

Jobs == {Idle} \cup Job

LEMMA WorkerIs ==
  ASSUME worker \in Jobs
  PROVE  /\ worker # Idle => worker \in Job
         /\ worker.mined => worker \in Job
         /\ ~Idle.mined
  BY DEF Jobs, Idle

LEMMA EventParts ==
  ASSUME NEW e \in Event
  PROVE  /\ e.market \in Markets /\ e.kind \in {"fill", "merge", "redeem"}
         /\ e.kind = "fill" => e.token \in {"up", "down"}
         /\ e.kind # "fill" => e.sets \in Nat
  BY DEF Event, Requests, Kinds

LEMMA AppliedTyped ==
  ASSUME NEW h \in Holding, NEW e \in Event
  PROVE  Applied(h, e) \in Holding
<1>1. CASE e.kind = "fill"
  <2>1. Applied(h, e) = [h EXCEPT ![e.token] = @ + 1] /\ e.token \in {"up", "down"}
    BY <1>1, EventParts DEF Applied
  <2> QED
    BY <2>1 DEF Holding
<1>2. CASE e.kind = "merge"
  <2>1. Applied(h, e) = MinusOrNone(h, e.sets) /\ e.sets \in Nat
    BY <1>2, EventParts DEF Applied
  <2> QED
    BY <2>1 DEF Holding, MinusOrNone
<1>3. CASE e.kind = "redeem"
  <2>1. Applied(h, e) = Empty
    BY <1>3 DEF Applied
  <2> QED
    BY <2>1 DEF Holding, Empty
<1> QED
  BY <1>1, <1>2, <1>3, EventParts

MoneyTyped ==
  /\ chain \in [Markets -> Holding] /\ inv \in [Markets -> Holding] /\ tracked \subseteq Markets
  /\ stage \in [Markets -> {"open", "closed", "resolved"}]
  /\ events \in Seq(Event)
  /\ fills \in Nat /\ faults \in Nat /\ lost \in BOOLEAN

EngineTyped ==
  /\ latest \in [Markets -> Tick \cup {NoTick}]
  /\ gate \in [Markets -> [merge : BOOLEAN, redeem : BOOLEAN]]
  /\ last \in [Kinds -> [Markets -> Nat]] /\ ops \in Seq(Nat) /\ spent \in Seq(Nat)
  /\ queue \in Seq(Requests)

WorkerTyped ==
  /\ worker \in Jobs
  /\ cache \in [Kinds -> [Markets -> Nat \cup {Yes}]]

WatchdogTyped == since \in [Markets -> Nat \cup {Never}] /\ fatal \in BOOLEAN

LEMMA TypeParts == TypeOK <=> MoneyTyped /\ EngineTyped /\ WorkerTyped /\ WatchdogTyped
  BY DEF TypeOK, MoneyTyped, EngineTyped, WorkerTyped, WatchdogTyped, Jobs, Job

LEMMA InitTyped == Init => TypeOK
<1> SUFFICES ASSUME Init PROVE TypeOK
  OBVIOUS
<1>1. MoneyTyped
  <2>1. chain \in [Markets -> Holding] /\ inv \in [Markets -> Holding]
    BY SettlementAssumption DEF Init, Holding
  <2>2. lost \in BOOLEAN
    BY DEF Init
  <2>3. /\ tracked \subseteq Markets /\ stage \in [Markets -> {"open", "closed", "resolved"}]
        /\ events \in Seq(Event) /\ fills \in Nat /\ faults \in Nat
    BY DEF Init
  <2> QED
    BY <2>1, <2>2, <2>3 DEF MoneyTyped
<1>2. EngineTyped
  <2>1. LongAgo \in Nat
    BY SettlementAssumption DEF LongAgo
  <2> QED
    BY <2>1 DEF Init, EngineTyped
<1>3. WorkerTyped
  BY SettlementAssumption DEF Init, WorkerTyped, Jobs
<1>4. WatchdogTyped
  BY DEF Init, WatchdogTyped
<1> QED
  BY <1>1, <1>2, <1>3, <1>4, TypeParts

LEMMA HitTyped ==
  ASSUME faults \in Nat, NEW kind, Hit(kind)
  PROVE  /\ faults' \in Nat /\ lost' \in BOOLEAN
         /\ lost => lost'
         /\ kind \in {"fill", "report"} => lost'
<1>1. faults' = faults + 1 /\ lost' = (lost \/ kind \in {"fill", "report"})
  BY DEF Hit
<1>2. faults' \in Nat
  BY <1>1
<1>3. lost' \in BOOLEAN
  BY <1>1, Zenon
<1>4. lost' <=> (lost \/ kind \in {"fill", "report"})
  BY <1>1
<1> QED
  BY <1>2, <1>3, <1>4

LEMMA DecideTyped ==
  ASSUME TypeOK, NEW seen, Seen(seen), NEW order \in Orders, NEW fast, NEW lag \in Nat,
         Decide(seen, order, fast, lag)
  PROVE  /\ last' \in [Kinds -> [Markets -> Nat]] /\ ops' \in Seq(Nat) /\ spent' \in Seq(Nat)
         /\ queue' \in Seq(Requests)
<1>1. EngineTyped
  BY TypeParts
<1>2. PruneOps(ops, lag) \in Seq(Nat)
  <2>1. ops \in Seq(Nat) /\ Minute + lag \in Int
    BY <1>1, SettlementAssumption DEF EngineTyped
  <2> QED
    BY <2>1, RecentSuffix DEF PruneOps
<1>3. [last |-> last, ops |-> PruneOps(ops, lag), spent |-> spent, queue |-> queue] \in Engine
  BY <1>1, <1>2 DEF EngineTyped, Engine
<1>4. \A e \in Engine, kind \in Kinds, m \in Markets, sets \in Nat :
        Len(e.ops) < MaxOps => Request(e, kind, m, sets, lag) \in Engine
  BY Requested
<1>5. [last |-> last', ops |-> ops', spent |-> spent', queue |-> queue'] \in Engine
  BY <1>3, <1>4, DecideKeeps
<1> DEFINE l == last'
           o == ops'
           s == spent'
           q == queue'
<1>6. [last |-> l, ops |-> o, spent |-> s, queue |-> q] \in Engine
  BY <1>5
<1> HIDE DEF l, o, s, q
<1>7. l \in [Kinds -> [Markets -> Nat]] /\ o \in Seq(Nat) /\ s \in Seq(Nat) /\ q \in Seq(Requests)
  BY <1>6 DEF Engine
<1> QED
  BY <1>7 DEF l, o, s, q

LEMMA OlderTyped ==
  /\ \A age \in Nat, limit \in Nat : Older(age, limit) \in Nat /\ Older(age, limit) <= age + 1
  /\ \A limit : Older(Yes, limit) = Yes /\ Older(Never, limit) = Never
  /\ \A age \in Nat \cup {Yes}, limit \in Nat : Older(age, limit) = Yes => age = Yes
  BY DEF Older, Yes, Never

(* The ages of a sequence, older.                                          *)
LEMMA AgedSeqs ==
  ASSUME ops \in Seq(Nat), spent \in Seq(Nat)
  PROVE  LET o == [i \in DOMAIN ops |-> Older(ops[i], Minute + MaxLag + 1)]
             s == [i \in DOMAIN spent |-> spent[i] + 1]
         IN  /\ o \in Seq(Nat) /\ Len(o) = Len(ops)
             /\ s \in Seq(Nat) /\ Len(s) = Len(spent)
             /\ \A i \in 1..Len(ops) : o[i] <= ops[i] + 1
             /\ \A i \in 1..Len(spent) : s[i] = spent[i] + 1
<1> DEFINE limit == Minute + MaxLag + 1
           o == [i \in DOMAIN ops |-> Older(ops[i], limit)]
           s == [i \in DOMAIN spent |-> spent[i] + 1]
<1>1. limit \in Nat
  BY SettlementAssumption
<1>2. /\ Len(ops) \in Nat /\ DOMAIN ops = 1..Len(ops) /\ \A i \in 1..Len(ops) : ops[i] \in Nat
      /\ Len(spent) \in Nat /\ DOMAIN spent = 1..Len(spent) /\ \A i \in 1..Len(spent) : spent[i] \in Nat
  OBVIOUS
<1> HIDE DEF limit
<1>3. o \in [1..Len(ops) -> Nat] /\ \A i \in 1..Len(ops) : o[i] <= ops[i] + 1
  BY <1>1, <1>2, OlderTyped
<1>4. s \in [1..Len(spent) -> Nat] /\ \A i \in 1..Len(spent) : s[i] = spent[i] + 1
  BY <1>2
<1> HIDE DEF o, s
<1>5. o \in Seq(Nat) /\ Len(o) = Len(ops) /\ s \in Seq(Nat) /\ Len(s) = Len(spent)
  BY <1>2, <1>3, <1>4, FunctionIsSeq
<1> QED
  BY <1>3, <1>4, <1>5 DEF o, s, limit

LEMMA TickTyped ==
  ASSUME TypeOK, NEW m \in Markets,
         latest' = [latest EXCEPT ![m] = [inv |-> inv[m], closed |-> stage[m] # "open"]]
  PROVE  latest' \in [Markets -> Tick \cup {NoTick}]
<1>1. [inv |-> inv[m], closed |-> stage[m] # "open"] \in Tick
  BY DEF TypeOK, Tick
<1> QED
  BY <1>1 DEF TypeOK

LEMMA NextTyped ==
  ASSUME TypeOK, [Next]_vars
  PROVE  TypeOK'
<1>0. MoneyTyped /\ EngineTyped /\ WorkerTyped /\ WatchdogTyped
  BY TypeParts
<1> DEFINE Goal == MoneyTyped' /\ EngineTyped' /\ WorkerTyped' /\ WatchdogTyped'
<1>a. ASSUME UNCHANGED <<money, state, events, failures>> PROVE MoneyTyped'
  BY <1>0, <1>a DEF MoneyTyped, money, state, failures
<1>b. ASSUME UNCHANGED <<engine, queue>> PROVE EngineTyped'
  BY <1>0, <1>b DEF EngineTyped, engine
<1>c. ASSUME UNCHANGED onchain PROVE WorkerTyped'
  BY <1>0, <1>c DEF WorkerTyped, onchain
<1>d. ASSUME UNCHANGED watchdog PROVE WatchdogTyped'
  BY <1>0, <1>d DEF WatchdogTyped, watchdog
<1>1. ASSUME NEW m \in Markets, NEW token \in {"up", "down"}, Fill(m, token) PROVE Goal
  <2>1. chain' \in [Markets -> Holding]
    <3>1. chain' = [chain EXCEPT ![m][token] = chain[m][token] + 1] /\ chain[m] \in Holding
      BY <1>0, <1>1 DEF Fill, MoneyTyped
    <3>2. [chain[m] EXCEPT ![token] = chain[m][token] + 1] \in Holding
      BY <3>1 DEF Holding
    <3> QED
      BY <1>0, <3>1, <3>2 DEF MoneyTyped
  <2>2. events' \in Seq(Event)
    <3> DEFINE e == [kind |-> "fill", market |-> m, token |-> token]
    <3>1. e \in Event
      BY DEF Event
    <3>2. events' = events \/ events' = Append(events, e)
      BY <1>1 DEF Fill
    <3> HIDE DEF e
    <3> QED
      BY <1>0, <3>1, <3>2 DEF MoneyTyped
  <2>3. faults' \in Nat /\ lost' \in BOOLEAN
    BY <1>0, <1>1, HitTyped DEF Fill, MoneyTyped, failures
  <2>4. MoneyTyped'
    BY <1>0, <1>1, <2>1, <2>2, <2>3 DEF Fill, MoneyTyped, state
  <2> QED
    BY <1>b, <1>c, <1>d, <1>1, <2>4 DEF Fill
<1>2. ASSUME NEW m \in Markets, Ends(m) PROVE Goal
  <2>1. MoneyTyped'
    BY <1>0, <1>2 DEF Ends, MoneyTyped, state, failures
  <2> QED
    BY <1>b, <1>c, <1>d, <1>2, <2>1 DEF Ends
<1>3. ASSUME NEW m \in Markets, Drop(m) PROVE Goal
  <2>1. faults' \in Nat /\ lost' \in BOOLEAN
    BY <1>0, <1>3, HitTyped DEF Drop, MoneyTyped
  <2>2. Empty \in Holding
    BY DEF Empty, Holding
  <2>3. MoneyTyped'
    BY <1>0, <1>3, <2>1, <2>2 DEF Drop, MoneyTyped, money
  <2> QED
    BY <1>b, <1>c, <1>d, <1>3, <2>3 DEF Drop
<1>4. ASSUME Apply PROVE Goal
  <2>1. Head(events) \in Event /\ events' \in Seq(Event)
    BY <1>0, <1>4 DEF Apply, MoneyTyped
  <2>2. inv' \in [Markets -> Holding]
    <3> DEFINE e == Head(events)
    <3>1. e.market \in Markets
      BY <2>1, EventParts
    <3>2. inv' = inv \/ inv' = [inv EXCEPT ![e.market] = Applied(inv[e.market], e)]
      BY <1>4 DEF Apply
    <3>3. Applied(inv[e.market], e) \in Holding
      BY <1>0, <2>1, <3>1, AppliedTyped DEF MoneyTyped
    <3> QED
      BY <1>0, <3>1, <3>2, <3>3 DEF MoneyTyped
  <2>3. MoneyTyped'
    BY <1>0, <1>4, <2>1, <2>2 DEF Apply, MoneyTyped, money, failures
  <2> QED
    BY <1>b, <1>c, <1>d, <1>4, <2>3 DEF Apply
<1>5. ASSUME NEW order \in Orders, NEW fast \in SUBSET Markets, IntervalTick(order, fast) PROVE Goal
  <2>1. /\ last' \in [Kinds -> [Markets -> Nat]] /\ ops' \in Seq(Nat) /\ spent' \in Seq(Nat)
        /\ queue' \in Seq(Requests)
    <3>1. Seen(latest) /\ Decide(latest, order, fast, 0)
      BY <1>0, <1>5 DEF Seen, EngineTyped, IntervalTick
    <3> QED
      BY <3>1, DecideTyped
  <2>2. EngineTyped'
    BY <1>0, <1>5, <2>1 DEF IntervalTick, EngineTyped
  <2> QED
    BY <1>a, <1>c, <1>d, <1>5, <2>2 DEF IntervalTick
<1>6. ASSUME NEW order \in Orders, NEW fast \in SUBSET Markets, NEW m \in Markets,
             NEW lag \in 0..MaxLag, TakeTick(m, order, fast, lag)
      PROVE  Goal
  <2>1. latest' \in [Markets -> Tick \cup {NoTick}]
    BY <1>6, TickTyped DEF TakeTick
  <2>2. /\ last' \in [Kinds -> [Markets -> Nat]] /\ ops' \in Seq(Nat) /\ spent' \in Seq(Nat)
        /\ queue' \in Seq(Requests)
    <3>1. CASE UNCHANGED <<last, ops, spent, queue>>
      BY <1>0, <3>1 DEF EngineTyped
    <3>2. CASE Decide(latest', order, fast, lag)
      <4>1. Seen(latest') /\ lag \in Nat
        BY <2>1, SettlementAssumption DEF Seen
      <4> QED
        BY <3>2, <4>1, DecideTyped
    <3> QED
      BY <1>6, <3>1, <3>2 DEF TakeTick
  <2>3. EngineTyped'
    BY <1>0, <1>6, <2>1, <2>2 DEF TakeTick, EngineTyped
  <2> QED
    BY <1>a, <1>c, <1>d, <1>6, <2>3 DEF TakeTick
<1>7. ASSUME RefreshReadiness PROVE Goal
  <2>1. gate' \in [Markets -> [merge : BOOLEAN, redeem : BOOLEAN]]
    BY <1>0, <1>7 DEF RefreshReadiness, EngineTyped
  <2>2. EngineTyped'
    BY <1>0, <1>7, <2>1 DEF RefreshReadiness, EngineTyped
  <2> QED
    BY <1>a, <1>c, <1>d, <1>7, <2>2 DEF RefreshReadiness
<1>8. ASSUME TakeRequest PROVE Goal
  <2> DEFINE r == Head(queue)
             job == [kind |-> r.kind, market |-> r.market, sets |-> r.sets, mined |-> FALSE]
  <2>1. queue # <<>> /\ queue' = Tail(queue)
    BY <1>8 DEF TakeRequest
  <2>2. r \in Requests /\ queue' \in Seq(Requests)
    <3>1. queue \in Seq(Requests)
      BY <1>0 DEF EngineTyped
    <3> QED
      BY <2>1, <3>1
  <2>3. job \in Job /\ r.kind \in Kinds /\ r.market \in Markets
    BY <2>2 DEF Requests, Job
  <2>4. worker' \in {job, Idle}
    BY <1>8 DEF TakeRequest
  <2>5. \/ cache' = cache
        \/ cache' = [cache EXCEPT ![r.kind][r.market] = Yes]
        \/ cache' = [cache EXCEPT ![r.kind][r.market] = 0]
    BY <1>8 DEF TakeRequest
  <2>6. UNCHANGED failures \/ Hit("rpc")
    BY <1>8 DEF TakeRequest
  <2> HIDE DEF r, job
  <2>7. WorkerTyped'
    BY <1>0, <2>3, <2>4, <2>5 DEF WorkerTyped, Jobs
  <2>8. faults' \in Nat /\ lost' \in BOOLEAN
    BY <1>0, <2>6, HitTyped DEF MoneyTyped, failures
  <2>9. MoneyTyped' /\ EngineTyped'
    BY <1>0, <1>8, <2>2, <2>8 DEF TakeRequest, MoneyTyped, EngineTyped, money, state, engine
  <2> QED
    BY <1>d, <1>8, <2>7, <2>9 DEF TakeRequest
<1>9. ASSUME Mine PROVE Goal
  <2>1. worker \in Job /\ worker.market \in Markets /\ worker.sets \in Nat
    BY <1>0, <1>9, WorkerIs DEF Mine, WorkerTyped, Job
  <2>2. worker' \in Jobs
    BY <1>9, <2>1 DEF Mine, Jobs, Job
  <2>3. chain' \in [Markets -> Holding]
    <3> DEFINE m == worker.market
    <3>1. chain[m] \in Holding
      BY <1>0, <2>1 DEF MoneyTyped
    <3>2. chain' = [chain EXCEPT ![m] = IF worker.kind = "merge" THEN Minus(chain[m], worker.sets)
                                        ELSE Empty]
      BY <1>9 DEF Mine
    <3>3. worker.kind = "merge" => Minus(chain[m], worker.sets) \in Holding
      BY <1>9, <2>1, <3>1 DEF Mine, Holding, Minus, FullSets
    <3>4. Empty \in Holding
      BY DEF Empty, Holding
    <3> QED
      BY <1>0, <3>2, <3>3, <3>4 DEF MoneyTyped
  <2>4. MoneyTyped' /\ WorkerTyped'
    BY <1>0, <1>9, <2>2, <2>3 DEF Mine, MoneyTyped, WorkerTyped, state, failures
  <2> QED
    BY <1>b, <1>d, <1>9, <2>4 DEF Mine
<1>10. ASSUME Report PROVE Goal
  <2>1. worker \in Job
    BY <1>0, <1>10, WorkerIs DEF Report, WorkerTyped
  <2>2. events' \in Seq(Event)
    <3> DEFINE e == [kind |-> worker.kind, market |-> worker.market, sets |-> worker.sets]
    <3>1. e \in Event
      BY <2>1 DEF Event, Requests, Job
    <3>2. events' = events \/ events' = Append(events, e)
      BY <1>10 DEF Report
    <3> HIDE DEF e
    <3> QED
      BY <1>0, <3>1, <3>2 DEF MoneyTyped
  <2>3. faults' \in Nat /\ lost' \in BOOLEAN
    BY <1>0, <1>10, HitTyped DEF Report, MoneyTyped, failures
  <2>4. MoneyTyped' /\ WorkerTyped'
    BY <1>0, <1>10, <2>2, <2>3 DEF Report, MoneyTyped, WorkerTyped, Jobs, money, state
  <2> QED
    BY <1>b, <1>d, <1>10, <2>4 DEF Report
<1>11. ASSUME CallFails PROVE Goal
  <2>1. faults' \in Nat /\ lost' \in BOOLEAN
    BY <1>0, <1>11, HitTyped DEF CallFails, MoneyTyped, failures
  <2>2. MoneyTyped' /\ WorkerTyped'
    BY <1>0, <1>11, <2>1 DEF CallFails, MoneyTyped, WorkerTyped, Jobs, money, state
  <2> QED
    BY <1>b, <1>d, <1>11, <2>2 DEF CallFails
<1>12. ASSUME Check PROVE Goal
  <2>1. since' \in [Markets -> Nat \cup {Never}] /\ fatal' \in BOOLEAN
    BY <1>0, <1>12 DEF Check, SinceChecked, WatchdogTyped
  <2> QED
    BY <1>a, <1>b, <1>c, <1>12, <2>1 DEF Check, WatchdogTyped
<1>13. ASSUME Advance PROVE Goal
  <2>1. last' \in [Kinds -> [Markets -> Nat]]
    <3>1. LongAgo \in Nat
      BY SettlementAssumption DEF LongAgo
    <3> QED
      BY <1>0, <1>13, <3>1, OlderTyped DEF Advance, EngineTyped
  <2>2. cache' \in [Kinds -> [Markets -> Nat \cup {Yes}]]
    BY <1>0, <1>13, OlderTyped, SettlementAssumption DEF Advance, WorkerTyped
  <2>3. since' \in [Markets -> Nat \cup {Never}]
    BY <1>0, <1>13, OlderTyped, SettlementAssumption DEF Advance, WatchdogTyped
  <2>4. ops' \in Seq(Nat) /\ spent' \in Seq(Nat)
    <3> DEFINE o == [i \in DOMAIN ops |-> Older(ops[i], Minute + MaxLag + 1)]
               s == [i \in DOMAIN spent |-> spent[i] + 1]
    <3>1. o \in Seq(Nat) /\ s \in Seq(Nat)
      BY <1>0, AgedSeqs DEF EngineTyped
    <3>2. ops' = Recent(o, Minute + MaxLag) /\ spent' = Recent(s, Window - 1)
      BY <1>13 DEF Advance, PruneOps
    <3>3. Minute + MaxLag \in Int /\ Window - 1 \in Int
      BY SettlementAssumption DEF Window
    <3> HIDE DEF o, s
    <3> QED
      BY <3>1, <3>2, <3>3, RecentSuffix
  <2>5. MoneyTyped'
    BY <1>a, <1>13 DEF Advance
  <2>6. EngineTyped' /\ WorkerTyped' /\ WatchdogTyped'
    BY <1>0, <1>13, <2>1, <2>2, <2>3, <2>4 DEF Advance, EngineTyped, WorkerTyped, WatchdogTyped
  <2> QED
    BY <2>5, <2>6
<1>14. ASSUME UNCHANGED vars PROVE Goal
  BY <1>a, <1>b, <1>c, <1>d, <1>14 DEF vars
<1>15. ASSUME NEW buy \in Buys, Fill(buy[1], buy[2]) PROVE Goal
  <2>1. buy[1] \in Markets /\ buy[2] \in {"up", "down"}
    BY SettlementAssumption
  <2> QED
    BY <1>1, <1>15, <2>1
<1>16. Goal
  BY <1>2, <1>3, <1>4, <1>5, <1>6, <1>7, <1>8, <1>9, <1>10, <1>11, <1>12, <1>13, <1>14, <1>15
  DEF Next, LoopStep, WorkerStep
<1>17. (TypeOK <=> MoneyTyped /\ EngineTyped /\ WorkerTyped /\ WatchdogTyped)'
  BY TypeParts, PTL
<1> QED
  BY <1>16, <1>17

(***************************************************************************)
(* Type correctness: no merge takes more of a side than there is.          *)
(***************************************************************************)
THEOREM SettlementTyped == Spec => []TypeOK
  BY InitTyped, NextTyped, PTL DEF Spec

-----------------------------------------------------------------------------
(* The inventories and the account.                                        *)

(* A request to redeem is executed in a resolved market only, where there  *)
(* are no more fills.                                                      *)
RedeemsAreResolved ==
  /\ \A m \in Markets : cache["redeem"][m] = Yes => stage[m] = "resolved"
  /\ worker # Idle => (worker.kind = "redeem" => stage[worker.market] = "resolved")

(* What StateManager will hold of m, and what the account holds by that:   *)
(* the same, but for the report of a transaction that is mined.            *)
AheadOf(m) == FoldLeft(LAMBDA h, e : IF e.market = m THEN Applied(h, e) ELSE h, inv[m], events)

Unreported(m, ahead) ==
  IF worker.mined /\ worker.market = m
  THEN IF worker.kind = "merge" THEN Minus(ahead, worker.sets) ELSE Empty
  ELSE ahead

ChainFollowed == ~lost => \A m \in tracked : chain[m] = Unreported(m, AheadOf(m))

SettledInv == TypeOK /\ RedeemsAreResolved /\ ChainFollowed

LEMMA AheadIs ==
  ASSUME NEW m
  PROVE  /\ AheadOf(m) = Book!Fold(m, inv[m], events)
         /\ AheadOf(m)' = Book!Fold(m, inv'[m], events')
  BY DEF AheadOf, Book!Fold, BookOp, FoldLeft, MapThenFoldSet, Max,
         Book!FoldLeft, Book!MapThenFoldSet, Book!Max

LEMMA AheadTyped ==
  ASSUME TypeOK, NEW m \in Markets
  PROVE  AheadOf(m) \in Holding
<1>1. Len(events) \in Nat /\ DOMAIN events = 1..Len(events) /\ \A i \in 1..Len(events) : events[i] \in Event
  BY DEF TypeOK
<1>2. \A h \in Holding, i \in 1..Len(events) : BookOp(m, h, events[i]) \in Holding
  BY <1>1, AppliedTyped DEF BookOp
<1>3. inv[m] \in Holding
  BY DEF TypeOK
<1>4. Book!Fold(m, inv[m], events) \in Holding
  BY <1>1, <1>2, <1>3, Book!FoldStaysIn
<1> QED
  BY <1>4, AheadIs

LEMMA AheadAppended ==
  ASSUME TypeOK, NEW m, NEW e \in Event, events' = Append(events, e), inv' = inv
  PROVE  AheadOf(m)' = IF e.market = m THEN Applied(AheadOf(m), e) ELSE AheadOf(m)
<1>1. events \in Seq(Event)
  BY DEF TypeOK
<1>2. Book!Fold(m, inv[m], Append(events, e)) = BookOp(m, Book!Fold(m, inv[m], events), e)
  BY <1>1, Book!FoldAppend
<1> QED
  BY <1>2, AheadIs DEF BookOp

LEMMA AheadApplied ==
  ASSUME TypeOK, Apply, NEW m \in tracked
  PROVE  AheadOf(m)' = AheadOf(m)
<1>1. events \in Seq(Event) /\ events # <<>> /\ events' = Tail(events) /\ inv \in [Markets -> Holding]
      /\ m \in Markets
  BY DEF TypeOK, Apply
<1>2. Book!Fold(m, inv[m], events) = Book!Fold(m, BookOp(m, inv[m], Head(events)), Tail(events))
  BY <1>1, Book!FoldHead
<1>3. inv'[m] = BookOp(m, inv[m], Head(events))
  <2> DEFINE e == Head(events)
  <2>1. inv' = IF e.market \in tracked THEN [inv EXCEPT ![e.market] = Applied(inv[e.market], e)] ELSE inv
    BY DEF Apply
  <2> HIDE DEF e
  <2>2. inv'[m] = IF e.market = m THEN Applied(inv[m], e) ELSE inv[m]
    BY <1>1, <2>1
  <2> QED
    BY <2>2 DEF BookOp, e
<1> QED
  BY <1>1, <1>2, <1>3, AheadIs

(* A report does to what will be held what its transaction did.            *)
LEMMA ReportedHolding ==
  ASSUME NEW h \in Holding, NEW r \in Requests
  PROVE  Applied(h, r) \in Holding
         /\ (r.kind = "merge" /\ Minus(h, r.sets) \in Holding => Applied(h, r) = Minus(h, r.sets))
         /\ (r.kind = "redeem" => Applied(h, r) = Empty)
<1>1. r \in Event /\ r.sets \in Nat
  BY DEF Event, Requests
<1>2. CASE r.kind = "merge" /\ Minus(h, r.sets) \in Holding
  <2>1. Applied(h, r) = MinusOrNone(h, r.sets)
    BY <1>2 DEF Applied
  <2>2. h.up - r.sets \in Nat /\ h.down - r.sets \in Nat /\ h.up \in Nat /\ h.down \in Nat
    BY <1>2 DEF Minus, Holding
  <2>3. MinusOrNone(h, r.sets) = Minus(h, r.sets)
    BY <1>1, <2>2 DEF MinusOrNone, Minus
  <2> QED
    BY <1>1, <1>2, <2>1, <2>3, AppliedTyped
<1>3. CASE r.kind = "redeem"
  BY <1>1, <1>3, AppliedTyped DEF Applied
<1> QED
  BY <1>1, <1>2, <1>3, AppliedTyped

(* A fill that comes between a merge and its report adds to both.          *)
LEMMA FilledHolding ==
  ASSUME NEW h \in Holding, NEW m \in Markets, NEW token \in {"up", "down"}
  PROVE  LET e == [kind |-> "fill", market |-> m, token |-> token]
         IN  e \in Event /\ Applied(h, e) = [h EXCEPT ![token] = h[token] + 1]
<1> DEFINE e == [kind |-> "fill", market |-> m, token |-> token]
<1>1. e \in Event
  BY DEF Event
<1>2. Applied(h, e) = [h EXCEPT ![token] = h[token] + 1]
  BY DEF Applied
<1> QED
  BY <1>1, <1>2

LEMMA FilledThenMerged ==
  ASSUME NEW h \in Holding, NEW token \in {"up", "down"}, NEW n \in Nat
  PROVE  Minus([h EXCEPT ![token] = h[token] + 1], n)
           = [Minus(h, n) EXCEPT ![token] = Minus(h, n)[token] + 1]
<1>1. CASE token = "up"
  BY <1>1 DEF Holding, Minus
<1>2. CASE token = "down"
  BY <1>2 DEF Holding, Minus
<1> QED
  BY <1>1, <1>2

LEMMA RedeemsStayResolved ==
  ASSUME TypeOK, RedeemsAreResolved, [Next]_vars
  PROVE  RedeemsAreResolved'
<1>0. /\ worker \in Jobs /\ cache \in [Kinds -> [Markets -> Nat \cup {Yes}]]
      /\ stage \in [Markets -> {"open", "closed", "resolved"}]
      /\ "redeem" \in Kinds /\ queue \in Seq(Requests)
  BY TypeParts DEF WorkerTyped, MoneyTyped, EngineTyped, Kinds
<1>1. \A m \in Markets : stage[m] = "resolved" => stage'[m] = "resolved"
  <2>1. ASSUME NEW m \in Markets, Ends(m) PROVE \A n \in Markets : stage[n] = "resolved" => stage'[n] = "resolved"
    BY <1>0, <2>1 DEF Ends
  <2>2. ASSUME ~\E m \in Markets : Ends(m) PROVE stage' = stage
    BY <2>2 DEF Next, LoopStep, WorkerStep, Fill, Drop, Apply, IntervalTick, TakeTick, RefreshReadiness,
                TakeRequest, Mine, Report, CallFails, Check, Advance, money, vars
  <2> QED
    BY <2>1, <2>2
<1>2. CASE UNCHANGED onchain
  <2>1. worker # Idle => worker.market \in Markets
    BY <1>0, WorkerIs DEF Job
  <2> QED
    BY <1>1, <1>2, <2>1 DEF RedeemsAreResolved, onchain
<1>3. CASE TakeRequest
  <2> DEFINE r == Head(queue)
             job == [kind |-> r.kind, market |-> r.market, sets |-> r.sets, mined |-> FALSE]
             answer == cache[r.kind][r.market]
  <2>1. r \in Requests /\ stage' = stage
    BY <1>0, <1>3 DEF TakeRequest, money
  <2>2. r.kind \in Kinds /\ r.market \in Markets
    BY <2>1 DEF Requests
  <2>3. \/ cache' = cache /\ worker' = (IF answer = Yes THEN job ELSE Idle)
        \/ /\ cache' = [cache EXCEPT ![r.kind][r.market] = IF OnChain(r) THEN Yes ELSE 0]
           /\ worker' = (IF OnChain(r) THEN job ELSE Idle)
        \/ cache' = [cache EXCEPT ![r.kind][r.market] = 0] /\ worker' = Idle
    BY <1>3 DEF TakeRequest
  <2>4. job.kind = r.kind /\ job.market = r.market
    OBVIOUS
  <2> HIDE DEF r, job
  <2>5. \A m \in Markets : cache'["redeem"][m] = Yes => stage[m] = "resolved"
    <3>1. \A m \in Markets : cache'["redeem"][m] \in {cache["redeem"][m], 0}
                             \/ (r.kind = "redeem" /\ r.market = m /\ OnChain(r))
      BY <1>0, <2>2, <2>3
    <3>2. Yes # 0
      BY DEF Yes
    <3> QED
      BY <3>1, <3>2 DEF OnChain, RedeemsAreResolved
  <2>6. worker' # Idle => (r.kind = "redeem" => stage[r.market] = "resolved") /\ worker' = job
    BY <2>2, <2>3 DEF OnChain, RedeemsAreResolved
  <2> QED
    BY <2>1, <2>4, <2>5, <2>6 DEF RedeemsAreResolved
<1>4. CASE Mine
  <2>1. worker \in Job
    BY <1>0, <1>4, WorkerIs DEF Mine
  <2>2. worker'.kind = worker.kind /\ worker'.market = worker.market /\ worker # Idle
        /\ UNCHANGED <<stage, cache>>
    BY <1>4, <2>1 DEF Mine, Job
  <2> QED
    BY <2>2 DEF RedeemsAreResolved
<1>5. CASE Report \/ CallFails
  BY <1>5 DEF Report, CallFails, RedeemsAreResolved, money
<1>6. CASE Advance
  <2>1. UNCHANGED <<stage, worker>>
    BY <1>6 DEF Advance, money
  <2>2. \A m \in Markets : cache'["redeem"][m] = Older(cache["redeem"][m], Ttl)
    BY <1>0, <1>6 DEF Advance
  <2>3. \A m \in Markets : cache'["redeem"][m] = Yes => cache["redeem"][m] = Yes
    BY <1>0, <2>2, OlderTyped, SettlementAssumption
  <2> QED
    BY <2>1, <2>3 DEF RedeemsAreResolved
<1> QED
  BY <1>2, <1>3, <1>4, <1>5, <1>6
  DEF Next, LoopStep, WorkerStep, Fill, Ends, Drop, Apply, IntervalTick, TakeTick, RefreshReadiness,
      Check, vars

LEMMA ChainStaysFollowed ==
  ASSUME SettledInv, [Next]_vars
  PROVE  ChainFollowed'
<1>0. TypeOK /\ RedeemsAreResolved /\ ChainFollowed /\ TypeOK'
  BY NextTyped DEF SettledInv
<1>t. /\ worker \in Jobs /\ chain \in [Markets -> Holding] /\ chain' \in [Markets -> Holding]
      /\ tracked \subseteq Markets
      /\ inv \in [Markets -> Holding] /\ events \in Seq(Event) /\ faults \in Nat
  BY <1>0, TypeParts DEF WorkerTyped, MoneyTyped, TypeOK
<1>f. ASSUME ~lost, NEW m \in tracked PROVE chain[m] = Unreported(m, AheadOf(m))
  BY <1>0, <1>f DEF ChainFollowed
<1>a. ASSUME UNCHANGED <<chain, tracked, inv, events>>, lost => lost', worker' = worker \/ (~worker.mined /\ ~worker'.mined)
      PROVE  ChainFollowed'
  <2>1. \A m : AheadOf(m)' = AheadOf(m)
    BY <1>a, AheadIs
  <2> QED
    BY <1>0, <1>a, <2>1 DEF ChainFollowed, Unreported
<1>1. ASSUME NEW m \in Markets, NEW token \in {"up", "down"}, Fill(m, token) PROVE ChainFollowed'
  <2> DEFINE e == [kind |-> "fill", market |-> m, token |-> token]
  <2>1. /\ stage[m] = "open" /\ chain' = [chain EXCEPT ![m][token] = chain[m][token] + 1]
        /\ UNCHANGED <<tracked, inv, worker>>
    BY <1>1 DEF Fill, state, onchain
  <2>2. CASE events' = Append(events, e) /\ UNCHANGED failures
    <3> SUFFICES ASSUME ~lost, NEW n \in tracked
                 PROVE  chain'[n] = Unreported(n, AheadOf(n))'
      BY <2>1, <2>2 DEF ChainFollowed, failures, Unreported
    <3>1. e \in Event /\ e.market = m
      BY DEF Event
    <3>2. AheadOf(n)' = IF m = n THEN Applied(AheadOf(n), e) ELSE AheadOf(n)
      <4> HIDE DEF e
      <4> QED
        BY <1>0, <2>1, <2>2, <3>1, AheadAppended
    <3>3. chain[n] = Unreported(n, AheadOf(n)) /\ n \in Markets
      BY <1>f, <1>t
    <3>4. CASE n # m
      BY <1>t, <2>1, <3>2, <3>3, <3>4 DEF Unreported
    <3>5. CASE n = m
      <4> DEFINE h == AheadOf(n)
      <4>1. h \in Holding
        BY <1>0, <3>3, AheadTyped
      <4>2. chain'[n] = [chain[n] EXCEPT ![token] = chain[n][token] + 1]
        BY <1>t, <2>1, <3>5
      <4>3. Applied(h, e) = [h EXCEPT ![token] = h[token] + 1]
        BY <4>1, FilledHolding
      <4> HIDE DEF h, e
      <4>4. CASE ~(worker.mined /\ worker.market = m)
        BY <2>1, <3>2, <3>3, <3>5, <4>2, <4>3, <4>4 DEF Unreported, h
      <4>5. CASE worker.mined /\ worker.market = m
        <5>1. worker \in Job /\ worker # Idle
          BY <1>t, <4>5, WorkerIs
        <5>2. worker.kind = "merge" /\ worker.sets \in Nat
          BY <1>0, <2>1, <4>5, <5>1 DEF RedeemsAreResolved, Job, Kinds
        <5>3. chain[n] = Minus(h, worker.sets)
          BY <3>3, <3>5, <4>5, <5>2 DEF Unreported, h
        <5>4. Minus([h EXCEPT ![token] = h[token] + 1], worker.sets)
                = [Minus(h, worker.sets) EXCEPT ![token] = Minus(h, worker.sets)[token] + 1]
          BY <4>1, <5>2, FilledThenMerged
        <5>5. chain'[n] = Minus(AheadOf(n)', worker.sets)
          BY <3>2, <3>5, <4>2, <4>3, <5>3, <5>4 DEF h
        <5> QED
          BY <2>1, <3>5, <4>5, <5>2, <5>5 DEF Unreported
      <4> QED
        BY <4>4, <4>5
    <3> QED
      BY <3>4, <3>5
  <2>3. CASE Hit("fill")
    BY <1>t, <2>3, HitTyped DEF ChainFollowed
  <2> QED
    BY <1>1, <2>2, <2>3 DEF Fill
<1>2. ASSUME NEW m \in Markets, Drop(m) PROVE ChainFollowed'
  <2>1. /\ tracked' = tracked \ {m} /\ inv' = [inv EXCEPT ![m] = Empty] /\ (lost => lost')
        /\ UNCHANGED <<chain, events, worker>>
    BY <1>t, <1>2, HitTyped DEF Drop, money, onchain
  <2>2. ASSUME NEW n \in tracked' PROVE AheadOf(n)' = AheadOf(n) /\ n \in tracked
    <3>1. n \in tracked /\ inv'[n] = inv[n]
      BY <1>t, <2>1, <2>2
    <3> QED
      BY <2>1, <3>1, AheadIs
  <2> QED
    BY <1>0, <2>1, <2>2 DEF ChainFollowed, Unreported
<1>3. ASSUME Apply PROVE ChainFollowed'
  <2>1. UNCHANGED <<chain, tracked, worker, lost>>
    BY <1>3 DEF Apply, money, onchain, failures
  <2>2. \A n \in tracked : AheadOf(n)' = AheadOf(n)
    BY <1>0, <1>3, AheadApplied
  <2> QED
    BY <1>0, <2>1, <2>2 DEF ChainFollowed, Unreported
<1>4. ASSUME Mine PROVE ChainFollowed'
  <2>1. worker \in Job /\ ~worker.mined /\ worker.market \in Markets
        /\ worker' = [worker EXCEPT !.mined = TRUE]
        /\ chain' = [chain EXCEPT ![worker.market] =
                       IF worker.kind = "merge" THEN Minus(chain[worker.market], worker.sets) ELSE Empty]
        /\ UNCHANGED <<tracked, inv, events, lost>>
    BY <1>t, <1>4, WorkerIs DEF Mine, Job, state, failures
  <2>2. worker'.mined /\ worker'.market = worker.market /\ worker'.kind = worker.kind
        /\ worker'.sets = worker.sets
    BY <2>1 DEF Job
  <2>3. \A n : AheadOf(n)' = AheadOf(n)
    BY <2>1, AheadIs
  <2> SUFFICES ASSUME ~lost, NEW n \in tracked PROVE chain'[n] = Unreported(n, AheadOf(n))'
    BY <2>1 DEF ChainFollowed, Unreported
  <2>4. chain[n] = AheadOf(n) /\ n \in Markets
    BY <1>f, <1>t, <2>1 DEF Unreported
  <2>5. CASE n = worker.market
    BY <1>t, <2>1, <2>2, <2>3, <2>4, <2>5 DEF Unreported
  <2>6. CASE n # worker.market
    BY <1>t, <2>1, <2>2, <2>3, <2>4, <2>6 DEF Unreported
  <2> QED
    BY <2>5, <2>6
<1>5. ASSUME Report PROVE ChainFollowed'
  <2> DEFINE r == [kind |-> worker.kind, market |-> worker.market, sets |-> worker.sets]
  <2>1. worker \in Job /\ worker.mined /\ worker' = Idle /\ UNCHANGED <<chain, tracked, inv>>
    BY <1>t, <1>5, WorkerIs DEF Report, money, state
  <2>2. r \in Requests /\ r \in Event /\ r.market = worker.market /\ r.kind = worker.kind
        /\ r.sets = worker.sets /\ r.kind \in {"merge", "redeem"}
    BY <2>1 DEF Job, Requests, Event, Kinds
  <2>3. CASE events' = Append(events, r) /\ UNCHANGED failures
    <3> HIDE DEF r
    <3> SUFFICES ASSUME ~lost, NEW n \in tracked PROVE chain'[n] = AheadOf(n)'
      BY <2>1, <2>3, WorkerIs, <1>t DEF ChainFollowed, failures, Unreported
    <3>1. AheadOf(n)' = IF r.market = n THEN Applied(AheadOf(n), r) ELSE AheadOf(n)
      BY <1>0, <2>1, <2>2, <2>3, AheadAppended
    <3>2. chain[n] = Unreported(n, AheadOf(n)) /\ n \in Markets /\ chain[n] \in Holding
      BY <1>f, <1>t
    <3>3. AheadOf(n) \in Holding
      BY <1>0, <3>2, AheadTyped
    <3>4. CASE r.market # n
      BY <2>1, <2>2, <3>1, <3>2, <3>4 DEF Unreported
    <3>5. CASE r.market = n
      <4>1. chain[n] = IF r.kind = "merge" THEN Minus(AheadOf(n), r.sets) ELSE Empty
        BY <2>1, <2>2, <3>2, <3>5 DEF Unreported
      <4>2. Applied(AheadOf(n), r) = chain[n]
        <5>1. CASE r.kind = "merge"
          BY <2>2, <3>2, <3>3, <4>1, <5>1, ReportedHolding
        <5>2. CASE r.kind = "redeem"
          BY <2>2, <3>3, <4>1, <5>2, ReportedHolding
        <5> QED
          BY <2>2, <5>1, <5>2
      <4> QED
        BY <2>1, <3>1, <3>5, <4>2
    <3> QED
      BY <3>4, <3>5
  <2>4. CASE Hit("report")
    BY <1>t, <2>4, HitTyped DEF ChainFollowed
  <2> QED
    BY <1>5, <2>3, <2>4 DEF Report
<1>6. ASSUME TakeRequest \/ CallFails PROVE ChainFollowed'
  <2>1. UNCHANGED <<chain, tracked, inv, events>>
    BY <1>6 DEF TakeRequest, CallFails, money, state
  <2>2. ~worker.mined
    BY <1>6, WorkerIs, <1>t DEF TakeRequest, CallFails
  <2>3. ~worker'.mined
    BY <1>6, WorkerIs, <1>t DEF TakeRequest, CallFails
  <2>4. lost => lost'
    BY <1>t, <1>6, HitTyped DEF TakeRequest, CallFails, failures
  <2> QED
    BY <1>a, <2>1, <2>2, <2>3, <2>4
<1>7. ASSUME NEW m \in Markets, Ends(m) PROVE ChainFollowed'
  BY <1>a, <1>7 DEF Ends, state, onchain, failures
<1>8. ASSUME NEW order \in Orders, NEW fast \in SUBSET Markets, IntervalTick(order, fast)
      PROVE  ChainFollowed'
  BY <1>a, <1>8 DEF IntervalTick, money, state, onchain, failures
<1>9. ASSUME NEW order \in Orders, NEW fast \in SUBSET Markets, NEW m \in Markets,
             NEW lag \in 0..MaxLag, TakeTick(m, order, fast, lag)
      PROVE  ChainFollowed'
  BY <1>a, <1>9 DEF TakeTick, money, state, onchain, failures
<1>10. ASSUME RefreshReadiness PROVE ChainFollowed'
  BY <1>a, <1>10 DEF RefreshReadiness, money, state, onchain, failures
<1>11. ASSUME Check PROVE ChainFollowed'
  BY <1>a, <1>11 DEF Check, money, state, onchain, failures
<1>12. ASSUME Advance PROVE ChainFollowed'
  BY <1>a, <1>12 DEF Advance, money, state, failures
<1>13. ASSUME UNCHANGED vars PROVE ChainFollowed'
  BY <1>a, <1>13 DEF vars, money, state, onchain, failures
<1>14. ASSUME NEW buy \in Buys, Fill(buy[1], buy[2]) PROVE ChainFollowed'
  <2>1. buy[1] \in Markets /\ buy[2] \in {"up", "down"}
    BY SettlementAssumption
  <2> QED
    BY <1>1, <1>14, <2>1
<1> QED
  BY <1>2, <1>3, <1>4, <1>5, <1>6, <1>7, <1>8, <1>9, <1>10, <1>11, <1>12, <1>13, <1>14
  DEF Next, LoopStep, WorkerStep

LEMMA InitSettled == Init => SettledInv
<1> SUFFICES ASSUME Init PROVE SettledInv
  OBVIOUS
<1>1. TypeOK
  BY InitTyped
<1>2. RedeemsAreResolved
  <2>1. Ttl # Yes /\ "redeem" \in Kinds
    BY SettlementAssumption DEF Yes, Kinds
  <2> QED
    BY <2>1 DEF Init, RedeemsAreResolved
<1>3. ChainFollowed
  <2>1. \A m : AheadOf(m) = inv[m]
    BY AheadIs, Book!FoldEmpty DEF Init
  <2>2. ~worker.mined /\ inv = chain
    BY DEF Init, Idle
  <2> QED
    BY <2>1, <2>2 DEF ChainFollowed, Unreported
<1> QED
  BY <1>1, <1>2, <1>3 DEF SettledInv

(***************************************************************************)
(* MarketsFollowTheChain: for any number of markets, fills, requests and   *)
(* failures, once nothing is on its way and nothing was lost, StateManager *)
(* holds of each tracked market what the account holds.  At any time what  *)
(* it will hold differs from the account by the one transaction that is    *)
(* mined and not yet reported; a redeem that is mined is of a resolved     *)
(* market, where no fill can come between.                                 *)
(***************************************************************************)
THEOREM MarketsStayOnTheChain == Spec => []MarketsFollowTheChain
<1>1. SettledInv => MarketsFollowTheChain
  <2> SUFFICES ASSUME SettledInv, events = <<>>, ~worker.mined, ~lost, NEW m \in tracked
               PROVE  inv[m] = chain[m]
    BY DEF MarketsFollowTheChain
  <2>1. chain[m] = AheadOf(m)
    BY DEF SettledInv, ChainFollowed, Unreported
  <2>2. AheadOf(m) = inv[m]
    BY AheadIs, Book!FoldEmpty
  <2> QED
    BY <2>1, <2>2
<1>2. SettledInv /\ [Next]_vars => SettledInv'
  BY NextTyped, RedeemsStayResolved, ChainStaysFollowed DEF SettledInv
<1> QED
  BY <1>1, <1>2, InitSettled, PTL DEF Spec

-----------------------------------------------------------------------------
(* The budget of operations.                                               *)

(* Each of the operations the last minute saw still has its stamp in the   *)
(* window of the engine, and the stamp is no older than a waiting tick     *)
(* makes it.                                                               *)
Aligned(o, s) ==
  /\ Len(s) <= Len(o) /\ Len(o) <= MaxOps
  /\ \A i \in 1..Len(s) : o[(Len(o) - Len(s)) + i] <= s[i] + MaxLag
  /\ s # <<>> => s[1] = 0 \/ s[1] < Window

BudgetInv == TypeOK /\ Aligned(ops, spent)

LEMMA Bounds ==
  /\ Minute \in Nat /\ MaxLag \in Nat /\ MaxOps \in Nat /\ MaxOps > 0
  /\ Window \in Int /\ Window = Minute - MaxLag
  BY SettlementAssumption DEF Window

LEMMA AlignedParts ==
  ASSUME NEW o \in Seq(Nat), NEW s \in Seq(Nat), Aligned(o, s),
         NEW n, NEW d, n = Len(o), d = Len(s)
  PROVE  /\ n \in Nat /\ d \in Nat /\ d <= n /\ n <= MaxOps
         /\ \A i \in 1..n : o[i] \in Nat
         /\ \A i \in 1..d : s[i] \in Nat /\ (n - d) + i \in 1..n /\ o[(n - d) + i] <= s[i] + MaxLag
         /\ d # 0 => s[1] = 0 \/ s[1] < Window
<1>1. n \in Nat /\ d \in Nat
  OBVIOUS
<1>2. d <= n /\ n <= MaxOps
  BY DEF Aligned
<1>3. (\A i \in 1..n : o[i] \in Nat) /\ (\A i \in 1..d : s[i] \in Nat)
  OBVIOUS
<1>4. \A i \in 1..d : (n - d) + i \in 1..n
  BY <1>1, <1>2
<1>5. \A i \in 1..d : o[(n - d) + i] <= s[i] + MaxLag
  BY DEF Aligned
<1>6. d # 0 => s # <<>>
  OBVIOUS
<1>7. d # 0 => s[1] = 0 \/ s[1] < Window
  BY <1>6 DEF Aligned
<1> QED
  BY <1>1, <1>2, <1>3, <1>4, <1>5, <1>7

LEMMA RequestAligned ==
  ASSUME NEW o \in Seq(Nat), NEW s \in Seq(Nat), NEW lag \in 0..MaxLag, Aligned(o, s), Len(o) < MaxOps
  PROVE  Aligned(Append(o, lag), Append(s, 0))
<1> DEFINE p == Append(o, lag)
           q == Append(s, 0)
           n == Len(o)
           k == Len(s)
<1>1. /\ n \in Nat /\ k \in Nat /\ k <= n /\ n < MaxOps /\ lag \in Nat /\ lag <= MaxLag
      /\ \A i \in 1..k : o[(n - k) + i] <= s[i] + MaxLag
      /\ s # <<>> => s[1] = 0 \/ s[1] < Window
      /\ (s = <<>> <=> k = 0)
  BY Bounds DEF Aligned
<1>2. /\ Len(p) = n + 1 /\ Len(q) = k + 1 /\ p[n + 1] = lag /\ q[k + 1] = 0
      /\ \A i \in 1..n : p[i] = o[i]
      /\ \A i \in 1..k : q[i] = s[i]
  BY <1>1, Bounds
<1> HIDE DEF p, q, n, k
<1>3. ASSUME NEW i \in 1..(k + 1) PROVE p[((n + 1) - (k + 1)) + i] <= q[i] + MaxLag
  <2>1. CASE i = k + 1
    <3>1. ((n + 1) - (k + 1)) + i = n + 1
      BY <1>1, <2>1
    <3> QED
      BY <1>1, <1>2, <2>1, <3>1, Bounds
  <2>2. CASE i \in 1..k
    <3>1. ((n + 1) - (k + 1)) + i = (n - k) + i /\ (n - k) + i \in 1..n
      BY <1>1, <2>2
    <3> QED
      BY <1>1, <1>2, <2>2, <3>1
  <2> QED
    BY <1>1, <2>1, <2>2
<1>4. q[1] = 0 \/ q[1] < Window
  <2>1. CASE k = 0
    BY <1>2, <2>1
  <2>2. CASE k # 0
    BY <1>1, <1>2, <2>2
  <2> QED
    BY <2>1, <2>2
<1>5. Aligned(p, q)
  BY <1>1, <1>2, <1>3, <1>4, Bounds DEF Aligned
<1> QED
  BY <1>5 DEF p, q

(* Pruning drops stamps of operations that are a minute old, if a tick     *)
(* never waits longer than that.                                           *)
LEMMA PruneAligned ==
  ASSUME MaxLag <= Minute,
         NEW o \in Seq(Nat), NEW s \in Seq(Nat), NEW lag \in 0..MaxLag, Aligned(o, s)
  PROVE  Aligned(PruneOps(o, lag), s)
<1> DEFINE r == PruneOps(o, lag)
           n == Len(o)
           d == Len(s)
<1>0. lag \in Nat /\ Minute + lag \in Int /\ (s = <<>> <=> d = 0)
  BY Bounds
<1>1. /\ n \in Nat /\ d \in Nat /\ d <= n /\ n <= MaxOps
      /\ \A i \in 1..n : o[i] \in Nat
      /\ \A i \in 1..d : s[i] \in Nat /\ (n - d) + i \in 1..n /\ o[(n - d) + i] <= s[i] + MaxLag
      /\ d # 0 => s[1] = 0 \/ s[1] < Window
  BY AlignedParts
<1>2. PICK k \in 1..(n + 1) :
              /\ Len(r) = n + 1 - k
              /\ \A i \in 1..(n + 1 - k) : r[i] = o[k - 1 + i]
              /\ \A i \in 1..(k - 1) : o[i] > Minute + lag
  BY <1>0, RecentSuffix DEF PruneOps
<1> HIDE DEF r, n, d
<1>3. d <= Len(r)
  <2> SUFFICES ASSUME Len(r) < d PROVE FALSE
    BY <1>1, <1>2
  <2>1. (n - d) + 1 \in 1..(k - 1) /\ 1 \in 1..d /\ (n - d) + 1 \in 1..n
    BY <1>1, <1>2
  <2>2. PICK x : x = o[(n - d) + 1]
    OBVIOUS
  <2>3. x > Minute + lag /\ x <= s[1] + MaxLag /\ x \in Nat /\ s[1] \in Nat
    BY <1>1, <1>2, <2>1, <2>2
  <2>4. s[1] = 0 \/ s[1] < Window
    BY <1>1, <2>1
  <2> QED
    BY <1>0, <2>3, <2>4, Bounds
<1>4. ASSUME NEW i \in 1..d PROVE r[(Len(r) - d) + i] <= s[i] + MaxLag
  <2>1. (Len(r) - d) + i \in 1..(n + 1 - k) /\ (k - 1) + ((Len(r) - d) + i) = (n - d) + i
    BY <1>1, <1>2, <1>3
  <2>2. r[(Len(r) - d) + i] = o[(n - d) + i]
    BY <1>2, <2>1
  <2> QED
    BY <1>1, <2>2
<1>5. Len(r) <= MaxOps
  BY <1>1, <1>2, Bounds
<1>6. s # <<>> => s[1] = 0 \/ s[1] < Window
  BY <1>0, <1>1
<1> QED
  BY <1>3, <1>4, <1>5, <1>6 DEF Aligned, r, d

(* A stamp and an operation that are a unit older; and the stamp of an     *)
(* operation that is still counted.                                        *)
LEMMA OlderStamp ==
  ASSUME NEW x \in Nat, NEW y \in Nat, NEW z \in Nat, NEW w \in Nat,
         x <= y + 1, y <= z + MaxLag, w = z + 1
  PROVE  x <= w + MaxLag
  BY Bounds

LEMMA CountedStamp ==
  ASSUME NEW x \in Nat, NEW y \in Nat, x <= y + MaxLag, y <= Window - 1
  PROVE  ~(x > Minute + MaxLag)
  BY Bounds

(* Time passes: an operation of the last minute keeps its stamp.           *)
LEMMA AdvanceAligned ==
  ASSUME NEW a \in Seq(Nat), NEW b \in Seq(Nat), NEW o \in Seq(Nat), NEW s \in Seq(Nat),
         Aligned(a, b), Len(o) = Len(a), Len(s) = Len(b),
         \A i \in 1..Len(a) : o[i] <= a[i] + 1,
         \A i \in 1..Len(b) : s[i] = b[i] + 1
  PROVE  Aligned(Recent(o, Minute + MaxLag), Recent(s, Window - 1))
<1> DEFINE p == Recent(o, Minute + MaxLag)
           q == Recent(s, Window - 1)
           n == Len(o)
           d == Len(s)
<1>1. /\ n \in Nat /\ d \in Nat /\ d <= n /\ n <= MaxOps
      /\ \A i \in 1..n : o[i] \in Nat /\ a[i] \in Nat
      /\ \A i \in 1..d : s[i] \in Nat /\ b[i] \in Nat /\ (n - d) + i \in 1..n
                         /\ a[(n - d) + i] <= b[i] + MaxLag
  <2>1. n = Len(a) /\ d = Len(b)
    OBVIOUS
  <2>2. (\A i \in 1..n : o[i] \in Nat) /\ (\A i \in 1..d : s[i] \in Nat)
    OBVIOUS
  <2> HIDE DEF n, d
  <2> QED
    BY <2>1, <2>2, AlignedParts
<1>2. \A i \in 1..d : o[(n - d) + i] <= s[i] + MaxLag
  <2> TAKE i \in 1..d
  <2>1. PICK x : x = (n - d) + i
    OBVIOUS
  <2>2. x \in 1..n /\ a[x] <= b[i] + MaxLag /\ a[x] \in Nat /\ o[x] \in Nat /\ b[i] \in Nat
    BY <1>1, <2>1
  <2>3. o[x] <= a[x] + 1 /\ s[i] = b[i] + 1
    BY <2>2
  <2> HIDE DEF n, d
  <2>4. o[x] <= s[i] + MaxLag
    <3>1. s[i] \in Nat
      BY <1>1
    <3> QED
      BY <2>2, <2>3, <3>1, OlderStamp
  <2> QED
    BY <2>1, <2>4
<1>3. Minute + MaxLag \in Int /\ Window - 1 \in Int
  BY Bounds
<1>4. PICK k \in 1..(n + 1) :
              /\ Len(p) = n + 1 - k
              /\ \A i \in 1..(n + 1 - k) : p[i] = o[k - 1 + i]
              /\ \A i \in 1..(k - 1) : o[i] > Minute + MaxLag
  BY <1>3, RecentSuffix
<1>5. /\ q \in Seq(Nat)
      /\ \E j \in 1..(d + 1) :
              /\ Len(q) = d + 1 - j
              /\ \A i \in 1..(d + 1 - j) : q[i] = s[j - 1 + i]
              /\ j <= d => s[j] <= Window - 1
  BY <1>3, RecentSuffix
<1>6. PICK j \in 1..(d + 1) :
              /\ Len(q) = d + 1 - j
              /\ \A i \in 1..(d + 1 - j) : q[i] = s[j - 1 + i]
              /\ j <= d => s[j] <= Window - 1
  BY <1>5
<1>7. q = <<>> <=> Len(q) = 0
  BY <1>5
<1> HIDE DEF p, q, n, d
<1>8. q # <<>> => q[1] < Window
  <2> SUFFICES ASSUME q # <<>> PROVE q[1] < Window
    OBVIOUS
  <2>1. j \in 1..d /\ 1 \in 1..(d + 1 - j) /\ j - 1 + 1 = j
    BY <1>1, <1>6, <1>7
  <2>2. q[1] = s[j] /\ s[j] <= Window - 1 /\ s[j] \in Nat
    BY <1>1, <1>6, <2>1
  <2> QED
    BY <2>2, Bounds
<1>9. Len(q) <= Len(p)
  <2>1. CASE j = d + 1
    BY <1>1, <1>4, <1>6, <2>1
  <2>2. CASE j \in 1..d
    <3>1. PICK x : x = (n - d) + j
      OBVIOUS
    <3>2. x \in 1..n /\ o[x] <= s[j] + MaxLag /\ s[j] <= Window - 1 /\ s[j] \in Nat /\ o[x] \in Nat
      BY <1>1, <1>2, <1>6, <2>2, <3>1
    <3>3. ~(o[x] > Minute + MaxLag)
      BY <3>2, CountedStamp
    <3>4. x \notin 1..(k - 1)
      BY <1>4, <3>3
    <3> QED
      BY <1>1, <1>4, <1>6, <2>2, <3>1, <3>2, <3>4
  <2> QED
    BY <1>1, <1>6, <2>1, <2>2
<1>10. ASSUME NEW i \in 1..Len(q) PROVE p[(Len(p) - Len(q)) + i] <= q[i] + MaxLag
  <2>1. /\ (Len(p) - Len(q)) + i \in 1..(n + 1 - k) /\ i \in 1..(d + 1 - j) /\ (j - 1) + i \in 1..d
        /\ (k - 1) + ((Len(p) - Len(q)) + i) = (n - d) + ((j - 1) + i)
    BY <1>1, <1>4, <1>6, <1>9
  <2>2. p[(Len(p) - Len(q)) + i] = o[(n - d) + ((j - 1) + i)] /\ q[i] = s[(j - 1) + i]
    BY <1>4, <1>6, <2>1
  <2> QED
    BY <1>2, <2>1, <2>2
<1>11. Len(p) <= MaxOps
  BY <1>1, <1>4, Bounds
<1> QED
  BY <1>8, <1>9, <1>10, <1>11 DEF Aligned, p, q

LEMMA DecideAligned ==
  ASSUME MaxLag <= Minute, BudgetInv, NEW seen, Seen(seen), NEW order \in Orders, NEW fast,
         NEW lag \in 0..MaxLag, Decide(seen, order, fast, lag)
  PROVE  Aligned(ops', spent')
<1> DEFINE T == {e \in Engine : Aligned(e.ops, e.spent)}
           start == [last |-> last, ops |-> PruneOps(ops, lag), spent |-> spent, queue |-> queue]
<1>0. lag \in Nat /\ TypeOK /\ Aligned(ops, spent) /\ ops \in Seq(Nat) /\ spent \in Seq(Nat)
  BY Bounds DEF BudgetInv, TypeOK
<1>1. start \in T
  <2>1. PruneOps(ops, lag) \in Seq(Nat)
    <3>1. Minute + lag \in Int
      BY <1>0, Bounds
    <3> QED
      BY <1>0, <3>1, RecentSuffix DEF PruneOps
  <2>2. start \in Engine
    BY <1>0, <2>1 DEF TypeOK, Engine
  <2>3. Aligned(PruneOps(ops, lag), spent)
    BY <1>0, PruneAligned
  <2> QED
    BY <2>2, <2>3
<1>2. ASSUME NEW e \in T, NEW kind \in Kinds, NEW m \in Markets, NEW sets \in Nat, Len(e.ops) < MaxOps
      PROVE  Request(e, kind, m, sets, lag) \in T
  <2> DEFINE r == Request(e, kind, m, sets, lag)
  <2>1. e \in Engine /\ e.ops \in Seq(Nat) /\ e.spent \in Seq(Nat) /\ Aligned(e.ops, e.spent)
    BY DEF Engine
  <2>2. r \in Engine /\ r.ops = Append(e.ops, lag) /\ r.spent = Append(e.spent, 0)
    BY <1>0, <2>1, Requested
  <2>3. Aligned(Append(e.ops, lag), Append(e.spent, 0))
    BY <1>2, <2>1, RequestAligned
  <2> HIDE DEF r
  <2>4. r \in T
    BY <2>2, <2>3
  <2> QED
    BY <2>4 DEF r
<1>3. T \in SUBSET Engine
  OBVIOUS
<1>4. PICK end : end = [last |-> last', ops |-> ops', spent |-> spent', queue |-> queue']
  OBVIOUS
<1> HIDE DEF T, start
<1>5. end \in T
  BY <1>0, <1>1, <1>2, <1>3, <1>4, DecideKeeps DEF start
<1>6. Aligned(end.ops, end.spent)
  BY <1>5 DEF T
<1> QED
  BY <1>4, <1>6

LEMMA NextAligned ==
  ASSUME MaxLag <= Minute, BudgetInv, [Next]_vars
  PROVE  Aligned(ops', spent')
<1>0. TypeOK /\ Aligned(ops, spent) /\ TypeOK'
  BY NextTyped DEF BudgetInv
<1>1. ASSUME UNCHANGED <<ops, spent>> PROVE Aligned(ops', spent')
  BY <1>0, <1>1
<1>2. ASSUME NEW order \in Orders, NEW fast \in SUBSET Markets, IntervalTick(order, fast)
      PROVE  Aligned(ops', spent')
  <2>1. Seen(latest) /\ 0 \in 0..MaxLag /\ Decide(latest, order, fast, 0)
    BY <1>0, <1>2, Bounds DEF TypeOK, Seen, IntervalTick
  <2> QED
    BY <2>1, DecideAligned
<1>3. ASSUME NEW order \in Orders, NEW fast \in SUBSET Markets, NEW m \in Markets,
             NEW lag \in 0..MaxLag, TakeTick(m, order, fast, lag)
      PROVE  Aligned(ops', spent')
  <2>1. CASE Decide(latest', order, fast, lag)
    <3>1. Seen(latest')
      BY <1>0 DEF TypeOK, Seen
    <3> QED
      BY <2>1, <3>1, DecideAligned
  <2>2. CASE UNCHANGED <<last, ops, spent, queue>>
    BY <1>1, <2>2
  <2> QED
    BY <1>3, <2>1, <2>2 DEF TakeTick
<1>4. ASSUME Advance PROVE Aligned(ops', spent')
  <2> DEFINE o == [i \in DOMAIN ops |-> Older(ops[i], Minute + MaxLag + 1)]
             s == [i \in DOMAIN spent |-> spent[i] + 1]
  <2>1. ops \in Seq(Nat) /\ spent \in Seq(Nat)
    BY <1>0 DEF TypeOK
  <2>2. /\ o \in Seq(Nat) /\ Len(o) = Len(ops)
        /\ s \in Seq(Nat) /\ Len(s) = Len(spent)
        /\ \A i \in 1..Len(ops) : o[i] <= ops[i] + 1
        /\ \A i \in 1..Len(spent) : s[i] = spent[i] + 1
    BY <2>1, AgedSeqs
  <2>3. ops' = Recent(o, Minute + MaxLag) /\ spent' = Recent(s, Window - 1)
    BY <1>4 DEF Advance, PruneOps
  <2> HIDE DEF o, s
  <2> QED
    BY <1>0, <2>1, <2>2, <2>3, AdvanceAligned
<1> QED
  BY <1>1, <1>2, <1>3, <1>4
  DEF Next, LoopStep, WorkerStep, Fill, Ends, Drop, Apply, RefreshReadiness, TakeRequest, Mine, Report,
      CallFails, Check, vars, engine

(***************************************************************************)
(* OperationsAreBudgeted: no more than max_ops_per_minute requests fall    *)
(* into a minute, less the longest wait of a tick, provided that a tick    *)
(* never waits for more than a minute.  With longer waits the stamp of an  *)
(* operation may be pruned in the moment it is made.                       *)
(***************************************************************************)
THEOREM OperationsStayBudgeted ==
  ASSUME MaxLag <= Minute
  PROVE  Spec => []OperationsAreBudgeted
<1>1. Init => BudgetInv
  <2> SUFFICES ASSUME Init PROVE BudgetInv
    OBVIOUS
  <2>1. ops = <<>> /\ spent = <<>>
    BY DEF Init
  <2> QED
    BY <2>1, InitTyped, Bounds DEF BudgetInv, Aligned
<1>2. BudgetInv /\ [Next]_vars => BudgetInv'
  BY NextTyped, NextAligned DEF BudgetInv
<1>3. BudgetInv => OperationsAreBudgeted
  <2> SUFFICES ASSUME BudgetInv PROVE Len(spent) <= MaxOps
    BY DEF OperationsAreBudgeted
  <2>1. Len(spent) \in Nat /\ Len(ops) \in Nat /\ Len(spent) <= Len(ops) /\ Len(ops) <= MaxOps
    BY DEF BudgetInv, TypeOK, Aligned
  <2> QED
    BY <2>1, Bounds
<1> QED
  BY <1>1, <1>2, <1>3, PTL DEF Spec
=============================================================================
