----------------------- MODULE InventoryLedgerProofs -----------------------
(***************************************************************************)
(* Type correctness of InventoryLedger, that no part of an order becomes a *)
(* fill twice, and that the inventory follows the account.                 *)
(***************************************************************************)
EXTENDS InventoryLedger, FiniteSetTheorems, TLAPS

\* Only an order that is not matched in full can be matched.
OpenOrdersHaveRoom == \A o \in Orders : status[o] # "gone" => matched[o] < Size
Typed == TypeOK /\ OpenOrdersHaveRoom

LEMMA Frames ==
  ASSUME Typed
  PROVE  /\ UNCHANGED exchangeVars => ExchangeTyped' /\ OpenOrdersHaveRoom'
         /\ UNCHANGED sessionVars => SessionTyped'
         /\ UNCHANGED <<resync, events, stateVars, quiet, blurred>> => StateTyped'
         /\ UNCHANGED engineVars => EngineTyped'
  BY DEF Typed, OpenOrdersHaveRoom, TypeOK, ExchangeTyped, SessionTyped, StateTyped, EngineTyped,
         exchangeVars, sessionVars, stateVars, engineVars

LEMMA OrdersAreFinite == \A S \in SUBSET Orders : IsFiniteSet(S) /\ Cardinality(S) \in Nat
<1>1. IsFiniteSet({Up}) /\ IsFiniteSet(Tokens)
  <2>1. {Up} = {} \cup {Up} /\ Tokens = {Up} \cup {Down}
    BY DEF Tokens
  <2> QED
    BY <2>1, FS_EmptySet, FS_AddElement
<1>2. IsFiniteSet(1..PerToken)
  BY LedgerAssumption, FS_Interval
<1>3. IsFiniteSet(Orders)
  BY <1>1, <1>2, FS_Product DEF Orders
<1> QED
  BY <1>3, FS_Subset, FS_CardinalityType

LEMMA ToldTyped ==
  ASSUME TypeOK, NEW o \in Orders, NEW kind \in Kinds, NEW size \in 0..Size, NEW ts \in Int
  PROVE  Told(o, kind, size, ts) \in Seq(Update)
<1>1. [order |-> o, kind |-> kind, matched |-> size, ts |-> ts] \in Update
  BY DEF Update
<1> QED
  BY <1>1 DEF Told, TypeOK, SessionTyped

-----------------------------------------------------------------------------
LEMMA PlaceTyped ==
  ASSUME Typed, NEW o \in Orders, Place(o)
  PROVE  Typed'
<1>1. stream' \in Seq(Update)
  <2>1. 2 * epoch + 1 \in Int /\ matched[o] \in 0..Size /\ "placement" \in Kinds
    BY DEF Typed, TypeOK, SessionTyped, ExchangeTyped, Kinds
  <2> QED
    BY <2>1, ToldTyped DEF Place, Typed
<1>2. ExchangeTyped' /\ OpenOrdersHaveRoom'
  BY DEF Place, Typed, TypeOK, ExchangeTyped, OpenOrdersHaveRoom
<1>3. SessionTyped'
  BY <1>1 DEF Place, Typed, TypeOK, SessionTyped
<1> QED
  BY <1>2, <1>3, Frames DEF Place, Typed, TypeOK

LEMMA CancelTyped ==
  ASSUME Typed, NEW o \in Orders, Cancel(o)
  PROVE  Typed'
<1>1. stream' \in Seq(Update)
  <2>1. 2 * epoch + 1 \in Int /\ matched[o] \in 0..Size /\ "cancellation" \in Kinds
    BY DEF Typed, TypeOK, SessionTyped, ExchangeTyped, Kinds
  <2> QED
    BY <2>1, ToldTyped DEF Cancel, Typed
<1>2. ExchangeTyped' /\ OpenOrdersHaveRoom'
  BY DEF Cancel, Typed, TypeOK, ExchangeTyped, OpenOrdersHaveRoom
<1>3. SessionTyped'
  BY <1>1 DEF Cancel, Typed, TypeOK, SessionTyped
<1> QED
  BY <1>2, <1>3, Frames DEF Cancel, Typed, TypeOK

LEMMA MatchTyped ==
  ASSUME Typed, NEW o \in Orders, Match(o)
  PROVE  Typed'
<1> USE LedgerAssumption
<1>1. /\ matched \in [Orders -> 0..Size] /\ matched' = [matched EXCEPT ![o] = @ + 1]
      /\ matched[o] + 1 \in 0..Size
  BY DEF Match, Typed, TypeOK, ExchangeTyped, OpenOrdersHaveRoom
<1>2. matched' \in [Orders -> 0..Size] /\ matched'[o] = matched[o] + 1
  BY <1>1
<1>3. stream' \in Seq(Update)
  <2>1. \A ts \in Stamps : ts \in Int
    BY DEF Stamps, Typed, TypeOK, SessionTyped
  <2>2. "update" \in Kinds /\ matched'[o] \in 0..Size
    BY <1>2 DEF Kinds
  <2>3. PICK ts \in Stamps : stream' = Told(o, "update", matched'[o], ts)
    BY DEF Match
  <2> QED
    BY <2>1, <2>2, <2>3, ToldTyped DEF Typed
<1>4. held' \in Shares
  <2>1. Token(o) \in Tokens /\ held \in Shares
    BY DEF Orders, Token, Typed, TypeOK, ExchangeTyped
  <2>2. (IF o \in Sells THEN held[Token(o)] - 1 ELSE held[Token(o)] + 1) \in Nat
    BY <2>1 DEF Match, Shares
  <2> QED
    BY <2>1, <2>2 DEF Match, Shares
<1>5. status' \in [Orders -> {"new", "live", "gone"}]
  BY DEF Match, Typed, TypeOK, ExchangeTyped
<1>6. OpenOrdersHaveRoom'
  <2> SUFFICES ASSUME NEW p \in Orders, status'[p] # "gone" PROVE matched'[p] < Size
    BY DEF OpenOrdersHaveRoom
  <2>1. CASE p = o
    <3>1. matched'[o] # Size
      BY <2>1 DEF Match, Typed, TypeOK, ExchangeTyped
    <3> QED
      BY <2>1, <3>1, <1>1, <1>2
  <2>2. CASE p # o
    BY <2>2, <1>1 DEF Match, Typed, TypeOK, ExchangeTyped, OpenOrdersHaveRoom
  <2> QED
    BY <2>1, <2>2
<1>7. ExchangeTyped'
  BY <1>2, <1>4, <1>5 DEF ExchangeTyped
<1>8. SessionTyped' /\ StateTyped'
  BY <1>3 DEF Match, Typed, TypeOK, SessionTyped, StateTyped, stateVars
<1> QED
  BY <1>6, <1>7, <1>8, Frames DEF Match, Typed, TypeOK

-----------------------------------------------------------------------------
LEMMA SnapshotTyped ==
  ASSUME Typed, epoch' \in Nat,
         NEW open \in Injection(1..Cardinality(OpenOrders), OpenOrders)
  PROVE  Snapshot(open) \in Seq(Update)
<1> DEFINE k == Cardinality(OpenOrders)
<1>1. k \in Nat /\ open \in [1..k -> Orders]
  <2>1. OpenOrders \in SUBSET Orders
    BY DEF OpenOrders
  <2> QED
    BY <2>1, OrdersAreFinite DEF Injection
<1> HIDE DEF k
<1>2. Snapshot(open) \in [1..k -> Update]
  <2> SUFFICES ASSUME NEW n \in 1..k
               PROVE  [order |-> open[n], kind |-> "placement", matched |-> matched[open[n]],
                       ts |-> 2 * epoch' + 1] \in Update
    BY <1>1 DEF Snapshot
  <2>1. open[n] \in Orders /\ matched[open[n]] \in 0..Size /\ 2 * epoch' + 1 \in Int
    BY <1>1 DEF Typed, TypeOK, ExchangeTyped
  <2> QED
    BY <2>1 DEF Update, Kinds
<1> QED
  BY <1>1, <1>2

LEMMA SessionStepTyped ==
  ASSUME Typed, SessionUp \/ SessionDown
  PROVE  Typed'
<1>1. CASE SessionUp
  <2>1. epoch' \in 1..MaxEpoch
    BY <1>1, LedgerAssumption DEF SessionUp, Typed, TypeOK, SessionTyped
  <2>2. stream' \in Seq(Update)
    <3>1. CASE stream' = <<>>
      BY <3>1
    <3>2. CASE \E open \in Injection(1..Cardinality(OpenOrders), OpenOrders) : stream' = Snapshot(open)
      BY <2>1, <3>2, SnapshotTyped
    <3> QED
      BY <1>1, <3>1, <3>2 DEF SessionUp
  <2>3. SessionTyped'
    BY <1>1, <2>1, <2>2 DEF SessionUp, Typed, TypeOK, SessionTyped
  <2>4. quiet' \in BOOLEAN
    BY <1>1 DEF SessionUp, MinedUntold
  <2>5. StateTyped'
    BY <1>1, <2>4 DEF SessionUp, Typed, TypeOK, StateTyped, stateVars
  <2> QED
    BY <1>1, <2>3, <2>5, Frames DEF SessionUp, Typed, TypeOK
<1>2. CASE SessionDown
  <2>1. tracker' \in [Orders -> 0..Size \cup {Unseen}]
    BY <1>2 DEF SessionDown
  <2>2. SessionTyped'
    <3>1. up' = FALSE /\ stream' = <<>>
      BY <1>2 DEF SessionDown
    <3>2. up' \in BOOLEAN
      BY <3>1
    <3>3. stream' \in Seq(Update)
      BY <3>1
    <3>4. UNCHANGED <<epoch, conn, emitted>>
      BY <1>2 DEF SessionDown
    <3> QED
      BY <2>1, <3>2, <3>3, <3>4 DEF Typed, TypeOK, SessionTyped
  <2>3. StateTyped'
    BY <1>2 DEF SessionDown, Typed, TypeOK, StateTyped, stateVars
  <2> QED
    BY <1>2, <2>2, <2>3, Frames DEF SessionDown, Typed, TypeOK
<1> QED
  BY <1>1, <1>2

(* What reading one message does, for the order it is about.               *)
LEMMA Reads ==
  ASSUME Typed, Read, NEW u, u = Head(stream)
  PROVE  /\ u \in Update /\ stream' = Tail(stream) /\ stream' \in Seq(Update)
         /\ IsNew(u) => FillOf(u) \in Event /\ FillOf(u).shares = u.matched - Baseline(u)
         /\ Baseline(u) \in 0..Size
<1> USE LedgerAssumption
<1>1. u \in Update /\ stream' = Tail(stream) /\ stream' \in Seq(Update)
  BY DEF Read, Typed, TypeOK, SessionTyped
<1>2. u.order \in Orders /\ u.matched \in 0..Size /\ u.ts \in Int
  BY <1>1 DEF Update
<1>3. Baseline(u) \in 0..Size
  BY <1>2 DEF Baseline, Typed, TypeOK, SessionTyped
<1>4. Token(u.order) \in Tokens
  BY <1>2 DEF Orders, Token
<1>5. IsNew(u) => u.matched - Baseline(u) \in 1..Size
  BY <1>2, <1>3 DEF IsNew
<1>6. IsNew(u) => FillOf(u) \in Event
  BY <1>2, <1>4, <1>5 DEF FillOf, Event
<1> QED
  BY <1>1, <1>3, <1>6 DEF FillOf

LEMMA ReadTyped ==
  ASSUME Typed, Read
  PROVE  Typed'
<1> DEFINE u == Head(stream)
<1>1. /\ u \in Update /\ stream' \in Seq(Update)
      /\ IsNew(u) => FillOf(u) \in Event /\ FillOf(u).shares = u.matched - Baseline(u)
      /\ Baseline(u) \in 0..Size
  BY Reads
<1>2. u.order \in Orders /\ u.matched \in 0..Size
  BY <1>1 DEF Update
<1>3. /\ tracker' = [tracker EXCEPT ![u.order] =
            IF u.kind = "cancellation" THEN Unseen
            ELSE IF IsNew(u) THEN u.matched ELSE Baseline(u)]
      /\ \/ IsNew(u) /\ events' = Append(events, FillOf(u))
            /\ emitted' = [emitted EXCEPT ![u.order] = @ + FillOf(u).shares]
         \/ UNCHANGED <<events, emitted>>
  BY DEF Read
<1> HIDE DEF u
<1>4. tracker' \in [Orders -> 0..Size \cup {Unseen}]
  BY <1>1, <1>2, <1>3 DEF Typed, TypeOK, SessionTyped
<1>5. events' \in Seq(Event)
  <2>1. events \in Seq(Event)
    BY DEF Typed, TypeOK, StateTyped
  <2>2. CASE IsNew(u) /\ events' = Append(events, FillOf(u))
    <3> DEFINE fill == FillOf(u)
    <3>1. fill \in Event /\ events' = Append(events, fill)
      BY <1>1, <2>2
    <3> HIDE DEF fill
    <3> QED
      BY <2>1, <3>1
  <2>3. CASE UNCHANGED events
    BY <2>1, <2>3
  <2> QED
    BY <1>3, <2>2, <2>3
<1>6. emitted' \in [Orders -> Nat]
  <2>1. IsNew(u) => FillOf(u).shares \in Nat
    BY <1>1, <1>2 DEF IsNew
  <2> QED
    BY <1>2, <1>3, <2>1 DEF Typed, TypeOK, SessionTyped
<1>7. SessionTyped'
  BY <1>1, <1>4, <1>6 DEF Read, Typed, TypeOK, SessionTyped
<1>8. StateTyped'
  BY <1>5 DEF Read, Typed, TypeOK, StateTyped, stateVars
<1> QED
  BY <1>7, <1>8, Frames DEF Read, Typed, TypeOK

-----------------------------------------------------------------------------
LEMMA ResyncTyped ==
  ASSUME Typed, ResyncSkip \/ ResyncFetch \/ ResyncSend
  PROVE  Typed'
<1> USE LedgerAssumption
<1>1. CASE ResyncSkip
  <2>1. SessionTyped'
    BY <1>1 DEF ResyncSkip, Typed, TypeOK, SessionTyped
  <2>2. StateTyped'
    BY <1>1, Frames DEF ResyncSkip
  <2> QED
    BY <1>1, <2>1, <2>2, Frames DEF ResyncSkip, Typed, TypeOK
<1>2. CASE ResyncFetch
  <2>1. SessionTyped'
    BY <1>2 DEF ResyncFetch, Typed, TypeOK, SessionTyped
  <2>2. Head(conn) \in 1..MaxEpoch /\ held \in Shares
    BY <1>2 DEF ResyncFetch, Typed, TypeOK, SessionTyped, ExchangeTyped
  <2>3. StateTyped'
    BY <1>2, <2>2 DEF ResyncFetch, Typed, TypeOK, StateTyped, stateVars
  <2> QED
    BY <1>2, <2>1, <2>3, Frames DEF ResyncFetch, Typed, TypeOK
<1>3. CASE ResyncSend
  <2>1. resync \in [epoch : 1..MaxEpoch, shares : Shares]
    BY <1>3 DEF ResyncSend, Typed, TypeOK, StateTyped
  <2>2. [kind |-> "seed", shares |-> resync.shares, ts |-> ConnectedAt(resync.epoch)] \in Event
    BY <2>1 DEF Event, ConnectedAt
  <2>3. events' \in Seq(Event)
    BY <1>3, <2>2 DEF ResyncSend, Typed, TypeOK, StateTyped
  <2>4. blurred' \in BOOLEAN
    BY <1>3 DEF ResyncSend, Typed, TypeOK, StateTyped
  <2>5. StateTyped'
    BY <1>3, <2>3, <2>4 DEF ResyncSend, Typed, TypeOK, StateTyped, stateVars
  <2> QED
    BY <1>3, <2>5, Frames DEF ResyncSend, Typed, TypeOK
<1> QED
  BY <1>1, <1>2, <1>3

-----------------------------------------------------------------------------
(* A handler takes the first event and leaves the others.                  *)
LEMMA Handles ==
  ASSUME Typed, events # <<>>
  PROVE  Head(events) \in Event /\ Tail(events) \in Seq(Event)
  BY DEF Typed, TypeOK, StateTyped

LEMMA ClampedIsNatural ==
  ASSUME NEW shares \in Nat, NEW less \in Nat
  PROVE  Clamped(shares, less) \in Nat
  BY DEF Clamped

LEMMA ApplyTyped ==
  ASSUME Typed, ApplyFill \/ ApplySeed \/ ApplyMerge
  PROVE  Typed'
<1> DEFINE e == Head(events)
<1>1. inv \in Shares /\ lastTrade \in Int /\ blurred \in BOOLEAN
  BY DEF Typed, TypeOK, StateTyped
<1>2. inv' \in Shares /\ lastTrade' \in Int
  <2>1. CASE ApplyFill
    <3>1. e \in [kind : {"fill"}, token : Tokens, sell : BOOLEAN, shares : 1..Size, ts : Int]
      BY <2>1, Handles DEF ApplyFill, Event
    <3>2. e.token \in Tokens /\ e.shares \in Nat /\ e.ts \in Int
      BY <3>1, LedgerAssumption
    <3>3. /\ inv' = [inv EXCEPT ![e.token] =
                IF e.sell THEN Clamped(inv[e.token], e.shares) ELSE inv[e.token] + e.shares]
          /\ lastTrade' = e.ts
      BY <2>1 DEF ApplyFill
    <3> HIDE DEF e
    <3>4. inv[e.token] \in Nat /\ Clamped(inv[e.token], e.shares) \in Nat
      BY <1>1, <3>2, ClampedIsNatural DEF Shares
    <3> QED
      BY <1>1, <3>2, <3>3, <3>4 DEF Shares
  <2>2. CASE ApplySeed
    <3>1. e \in [kind : {"seed"}, shares : Shares, ts : Int]
      BY <2>2, Handles DEF ApplySeed, Event
    <3>2. e.shares \in Shares /\ e.ts \in Int
      BY <3>1
    <3>3. UNCHANGED <<inv, lastTrade>> \/ (inv' = e.shares /\ lastTrade' = e.ts)
      BY <2>2 DEF ApplySeed, stateVars
    <3> QED
      BY <1>1, <3>2, <3>3
  <2>3. CASE ApplyMerge
    <3>1. e \in [kind : {"merge"}, sets : Nat]
      BY <2>3, Handles DEF ApplyMerge, Event
    <3>2. inv' = [t \in Tokens |-> Clamped(inv[t], e.sets)] /\ lastTrade' = lastTrade
      BY <2>3 DEF ApplyMerge
    <3>3. \A t \in Tokens : Clamped(inv[t], e.sets) \in Nat
      BY <1>1, <3>1, ClampedIsNatural DEF Shares
    <3> QED
      BY <1>1, <3>2, <3>3 DEF Shares
  <2> QED
    BY <2>1, <2>2, <2>3
<1>3. events' \in Seq(Event) /\ blurred' \in BOOLEAN
  <2>1. events' = Tail(events) /\ events # <<>>
    BY DEF ApplyFill, ApplySeed, ApplyMerge
  <2>2. blurred' \in BOOLEAN
    BY <1>1 DEF ApplyFill, ApplySeed, ApplyMerge
  <2> QED
    BY <2>1, <2>2, Handles
<1>4. UNCHANGED <<resync, quiet>>
  BY DEF ApplyFill, ApplySeed, ApplyMerge
<1>5. StateTyped'
  BY <1>2, <1>3, <1>4 DEF Typed, TypeOK, StateTyped
<1>6. UNCHANGED <<exchangeVars, sessionVars, engineVars>>
  BY DEF ApplyFill, ApplySeed, ApplyMerge
<1> QED
  BY <1>5, <1>6, Frames DEF Typed, TypeOK

-----------------------------------------------------------------------------
LEMMA EngineStepTyped ==
  ASSUME Typed, Tick \/ EngineTick \/ IntervalPasses \/ WorkerTake
  PROVE  Typed'
<1> USE LedgerAssumption
<1>1. EngineTyped'
  <2>1. CASE Tick
    <3>1. FullSets(inv) \in Nat
      BY DEF FullSets, Typed, TypeOK, StateTyped, Shares, Tokens
    <3> QED
      BY <2>1, <3>1 DEF Tick, Typed, TypeOK, EngineTyped
  <2>2. CASE EngineTick
    <3>1. snapshot \div BatchSets \in Nat
      BY DEF Typed, TypeOK, EngineTyped
    <3>2. WholeBatches(snapshot) \in Nat
      BY <3>1 DEF WholeBatches
    <3> QED
      BY <2>2, <3>2 DEF EngineTick, Typed, TypeOK, EngineTyped
  <2>3. CASE IntervalPasses
    BY <2>3 DEF IntervalPasses, Typed, TypeOK, EngineTyped
  <2>4. CASE WorkerTake
    <3>1. queue' \in Seq(Nat) /\ Head(queue) \in Nat
      BY <2>4 DEF WorkerTake, Typed, TypeOK, EngineTyped
    <3>2. worker' = [sets |-> Head(queue), mined |-> FALSE] \/ worker' = None
      BY <2>4 DEF WorkerTake
    <3>3. [sets |-> Head(queue), mined |-> FALSE] \in [sets : Nat, mined : BOOLEAN]
      BY <3>1
    <3>4. worker' \in [sets : Nat, mined : BOOLEAN] \cup {None}
      BY <3>2, <3>3
    <3> QED
      BY <2>4, <3>1, <3>4 DEF WorkerTake, Typed, TypeOK, EngineTyped
  <2> QED
    BY <2>1, <2>2, <2>3, <2>4
<1>2. UNCHANGED <<exchangeVars, sessionVars, resync, events, stateVars, quiet, blurred>>
  BY DEF Tick, EngineTick, IntervalPasses, WorkerTake
<1> QED
  BY <1>1, <1>2, Frames DEF Typed, TypeOK

LEMMA MergeStepTyped ==
  ASSUME Typed, MergeMined \/ MergeDone
  PROVE  Typed'
<1>1. worker \in [sets : Nat, mined : BOOLEAN]
  BY DEF MergeMined, MergeDone, Typed, TypeOK, EngineTyped
<1>2. CASE MergeMined
  <2>1. held' \in Shares
    <3>1. \A t \in Tokens : held[t] - worker.sets \in Nat
      BY <1>1, <1>2 DEF MergeMined, Covered, Typed, TypeOK, ExchangeTyped, Shares
    <3> QED
      BY <1>2, <3>1 DEF MergeMined, Shares
  <2>2. ExchangeTyped' /\ OpenOrdersHaveRoom'
    BY <1>2, <2>1 DEF MergeMined, Typed, TypeOK, ExchangeTyped, OpenOrdersHaveRoom
  <2>3. worker' \in [sets : Nat, mined : BOOLEAN]
    BY <1>1, <1>2 DEF MergeMined
  <2>4. EngineTyped'
    BY <1>2, <2>3 DEF MergeMined, Typed, TypeOK, EngineTyped
  <2>5. StateTyped'
    BY <1>2 DEF MergeMined, Typed, TypeOK, StateTyped, stateVars
  <2> QED
    BY <1>2, <2>2, <2>4, <2>5, Frames DEF MergeMined, Typed, TypeOK
<1>3. CASE MergeDone
  <2>1. [kind |-> "merge", sets |-> worker.sets] \in Event
    BY <1>1 DEF Event
  <2>2. events' \in Seq(Event)
    BY <1>3, <2>1 DEF MergeDone, Typed, TypeOK, StateTyped
  <2>3. blurred' \in BOOLEAN
    BY <1>3 DEF MergeDone, Typed, TypeOK, StateTyped
  <2>4. StateTyped'
    BY <1>3, <2>2, <2>3 DEF MergeDone, Typed, TypeOK, StateTyped, stateVars
  <2>5. EngineTyped'
    BY <1>3 DEF MergeDone, Typed, TypeOK, EngineTyped
  <2> QED
    BY <1>3, <2>4, <2>5, Frames DEF MergeDone, Typed, TypeOK
<1> QED
  BY <1>2, <1>3

LEMMA InitTyped == Init => Typed
<1> USE LedgerAssumption
<1> SUFFICES ASSUME Init PROVE Typed
  OBVIOUS
<1>1. ExchangeTyped /\ OpenOrdersHaveRoom
  BY DEF Init, ExchangeTyped, OpenOrdersHaveRoom, Shares
<1>2. SessionTyped
  <2>1. up = FALSE /\ stream = <<>> /\ conn = <<>> /\ epoch = 0
    BY DEF Init
  <2>2. up \in BOOLEAN /\ epoch \in 0..MaxEpoch
    <3>1. up \in BOOLEAN
      BY <2>1
    <3>2. epoch \in 0..MaxEpoch
      BY <2>1
    <3> QED
      BY <3>1, <3>2
  <2>3. stream \in Seq(Update) /\ conn \in Seq(1..MaxEpoch)
    BY <2>1
  <2>4. tracker \in [Orders -> 0..Size \cup {Unseen}] /\ emitted \in [Orders -> Nat]
    BY DEF Init
  <2> QED
    BY <2>2, <2>3, <2>4 DEF SessionTyped
<1>3. StateTyped
  <2>1. events = <<>> /\ quiet = TRUE /\ blurred = TRUE /\ resync = None
    BY DEF Init
  <2>2. events \in Seq(Event) /\ quiet \in BOOLEAN /\ blurred \in BOOLEAN
    <3>1. events \in Seq(Event)
      BY <2>1
    <3>2. quiet \in BOOLEAN /\ blurred \in BOOLEAN
      BY <2>1
    <3> QED
      BY <3>1, <3>2
  <2>3. inv \in Shares /\ lastTrade \in Int
    BY DEF Init, Shares
  <2> QED
    BY <2>1, <2>2, <2>3 DEF StateTyped
<1>4. EngineTyped
  <2>1. queue = <<>> /\ cooling = FALSE /\ snapshot = 0 /\ merges = 0 /\ worker = None
    BY DEF Init
  <2>2. queue \in Seq(Nat)
    BY <2>1
  <2>3. cooling \in BOOLEAN
    BY <2>1
  <2>4. snapshot \in Nat /\ merges \in 0..MaxMerges
    BY <2>1
  <2> QED
    BY <2>1, <2>2, <2>3, <2>4 DEF EngineTyped
<1> QED
  BY <1>1, <1>2, <1>3, <1>4 DEF Typed, TypeOK

LEMMA StepTyped == Typed /\ [Next]_vars => Typed'
<1> SUFFICES ASSUME Typed, [Next]_vars PROVE Typed'
  OBVIOUS
<1>1. CASE Next
  BY <1>1, PlaceTyped, MatchTyped, CancelTyped, SessionStepTyped, ReadTyped, ResyncTyped,
     ApplyTyped, EngineStepTyped, MergeStepTyped DEF Next
<1>2. CASE UNCHANGED vars
  BY <1>2, Frames DEF vars, Typed, TypeOK
<1> QED
  BY <1>1, <1>2

(***************************************************************************)
(* Every variable keeps its type: the inventory StateManager tracks never  *)
(* goes negative, whatever the order of fills, seeds and merges, and no    *)
(* order is matched beyond its size.                                       *)
(***************************************************************************)
THEOREM LedgerTyped == Spec => []TypeOK
<1>1. Spec => []Typed
  BY InitTyped, StepTyped, PTL DEF Spec
<1>2. Typed => TypeOK
  BY DEF Typed
<1> QED
  BY <1>1, <1>2, PTL

-----------------------------------------------------------------------------
(* The argument for NoFillTwice.  What became a fill is at most what the   *)
(* tracker has seen, and at most what every message on its way says: the   *)
(* first message of an order may set its baseline, whichever it is.        *)

\* A message on its way is no older than the fills, and true.
MessagesAreNews ==
  \A n \in 1..Len(stream) :
    /\ emitted[stream[n].order] <= stream[n].matched
    /\ stream[n].matched <= matched[stream[n].order]

\* The messages about an order come in the order of its matches.
MessagesAreOrdered ==
  \A m, n \in 1..Len(stream) :
    m < n /\ stream[m].order = stream[n].order => stream[m].matched <= stream[n].matched

TrackerCoversFills == \A o \in Orders : tracker[o] # Unseen => emitted[o] <= tracker[o]

Counted == NoFillTwice /\ MessagesAreNews /\ MessagesAreOrdered /\ TrackerCoversFills

LEMMA MessagesTyped ==
  ASSUME Typed
  PROVE  \A n \in 1..Len(stream) : stream[n].order \in Orders /\ stream[n].matched \in Nat
<1> TAKE n \in 1..Len(stream)
<1>1. stream[n] \in Update
  BY DEF Typed, TypeOK, SessionTyped
<1> QED
  BY <1>1 DEF Update

(* The exchange says how much of an order is matched.                      *)
LEMMA TellingCounts ==
  ASSUME Typed, Typed', Counted, NEW o \in Orders, NEW e \in Update,
         e.order = o, e.matched = matched'[o],
         stream' = stream \/ stream' = Append(stream, e),
         \A p \in Orders : matched[p] <= matched'[p],
         UNCHANGED <<tracker, emitted>>
  PROVE  Counted'
<1> DEFINE k == Len(stream)
<1>1. /\ k \in Nat /\ stream \in Seq(Update) /\ emitted \in [Orders -> Nat]
      /\ \A p \in Orders : matched[p] \in Nat /\ matched'[p] \in Nat
  BY DEF Typed, TypeOK, SessionTyped, ExchangeTyped
<1>2. \A n \in 1..k : stream[n].order \in Orders /\ stream[n].matched \in Nat
  BY MessagesTyped
<1>3. NoFillTwice' /\ TrackerCoversFills'
  BY <1>1 DEF Counted, NoFillTwice, TrackerCoversFills
<1>4. \/ Len(stream') = k
      \/ Len(stream') = k + 1 /\ stream'[k + 1] = e
  BY <1>1
<1>5. \A n \in 1..k : stream'[n] = stream[n]
  BY <1>1
<1> HIDE DEF k
<1>6. \A n \in 1..k : /\ emitted[stream[n].order] <= stream[n].matched
                      /\ stream[n].matched <= matched[stream[n].order]
  BY DEF Counted, MessagesAreNews, k
<1>7. emitted[o] <= matched'[o]
  BY <1>1 DEF Counted, NoFillTwice
<1>8. MessagesAreNews'
  <2> SUFFICES ASSUME NEW n \in 1..Len(stream')
               PROVE  /\ emitted[stream'[n].order] <= stream'[n].matched
                      /\ stream'[n].matched <= matched'[stream'[n].order]
    BY DEF MessagesAreNews
  <2>1. CASE n \in 1..k
    <3>1. stream'[n] = stream[n] /\ stream[n].order \in Orders
      BY <2>1, <1>2, <1>5
    <3> QED
      BY <2>1, <3>1, <1>1, <1>2, <1>6
  <2>2. CASE n \notin 1..k
    <3>1. stream'[n] = e
      BY <2>2, <1>1, <1>4
    <3> QED
      BY <3>1, <1>1, <1>7
  <2> QED
    BY <2>1, <2>2
<1>9. MessagesAreOrdered'
  <2> SUFFICES ASSUME NEW m \in 1..Len(stream'), NEW n \in 1..Len(stream'),
                      m < n, stream'[m].order = stream'[n].order
               PROVE  stream'[m].matched <= stream'[n].matched
    BY DEF MessagesAreOrdered
  <2>1. m \in 1..k /\ stream'[m] = stream[m]
    BY <1>1, <1>4, <1>5
  <2>2. CASE n \in 1..k
    BY <2>1, <2>2, <1>5 DEF Counted, MessagesAreOrdered, k
  <2>3. CASE n \notin 1..k
    <3>1. stream'[n] = e
      BY <2>3, <1>1, <1>4
    <3> QED
      BY <2>1, <3>1, <1>1, <1>2, <1>6
  <2> QED
    BY <2>2, <2>3
<1> QED
  BY <1>3, <1>8, <1>9 DEF Counted

LEMMA ExchangeStepCounts ==
  ASSUME Typed, Typed', Counted, NEW o \in Orders, Place(o) \/ Match(o) \/ Cancel(o)
  PROVE  Counted'
<1>1. PICK kind \in Kinds, ts \in Int : stream' = Told(o, kind, matched'[o], ts)
  <2>1. 2 * epoch + 1 \in Int /\ \A ts \in Stamps : ts \in Int
    BY DEF Stamps, Typed, TypeOK, SessionTyped
  <2>2. "placement" \in Kinds /\ "update" \in Kinds /\ "cancellation" \in Kinds
    BY DEF Kinds
  <2>3. CASE Place(o)
    BY <2>1, <2>2, <2>3 DEF Place
  <2>4. CASE Match(o)
    BY <2>1, <2>2, <2>4 DEF Match
  <2>5. CASE Cancel(o)
    BY <2>1, <2>2, <2>5 DEF Cancel
  <2> QED
    BY <2>3, <2>4, <2>5
<1> DEFINE e == [order |-> o, kind |-> kind, matched |-> matched'[o], ts |-> ts]
<1>2. e \in Update /\ e.order = o /\ e.matched = matched'[o]
  BY DEF Update, Typed, TypeOK, ExchangeTyped
<1>3. stream' = stream \/ stream' = Append(stream, e)
  BY <1>1 DEF Told
<1>4. \A p \in Orders : matched[p] <= matched'[p]
  BY DEF Place, Match, Cancel, Typed, TypeOK, ExchangeTyped
<1>5. UNCHANGED <<tracker, emitted>>
  BY DEF Place, Match, Cancel
<1> HIDE DEF e
<1> QED
  BY <1>2, <1>3, <1>4, <1>5, TellingCounts

LEMMA SessionStepCounts ==
  ASSUME Typed, Counted, SessionUp \/ SessionDown
  PROVE  Counted'
<1>1. NoFillTwice' /\ TrackerCoversFills'
  <2>1. CASE SessionUp
    BY <2>1 DEF SessionUp, exchangeVars, Counted, NoFillTwice, TrackerCoversFills
  <2>2. CASE SessionDown
    <3>1. NoFillTwice'
      BY <2>2 DEF SessionDown, exchangeVars, Counted, NoFillTwice
    <3>2. TrackerCoversFills'
      BY <2>2 DEF SessionDown, TrackerCoversFills
    <3> QED
      BY <3>1, <3>2
  <2> QED
    BY <2>1, <2>2
<1>2. CASE stream' = <<>>
  BY <1>1, <1>2 DEF Counted, MessagesAreNews, MessagesAreOrdered
<1>3. CASE \E open \in Injection(1..Cardinality(OpenOrders), OpenOrders) : stream' = Snapshot(open)
  <2> DEFINE k == Cardinality(OpenOrders)
  <2>1. PICK open \in [1..k -> Orders] : stream' = Snapshot(open)
    BY <1>3 DEF Injection, OpenOrders
  <2>2. k \in Nat
    <3>1. OpenOrders \in SUBSET Orders
      BY DEF OpenOrders
    <3> QED
      BY <3>1, OrdersAreFinite
  <2> HIDE DEF k
  <2>3. /\ Len(stream') = k
        /\ \A n \in 1..k : stream'[n].order = open[n] /\ stream'[n].matched = matched[open[n]]
    BY <2>1, <2>2 DEF Snapshot
  <2>4. \A n \in 1..k : open[n] \in Orders /\ matched[open[n]] \in Nat
    BY <2>1 DEF Typed, TypeOK, ExchangeTyped
  <2>5. UNCHANGED <<matched, emitted>>
    BY DEF SessionUp, SessionDown, exchangeVars
  <2>6. MessagesAreNews'
    BY <2>3, <2>4, <2>5 DEF MessagesAreNews, Counted, NoFillTwice
  <2>7. MessagesAreOrdered'
    BY <2>3, <2>4 DEF MessagesAreOrdered
  <2> QED
    BY <1>1, <2>6, <2>7 DEF Counted
<1> QED
  BY <1>2, <1>3 DEF SessionUp, SessionDown

LEMMA ReadCounts ==
  ASSUME Typed, Counted, Read
  PROVE  Counted'
<1> DEFINE u == Head(stream)
           k == Len(stream)
           o == u.order
<1>1. /\ u \in Update /\ stream' = Tail(stream)
      /\ IsNew(u) => FillOf(u).shares = u.matched - Baseline(u)
      /\ Baseline(u) \in 0..Size
  BY Reads
<1>2. o \in Orders /\ u.matched \in Nat /\ Baseline(u) \in Nat
  BY <1>1, LedgerAssumption DEF Update
<1>3. /\ k \in Nat \ {0} /\ u = stream[1] /\ Len(stream') = k - 1
      /\ \A n \in 1..(k - 1) : stream'[n] = stream[n + 1]
  BY <1>1 DEF Read, Typed, TypeOK, SessionTyped
<1>4. /\ tracker' = [tracker EXCEPT ![o] =
            IF u.kind = "cancellation" THEN Unseen
            ELSE IF IsNew(u) THEN u.matched ELSE Baseline(u)]
      /\ \/ IsNew(u) /\ emitted' = [emitted EXCEPT ![o] = @ + FillOf(u).shares]
         \/ ~IsNew(u) /\ emitted' = emitted
      /\ matched' = matched
  BY DEF Read, exchangeVars
<1>5. /\ \A p \in Orders : emitted[p] \in Nat /\ matched[p] \in Nat
      /\ emitted \in [Orders -> Nat] /\ tracker \in [Orders -> 0..Size \cup {Unseen}]
  BY DEF Typed, TypeOK, SessionTyped, ExchangeTyped
<1>6. \A n \in 1..k : /\ stream[n].order \in Orders /\ stream[n].matched \in Nat
                      /\ emitted[stream[n].order] <= stream[n].matched
                      /\ stream[n].matched <= matched[stream[n].order]
  BY MessagesTyped DEF Counted, MessagesAreNews
<1>7. \A n \in 1..k : stream[n].order = o => u.matched <= stream[n].matched
  <2> SUFFICES ASSUME NEW n \in 1..k, stream[n].order = o PROVE u.matched <= stream[n].matched
    OBVIOUS
  <2>1. CASE n = 1
    BY <2>1, <1>2, <1>3
  <2>2. CASE n # 1
    <3>1. 1 \in 1..k /\ 1 < n /\ stream[1].order = stream[n].order
      BY <2>2, <1>3
    <3> QED
      BY <3>1, <1>3 DEF Counted, MessagesAreOrdered
  <2> QED
    BY <2>1, <2>2
<1>8. emitted[o] <= Baseline(u) /\ emitted[o] <= u.matched
  <2>1. emitted[o] <= u.matched
    BY <1>3, <1>6
  <2>2. emitted[o] <= Baseline(u)
    BY <1>2, <2>1 DEF Baseline, Counted, TrackerCoversFills
  <2> QED
    BY <2>1, <2>2
<1> HIDE DEF u, k
<1>9. /\ \A p \in Orders : p # o => emitted'[p] = emitted[p] /\ tracker'[p] = tracker[p]
      /\ emitted'[o] \in Nat /\ emitted'[o] <= u.matched
      /\ tracker'[o] # Unseen => emitted'[o] <= tracker'[o]
  <2>1. CASE IsNew(u)
    <3>1. emitted'[o] = emitted[o] + (u.matched - Baseline(u)) /\ Baseline(u) < u.matched
      BY <1>1, <1>2, <1>4, <1>5, <2>1 DEF IsNew
    <3>2. tracker'[o] = u.matched
      BY <1>2, <1>4, <1>5, <2>1 DEF IsNew
    <3> QED
      BY <1>2, <1>4, <1>5, <1>8, <2>1, <3>1, <3>2
  <2>2. CASE ~IsNew(u)
    <3>1. emitted' = emitted /\ (tracker'[o] = Unseen \/ tracker'[o] = Baseline(u))
      BY <1>2, <1>4, <1>5, <2>2
    <3> QED
      BY <1>2, <1>4, <1>5, <1>8, <3>1
  <2> QED
    BY <2>1, <2>2
<1> HIDE DEF o
<1>10. \A n \in 1..(k - 1) : n + 1 \in 1..k
  BY <1>3
<1>11. NoFillTwice'
  <2>1. u.matched <= matched[o]
    BY <1>3, <1>6 DEF o
  <2> QED
    BY <1>2, <1>4, <1>5, <1>9, <2>1 DEF Counted, NoFillTwice
<1>12. TrackerCoversFills'
  BY <1>9 DEF Counted, TrackerCoversFills
<1>13. MessagesAreNews'
  <2> SUFFICES ASSUME NEW n \in 1..(k - 1)
               PROVE  /\ emitted'[stream[n + 1].order] <= stream[n + 1].matched
                      /\ stream[n + 1].matched <= matched[stream[n + 1].order]
    BY <1>3, <1>4 DEF MessagesAreNews
  <2>1. CASE stream[n + 1].order = o
    BY <2>1, <1>2, <1>6, <1>7, <1>9, <1>10
  <2>2. CASE stream[n + 1].order # o
    BY <2>2, <1>6, <1>9, <1>10
  <2> QED
    BY <2>1, <2>2
<1>14. MessagesAreOrdered'
  <2> SUFFICES ASSUME NEW m \in 1..(k - 1), NEW n \in 1..(k - 1),
                      m < n, stream[m + 1].order = stream[n + 1].order
               PROVE  stream[m + 1].matched <= stream[n + 1].matched
    BY <1>3 DEF MessagesAreOrdered
  <2>1. m + 1 \in 1..k /\ n + 1 \in 1..k /\ m + 1 < n + 1
    BY <1>10
  <2> QED
    BY <2>1 DEF Counted, MessagesAreOrdered, k
<1> QED
  BY <1>11, <1>12, <1>13, <1>14 DEF Counted

-----------------------------------------------------------------------------
(***************************************************************************)
(* No part of an order becomes a fill twice, for any number and size of    *)
(* orders and any number of sessions, whether sessions repeat the open     *)
(* orders or not.                                                          *)
(***************************************************************************)
THEOREM NothingFillsTwice == Spec => []NoFillTwice
<1>1. Init => Counted
  <2> SUFFICES ASSUME Init PROVE Counted
    OBVIOUS
  <2>1. stream = <<>> /\ \A o \in Orders : matched[o] = 0 /\ emitted[o] = 0 /\ tracker[o] = Unseen
    BY DEF Init
  <2> QED
    BY <2>1 DEF Counted, NoFillTwice, MessagesAreNews, MessagesAreOrdered, TrackerCoversFills
<1>2. Typed /\ Typed' /\ Counted /\ [Next]_vars => Counted'
  <2> SUFFICES ASSUME Typed, Typed', Counted, [Next]_vars PROVE Counted'
    OBVIOUS
  <2>1. CASE \E o \in Orders : Place(o) \/ Match(o) \/ Cancel(o)
    BY <2>1, ExchangeStepCounts
  <2>2. CASE SessionUp \/ SessionDown
    BY <2>2, SessionStepCounts
  <2>3. CASE Read
    BY <2>3, ReadCounts
  <2>4. CASE UNCHANGED <<matched, stream, tracker, emitted>>
    BY <2>4 DEF Counted, NoFillTwice, MessagesAreNews, MessagesAreOrdered, TrackerCoversFills
  <2>5. \/ \E o \in Orders : Place(o) \/ Match(o) \/ Cancel(o)
        \/ SessionUp \/ SessionDown \/ Read
        \/ UNCHANGED <<matched, stream, tracker, emitted>>
    BY DEF Next, ResyncSkip, ResyncFetch, ResyncSend, ApplyFill, ApplySeed, ApplyMerge, Tick,
           EngineTick, IntervalPasses, WorkerTake, MergeMined, MergeDone, vars, exchangeVars,
           sessionVars
  <2> QED
    BY <2>1, <2>2, <2>3, <2>4, <2>5
<1>3. Spec => []Typed
  BY InitTyped, StepTyped, PTL DEF Spec
<1>4. Counted => NoFillTwice
  BY DEF Counted
<1> QED
  BY <1>1, <1>2, <1>3, <1>4, PTL DEF Spec

-----------------------------------------------------------------------------
(* The argument for InventoryIsExact: once a clean seed is sent, what the  *)
(* inventory will be when every event and every message on its way has     *)
(* been handled is what the account holds.  Both channels are folds.       *)

\* What handling an event makes of the shares of token t, were they never clamped.
Posted(t, shares, event) ==
  IF event.kind = "seed" THEN event.shares[t]
  ELSE IF event.kind = "merge" THEN shares - event.sets
  ELSE IF event.token # t THEN shares
  ELSE IF event.sell THEN shares - event.shares ELSE shares + event.shares

BaseOf(seen, u) == IF seen[u.order] = Unseen THEN u.matched ELSE seen[u.order]
AddsTo(seen, u) == u.kind # "cancellation" /\ u.matched > BaseOf(seen, u)

\* What reading a message makes of the tracker, and of the shares of token t that fills bring.
HeardOf(t, s, u) ==
  [seen |-> [s.seen EXCEPT ![u.order] =
               IF u.kind = "cancellation" THEN Unseen
               ELSE IF AddsTo(s.seen, u) THEN u.matched ELSE BaseOf(s.seen, u)],
   gain |-> IF AddsTo(s.seen, u) /\ Token(u.order) = t
            THEN IF u.order \in Sells THEN s.gain - (u.matched - BaseOf(s.seen, u))
                                      ELSE s.gain + (u.matched - BaseOf(s.seen, u))
            ELSE s.gain]

Posting == INSTANCE FoldTheorems WITH Op <- Posted
Hearing == INSTANCE FoldTheorems WITH Op <- HeardOf

Booked(t) == Posting!Fold(t, inv[t], events)
Start(gain) == [seen |-> tracker, gain |-> gain]
Ahead(t) == Hearing!Fold(t, Start(0), stream)
Untold == IF MinedUntold THEN worker.sets ELSE 0

Ears == [seen : [Orders -> 0..Size \cup {Unseen}], gain : Int]

-----------------------------------------------------------------------------
(* The events on their way                                                 *)

LEMMA PostedTyped ==
  ASSUME NEW t \in Tokens, NEW shares \in Int, NEW event \in Event
  PROVE  Posted(t, shares, event) \in Int
<1>1. CASE event \in [kind : {"fill"}, token : Tokens, sell : BOOLEAN, shares : 1..Size, ts : Int]
  <2>1. event.kind = "fill" /\ event.shares \in Int
    BY <1>1, LedgerAssumption DEF LedgerAssumption
  <2> QED
    BY <2>1 DEF Posted
<1>2. CASE event \in [kind : {"seed"}, shares : Shares, ts : Int]
  BY <1>2 DEF Posted, Shares
<1>3. CASE event \in [kind : {"merge"}, sets : Nat]
  BY <1>3 DEF Posted
<1> QED
  BY <1>1, <1>2, <1>3 DEF Event

LEMMA PostingTyped ==
  ASSUME NEW t \in Tokens, NEW shares \in Int, NEW s \in Seq(Event)
  PROVE  Posting!Fold(t, shares, s) \in Int
<1> DEFINE n == Len(s)
<1>1. n \in Nat /\ DOMAIN s = 1..n /\ \A i \in 1..n : s[i] \in Event
  OBVIOUS
<1> HIDE DEF n
<1>2. \A e \in Int, i \in 1..n : Posted(t, e, s[i]) \in Int
  BY <1>1, PostedTyped
<1> QED
  BY <1>1, <1>2, Posting!FoldStaysIn

(* A seed on its way makes the inventory before it irrelevant.             *)
LEMMA SeedForgets ==
  ASSUME NEW t \in Tokens, NEW a, NEW b, NEW s \in Seq(Event),
         NEW k \in 1..Len(s), s[k].kind = "seed"
  PROVE  Posting!Fold(t, a, s) = Posting!Fold(t, b, s)
<1> DEFINE n == Len(s)
<1>1. n \in Nat /\ DOMAIN s = 1..n /\ k \in 1..n
  OBVIOUS
<1> HIDE DEF n
<1>2. PICK g : Posting!IsRun(g, t, a, s, n) /\ g[n] = Posting!Fold(t, a, s)
  BY <1>1, Posting!FoldHasRun
<1>3. PICK h : Posting!IsRun(h, t, b, s, n) /\ h[n] = Posting!Fold(t, b, s)
  BY <1>1, Posting!FoldHasRun
<1> DEFINE T == {i \in k..n : g[i] # h[i]}
<1>4. T = {}
  <2> SUFFICES ASSUME T # {} PROVE FALSE
    OBVIOUS
  <2>1. PICK i \in T : \A j \in T : i <= j
    <3>1. T \subseteq Nat
      BY <1>1
    <3> HIDE DEF T
    <3> QED
      BY <3>1, Posting!SmallestNat
  <2>2. i \in 1..n /\ i \in k..n
    BY <1>1
  <2>3. g[i] = Posted(t, g[i - 1], s[i]) /\ h[i] = Posted(t, h[i - 1], s[i])
    BY <1>2, <1>3, <2>2 DEF Posting!IsRun
  <2>4. CASE i = k
    BY <2>3, <2>4 DEF Posted
  <2>5. CASE i # k
    <3>1. i - 1 \in k..n /\ i - 1 < i
      BY <1>1, <2>2, <2>5
    <3>2. g[i - 1] = h[i - 1]
      BY <1>1, <2>1, <3>1
    <3> QED
      BY <2>3, <3>2
  <2> QED
    BY <2>4, <2>5
<1>5. n \in k..n
  BY <1>1
<1> QED
  BY <1>2, <1>3, <1>4, <1>5

-----------------------------------------------------------------------------
(* The messages on their way                                               *)

LEMMA HeardTyped ==
  ASSUME NEW t \in Tokens, NEW s \in Ears, NEW u \in Update
  PROVE  HeardOf(t, s, u) \in Ears
<1>1. /\ u.order \in Orders /\ u.matched \in 0..Size
      /\ s.seen \in [Orders -> 0..Size \cup {Unseen}] /\ s.gain \in Int
  BY DEF Update, Ears
<1>2. BaseOf(s.seen, u) \in 0..Size
  BY <1>1 DEF BaseOf
<1>3. u.matched \in Int /\ BaseOf(s.seen, u) \in Int
  BY <1>1, <1>2, LedgerAssumption DEF LedgerAssumption
<1> DEFINE value == IF u.kind = "cancellation" THEN Unseen
                    ELSE IF AddsTo(s.seen, u) THEN u.matched ELSE BaseOf(s.seen, u)
           gain  == IF AddsTo(s.seen, u) /\ Token(u.order) = t
                    THEN IF u.order \in Sells THEN s.gain - (u.matched - BaseOf(s.seen, u))
                                              ELSE s.gain + (u.matched - BaseOf(s.seen, u))
                    ELSE s.gain
<1>4. value \in 0..Size \cup {Unseen}
  BY <1>1, <1>2
<1>5. gain \in Int
  BY <1>1, <1>3
<1>6. HeardOf(t, s, u) = [seen |-> [s.seen EXCEPT ![u.order] = value], gain |-> gain]
  BY DEF HeardOf
<1> HIDE DEF value, gain
<1> QED
  BY <1>1, <1>4, <1>5, <1>6 DEF Ears

(* What is gained before only adds to what is gained after.                *)
LEMMA HeardShift ==
  ASSUME NEW t \in Tokens, NEW seen \in [Orders -> 0..Size \cup {Unseen}],
         NEW a \in Int, NEW s \in Seq(Update)
  PROVE  LET from == Hearing!Fold(t, [seen |-> seen, gain |-> 0], s)
         IN  /\ from \in Ears
             /\ Hearing!Fold(t, [seen |-> seen, gain |-> a], s)
                  = [seen |-> from.seen, gain |-> from.gain + a]
<1> DEFINE n == Len(s)
           zero == [seen |-> seen, gain |-> 0]
           more == [seen |-> seen, gain |-> a]
<1>1. n \in Nat /\ DOMAIN s = 1..n /\ \A i \in 1..n : s[i] \in Update
  OBVIOUS
<1>2. zero \in Ears /\ zero.seen = seen /\ zero.gain = 0 /\ more = [seen |-> seen, gain |-> a]
  BY DEF Ears
<1> HIDE DEF n, zero, more
<1>3. PICK h : Hearing!IsRun(h, t, zero, s, n) /\ h[n] = Hearing!Fold(t, zero, s)
  BY <1>1, Hearing!FoldHasRun
<1>4. \A e \in Ears, i \in 1..n : HeardOf(t, e, s[i]) \in Ears
  BY <1>1, HeardTyped
<1>5. \A i \in 0..n : h[i] \in Ears
  BY <1>1, <1>2, <1>3, <1>4, Hearing!RunStaysIn
<1> DEFINE g == [i \in 0..n |-> [seen |-> h[i].seen, gain |-> h[i].gain + a]]
<1>6. Hearing!IsRun(g, t, more, s, n)
  <2>1. g[0] = more
    <3>1. h[0] = zero /\ 0 \in 0..n
      BY <1>1, <1>3 DEF Hearing!IsRun
    <3> QED
      BY <1>2, <3>1
  <2>2. ASSUME NEW i \in 1..n
        PROVE  g[i] = HeardOf(t, g[i - 1], s[i])
    <3>1. h[i] = HeardOf(t, h[i - 1], s[i]) /\ h[i - 1] \in Ears /\ i \in 0..n /\ i - 1 \in 0..n
      BY <1>1, <1>3, <1>5 DEF Hearing!IsRun
    <3>2. ASSUME NEW e \in Ears, NEW u \in Update
          PROVE  /\ HeardOf(t, e, u).seen = HeardOf(t, [seen |-> e.seen, gain |-> e.gain + a], u).seen
                 /\ HeardOf(t, e, u).gain + a = HeardOf(t, [seen |-> e.seen, gain |-> e.gain + a], u).gain
      <4>1. e.gain \in Int /\ u.order \in Orders /\ u.matched \in 0..Size /\ e.seen \in [Orders -> 0..Size \cup {Unseen}]
        BY DEF Ears, Update
      <4>2. BaseOf(e.seen, u) \in 0..Size
        BY <4>1 DEF BaseOf
      <4>3. BaseOf(e.seen, u) \in Int /\ u.matched \in Int
        BY <4>1, <4>2, LedgerAssumption DEF LedgerAssumption
      <4> QED
        BY <4>1, <4>3 DEF HeardOf
    <3>3. /\ g[i] = [seen |-> h[i].seen, gain |-> h[i].gain + a]
          /\ g[i - 1] = [seen |-> h[i - 1].seen, gain |-> h[i - 1].gain + a]
      BY <3>1
    <3> HIDE DEF g
    <3>4. /\ h[i].seen = HeardOf(t, g[i - 1], s[i]).seen
          /\ h[i].gain + a = HeardOf(t, g[i - 1], s[i]).gain
      BY <1>1, <3>1, <3>2, <3>3
    <3>5. HeardOf(t, g[i - 1], s[i]) =
            [seen |-> HeardOf(t, g[i - 1], s[i]).seen, gain |-> HeardOf(t, g[i - 1], s[i]).gain]
      BY DEF HeardOf
    <3> QED
      BY <3>3, <3>4, <3>5
  <2> HIDE DEF g
  <2> QED
    BY <2>1, <2>2 DEF Hearing!IsRun
<1>7. g[n] = [seen |-> h[n].seen, gain |-> h[n].gain + a] /\ h[n] \in Ears
  BY <1>1, <1>5
<1> HIDE DEF g
<1>8. Hearing!Fold(t, more, s) = g[n]
  BY <1>1, <1>6, Hearing!FoldOfRun
<1> QED
  BY <1>3, <1>7, <1>8 DEF zero, more

LEMMA AheadTyped ==
  ASSUME Typed, NEW t \in Tokens
  PROVE  Ahead(t) \in Ears
<1>1. tracker \in [Orders -> 0..Size \cup {Unseen}] /\ stream \in Seq(Update) /\ 0 \in Int
  BY DEF Typed, TypeOK, SessionTyped
<1> QED
  BY <1>1, HeardShift DEF Ahead, Start

(* A message told is read last.                                            *)
LEMMA AheadTold ==
  ASSUME Typed, NEW t \in Tokens, NEW u \in Update,
         stream' = Append(stream, u), tracker' = tracker
  PROVE  Ahead(t)' = HeardOf(t, Ahead(t), u)
<1> DEFINE from == Start(0)
<1>1. stream \in Seq(Update) /\ Start(0)' = from
  BY DEF Typed, TypeOK, SessionTyped, Start
<1> HIDE DEF from
<1>2. Hearing!Fold(t, from, Append(stream, u)) = HeardOf(t, Hearing!Fold(t, from, stream), u)
  BY <1>1, Hearing!FoldAppend
<1> QED
  BY <1>1, <1>2 DEF Ahead, from

(* A message read first is gained now.                                     *)
LEMMA AheadRead ==
  ASSUME Typed, Read, NEW t \in Tokens
  PROVE  /\ Ahead(t)'.seen = Ahead(t).seen
         /\ Booked(t)' + Ahead(t)'.gain = Booked(t) + Ahead(t).gain
<1> USE LedgerAssumption
<1> DEFINE u == Head(stream)
           lot == u.matched - Baseline(u)
           d == IF IsNew(u) /\ Token(u.order) = t THEN IF u.order \in Sells THEN -lot ELSE lot ELSE 0
<1>1. /\ u \in Update /\ stream' = Tail(stream) /\ stream' \in Seq(Update)
      /\ IsNew(u) => FillOf(u) \in Event
      /\ Baseline(u) \in 0..Size
  BY Reads
<1>2. /\ u.order \in Orders /\ u.matched \in 0..Size
      /\ tracker \in [Orders -> 0..Size \cup {Unseen}] /\ tracker' \in [Orders -> 0..Size \cup {Unseen}]
  BY <1>1, ReadTyped DEF Update, Typed, TypeOK, SessionTyped
<1>3. lot \in Int /\ d \in Int
  BY <1>1, <1>2
<1>4. HeardOf(t, Start(0), u) = [seen |-> tracker', gain |-> d]
  <2>1. BaseOf(tracker, u) = Baseline(u) /\ (AddsTo(tracker, u) <=> IsNew(u))
    BY DEF BaseOf, Baseline, AddsTo, IsNew
  <2>2. tracker' = [tracker EXCEPT ![u.order] =
                      IF u.kind = "cancellation" THEN Unseen
                      ELSE IF IsNew(u) THEN u.matched ELSE Baseline(u)]
    BY DEF Read
  <2>3. 0 - lot = -lot /\ 0 + lot = lot
    BY <1>3
  <2> QED
    BY <2>1, <2>2, <2>3 DEF HeardOf, Start
<1>5. Booked(t)' = Booked(t) + d
  <2>1. Booked(t) \in Int /\ events \in Seq(Event)
    BY PostingTyped DEF Booked, Typed, TypeOK, StateTyped, Shares
  <2>2. inv' = inv
    BY DEF Read, stateVars
  <2>3. CASE ~IsNew(u)
    <3>1. events' = events /\ d = 0
      BY <2>3 DEF Read
    <3> HIDE DEF d
    <3> QED
      BY <2>1, <2>2, <3>1 DEF Booked
  <2>4. CASE IsNew(u)
    <3> DEFINE fill == FillOf(u)
    <3>1. events' = Append(events, fill) /\ fill \in Event
      BY <1>1, <2>4 DEF Read
    <3>2. /\ fill.kind = "fill" /\ fill.token = Token(u.order) /\ fill.shares = lot
          /\ fill.sell = (u.order \in Sells)
      BY DEF FillOf
    <3>3. Posted(t, Booked(t), fill) = Booked(t) + d
      <4>1. \A b \in Int : b - lot = b + (-lot) /\ b = b + 0
        BY <1>3
      <4> HIDE DEF fill, lot
      <4> QED
        BY <2>1, <2>4, <3>2, <4>1 DEF Posted
    <3> HIDE DEF fill, d
    <3>4. Posting!Fold(t, inv[t], Append(events, fill)) = Posted(t, Posting!Fold(t, inv[t], events), fill)
      BY <2>1, <3>1, Posting!FoldAppend
    <3> QED
      BY <2>2, <3>1, <3>3, <3>4 DEF Booked
  <2> QED
    BY <2>3, <2>4
<1>6. /\ Ahead(t)' \in Ears
      /\ Ahead(t) = [seen |-> Ahead(t)'.seen, gain |-> Ahead(t)'.gain + d]
  <2> DEFINE from == Start(0)  next == [seen |-> tracker', gain |-> d]
             zero == [seen |-> tracker', gain |-> 0]
  <2>1. stream \in Seq(Update) /\ stream # <<>>
    BY DEF Read, Typed, TypeOK, SessionTyped
  <2>2. Ahead(t)' = Hearing!Fold(t, zero, stream') /\ Ahead(t) = Hearing!Fold(t, from, stream)
    BY DEF Ahead, Start
  <2>3. /\ Hearing!Fold(t, zero, stream') \in Ears
        /\ Hearing!Fold(t, next, stream') =
             [seen |-> Hearing!Fold(t, zero, stream').seen,
              gain |-> Hearing!Fold(t, zero, stream').gain + d]
    <3> HIDE DEF d
    <3> QED
      BY <1>1, <1>2, <1>3, HeardShift
  <2> HIDE DEF from, next, zero, d
  <2>4. Hearing!Fold(t, from, stream) = Hearing!Fold(t, HeardOf(t, from, Head(stream)), Tail(stream))
    BY <2>1, Hearing!FoldHead
  <2> QED
    BY <1>1, <1>4, <2>2, <2>3, <2>4 DEF from, next
<1> HIDE DEF d, u, lot
<1>7. Ahead(t)'.gain \in Int /\ Booked(t) \in Int
  BY <1>6, PostingTyped DEF Ears, Booked, Typed, TypeOK, StateTyped, Shares
<1>8. Ahead(t).gain = Ahead(t)'.gain + d /\ Ahead(t).seen = Ahead(t)'.seen
  BY <1>6
<1> QED
  BY <1>3, <1>5, <1>7, <1>8

(* The event handled first is posted to the inventory.                     *)
LEMMA BookedHead ==
  ASSUME Typed, events # <<>>, NEW t \in Tokens
  PROVE  Booked(t) = Posting!Fold(t, Posted(t, inv[t], Head(events)), Tail(events))
BY Posting!FoldHead DEF Booked, Typed, TypeOK, StateTyped

(* An event sent is posted last.                                           *)
LEMMA BookedAppend ==
  ASSUME Typed, NEW t \in Tokens, NEW e \in Event, events' = Append(events, e), inv' = inv
  PROVE  Booked(t)' = Posted(t, Booked(t), e)
<1>1. Posting!Fold(t, inv[t], Append(events, e)) = Posted(t, Posting!Fold(t, inv[t], events), e)
  BY Posting!FoldAppend DEF Typed, TypeOK, StateTyped
<1> QED
  BY <1>1 DEF Booked

-----------------------------------------------------------------------------
(* Sessions, connects and stamps                                           *)

ConnectsInOrder ==
  /\ \A n \in 1..Len(conn) : conn[n] <= epoch
  /\ \A m, n \in 1..Len(conn) : m < n => conn[m] < conn[n]
  /\ resync # None => /\ resync.epoch <= epoch
                      /\ \A n \in 1..Len(conn) : resync.epoch < conn[n]

DownForgets == ~up => stream = <<>> /\ tracker = [o \in Orders |-> Unseen]

\* A merge has no stamp.
StampedBy(event, at) == event.kind = "merge" \/ event.ts <= at

StampsFollowConnects ==
  /\ \A n \in 1..Len(stream) : stream[n].ts <= 2 * epoch + 1
  /\ \A n \in 1..Len(events) : StampedBy(events[n], 2 * epoch + 1)
  /\ lastTrade <= 2 * epoch + 1

SessionsSound == ConnectsInOrder /\ DownForgets /\ StampsFollowConnects

(* What is sent to the exchange's session is one message, if it is up.     *)
LEMMA Tells ==
  ASSUME Typed, NEW o \in Orders, Place(o) \/ Match(o) \/ Cancel(o)
  PROVE  \/ ~up /\ stream' = stream
         \/ /\ up
            /\ \E u \in Update :
                 /\ stream' = Append(stream, u) /\ u.order = o /\ u.matched = matched'[o]
                 /\ u.ts <= 2 * epoch + 1
                 /\ Place(o)  => u.kind = "placement"
                 /\ Match(o)  => u.kind = "update"
                 /\ Cancel(o) => u.kind = "cancellation"
<1>1. epoch \in Int /\ matched \in [Orders -> 0..Size]
  BY DEF Typed, TypeOK, SessionTyped, ExchangeTyped
<1>2. matched'[o] \in 0..Size
  <2>1. CASE Match(o)
    BY <2>1, MatchTyped DEF Typed, TypeOK, ExchangeTyped
  <2>2. CASE Place(o) \/ Cancel(o)
    BY <1>1, <2>2 DEF Place, Cancel
  <2> QED
    BY <2>1, <2>2
<1>3. PICK kind \in Kinds, ts \in Int :
        /\ stream' = Told(o, kind, matched'[o], ts) /\ ts <= 2 * epoch + 1
        /\ Place(o)  => kind = "placement"
        /\ Match(o)  => kind = "update"
        /\ Cancel(o) => kind = "cancellation"
  <2>1. /\ 2 * epoch + 1 \in Int /\ 2 * epoch + 1 <= 2 * epoch + 1
        /\ \A ts \in Stamps : ts \in Int /\ ts <= 2 * epoch + 1
    BY <1>1 DEF Stamps
  <2>2. "placement" \in Kinds /\ "update" \in Kinds /\ "cancellation" \in Kinds
    BY DEF Kinds
  <2>3. CASE Place(o)
    <3>1. status[o] = "new" /\ stream' = Told(o, "placement", matched'[o], 2 * epoch + 1)
      BY <2>3 DEF Place
    <3>2. ~Match(o) /\ ~Cancel(o)
      BY <3>1 DEF Match, Cancel
    <3> QED
      BY <2>1, <2>2, <3>1, <3>2
  <2>4. CASE Match(o) /\ ~Cancel(o)
    <3>1. PICK ts \in Stamps : stream' = Told(o, "update", matched'[o], ts)
      BY <2>4 DEF Match
    <3>2. ~Place(o)
      BY <2>4 DEF Match, Place
    <3> QED
      BY <2>1, <2>2, <2>4, <3>1, <3>2
  <2>5. CASE Cancel(o)
    <3>1. stream' = Told(o, "cancellation", matched'[o], 2 * epoch + 1)
      BY <2>5 DEF Cancel
    <3>2. ~Place(o) /\ ~Match(o)
      <4>1. matched'[o] = matched[o] /\ matched[o] \in Int
        BY <1>1, <2>5, LedgerAssumption DEF Cancel, LedgerAssumption
      <4> QED
        BY <1>1, <2>5, <4>1 DEF Cancel, Place, Match
    <3> QED
      BY <2>1, <2>2, <3>1, <3>2
  <2> QED
    BY <2>3, <2>4, <2>5
<1> DEFINE u == [order |-> o, kind |-> kind, matched |-> matched'[o], ts |-> ts]
<1>4. u \in Update /\ u.order = o /\ u.kind = kind /\ u.matched = matched'[o] /\ u.ts = ts
  BY <1>2 DEF Update
<1>5. (up /\ stream' = Append(stream, u)) \/ (~up /\ stream' = stream)
  BY <1>3 DEF Told
<1> HIDE DEF u
<1> QED
  BY <1>3, <1>4, <1>5

LEMMA InitSessionsSound == Init => SessionsSound
<1> SUFFICES ASSUME Init PROVE SessionsSound
  OBVIOUS
<1>1. /\ stream = <<>> /\ conn = <<>> /\ events = <<>> /\ resync = None /\ epoch = 0 /\ lastTrade = 0
      /\ tracker = [o \in Orders |-> Unseen]
  BY DEF Init
<1>2. Len(stream) = 0 /\ Len(conn) = 0 /\ Len(events) = 0
  BY <1>1
<1>3. ConnectsInOrder
  BY <1>1, <1>2 DEF ConnectsInOrder
<1>4. StampsFollowConnects
  BY <1>1, <1>2 DEF StampsFollowConnects
<1> QED
  BY <1>1, <1>3, <1>4 DEF SessionsSound, DownForgets

LEMMA ConnectsStayInOrder ==
  ASSUME Typed, ConnectsInOrder, [Next]_vars
  PROVE  ConnectsInOrder'
<1>1. /\ conn \in Seq(1..MaxEpoch) /\ epoch \in Int /\ Len(conn) \in Nat
      /\ \A n \in 1..Len(conn) : conn[n] \in Int
  <2>1. conn \in Seq(1..MaxEpoch) /\ epoch \in Int
    BY DEF Typed, TypeOK, SessionTyped
  <2>2. \A n \in 1..Len(conn) : conn[n] \in 1..MaxEpoch
    <3> DEFINE Epochs == 1..MaxEpoch
    <3>1. conn \in Seq(Epochs)
      BY <2>1
    <3> HIDE DEF Epochs
    <3>2. \A n \in 1..Len(conn) : conn[n] \in Epochs
      BY <3>1
    <3> QED
      BY <3>2 DEF Epochs
  <2> QED
    BY <2>1, <2>2
<1>2. resync # None => resync.epoch \in Int
  BY DEF Typed, TypeOK, StateTyped
<1>3. CASE SessionUp
  <2>1. epoch' = epoch + 1 /\ conn' = Append(conn, epoch') /\ resync' = resync
    BY <1>3 DEF SessionUp
  <2>2. /\ Len(conn') = Len(conn) + 1 /\ conn'[Len(conn) + 1] = epoch'
        /\ \A n \in 1..Len(conn) : conn'[n] = conn[n]
    BY <1>1, <2>1
  <2>3. \A n \in 1..Len(conn') : n \in 1..Len(conn) \/ n = Len(conn) + 1
    BY <1>1, <2>2
  <2> QED
    BY <1>1, <1>2, <2>1, <2>2, <2>3 DEF ConnectsInOrder
<1>4. CASE ResyncSkip \/ ResyncFetch
  <2>1. /\ conn # <<>> /\ conn' = Tail(conn) /\ epoch' = epoch
        /\ resync' = None \/ resync'.epoch = Head(conn)
    BY <1>4 DEF ResyncSkip, ResyncFetch
  <2>2. /\ Len(conn') = Len(conn) - 1 /\ Len(conn) >= 1 /\ Head(conn) = conn[1]
        /\ \A n \in 1..Len(conn') : conn'[n] = conn[n + 1]
    BY <1>1, <2>1
  <2>3. \A n \in 1..Len(conn') : n + 1 \in 1..Len(conn) /\ 1 < n + 1
    BY <1>1, <2>2
  <2>4. 1 \in 1..Len(conn)
    BY <1>1, <2>2
  <2>5. \A n \in 1..Len(conn') : conn'[n] <= epoch'
    BY <2>1, <2>2, <2>3 DEF ConnectsInOrder
  <2>6. \A m, n \in 1..Len(conn') : m < n => conn'[m] < conn'[n]
    <3> SUFFICES ASSUME NEW m \in 1..Len(conn'), NEW n \in 1..Len(conn'), m < n
                 PROVE  conn'[m] < conn'[n]
      OBVIOUS
    <3>1. m + 1 < n + 1 /\ m + 1 \in 1..Len(conn) /\ n + 1 \in 1..Len(conn)
      BY <1>1, <2>2, <2>3
    <3> QED
      BY <2>2, <3>1 DEF ConnectsInOrder
  <2>7. resync' # None => resync'.epoch <= epoch' /\ \A n \in 1..Len(conn') : resync'.epoch < conn'[n]
    BY <2>1, <2>2, <2>3, <2>4 DEF ConnectsInOrder
  <2> QED
    BY <2>5, <2>6, <2>7 DEF ConnectsInOrder
<1>5. CASE UNCHANGED <<conn, epoch>> /\ (resync' = resync \/ resync' = None)
  BY <1>5 DEF ConnectsInOrder
<1>6. \/ SessionUp \/ ResyncSkip \/ ResyncFetch
      \/ UNCHANGED <<conn, epoch>> /\ (resync' = resync \/ resync' = None)
  BY DEF Next, vars, Place, Match, Cancel, SessionDown, Read, ResyncSend, ApplyFill, ApplySeed,
         ApplyMerge, Tick, EngineTick, IntervalPasses, WorkerTake, MergeMined, MergeDone, sessionVars
<1> QED
  BY <1>3, <1>4, <1>5, <1>6

LEMMA DownStaysForgotten ==
  ASSUME Typed, DownForgets, [Next]_vars
  PROVE  DownForgets'
<1>1. CASE \E o \in Orders : Place(o) \/ Match(o) \/ Cancel(o)
  <2>1. UNCHANGED <<up, tracker>> /\ (~up => stream' = stream)
    BY <1>1, Tells DEF Place, Match, Cancel
  <2> QED
    BY <2>1 DEF DownForgets
<1>2. CASE SessionUp \/ SessionDown
  BY <1>2 DEF SessionUp, SessionDown, DownForgets
<1>3. CASE Read
  BY <1>3 DEF Read, DownForgets
<1>4. CASE UNCHANGED <<up, stream, tracker>>
  BY <1>4 DEF DownForgets
<1>5. \/ \E o \in Orders : Place(o) \/ Match(o) \/ Cancel(o)
      \/ SessionUp \/ SessionDown \/ Read \/ UNCHANGED <<up, stream, tracker>>
  BY DEF Next, vars, ResyncSkip, ResyncFetch, ResyncSend, ApplyFill, ApplySeed,
         ApplyMerge, Tick, EngineTick, IntervalPasses, WorkerTake, MergeMined, MergeDone, sessionVars
<1> QED
  BY <1>1, <1>2, <1>3, <1>4, <1>5

LEMMA StampsStay ==
  ASSUME Typed, Typed', ConnectsInOrder, StampsFollowConnects, [Next]_vars
  PROVE  StampsFollowConnects'
<1>1. /\ epoch \in Int /\ lastTrade \in Int
      /\ stream \in Seq(Update) /\ Len(stream) \in Nat /\ events \in Seq(Event) /\ Len(events) \in Nat
  BY DEF Typed, TypeOK, SessionTyped, StateTyped
<1>2. CASE \E o \in Orders : Place(o) \/ Match(o) \/ Cancel(o)
  <2>1. UNCHANGED <<epoch, events, lastTrade>>
    BY <1>2 DEF Place, Match, Cancel, stateVars
  <2>2. stream' = stream \/ \E u \in Update : stream' = Append(stream, u) /\ u.ts <= 2 * epoch + 1
    BY <1>2, Tells
  <2>3. \A n \in 1..Len(stream') : stream'[n].ts <= 2 * epoch + 1
    <3>1. CASE stream' = stream
      BY <3>1 DEF StampsFollowConnects
    <3>2. CASE \E u \in Update : stream' = Append(stream, u) /\ u.ts <= 2 * epoch + 1
      <4>1. PICK u \in Update : stream' = Append(stream, u) /\ u.ts <= 2 * epoch + 1
        BY <3>2
      <4>2. \A n \in 1..Len(stream') : stream'[n] = u \/ (n \in 1..Len(stream) /\ stream'[n] = stream[n])
        BY <1>1, <4>1
      <4> QED
        BY <4>1, <4>2 DEF StampsFollowConnects
    <3> QED
      BY <2>2, <3>1, <3>2
  <2> QED
    BY <2>1, <2>3 DEF StampsFollowConnects
<1>3. CASE SessionUp
  <2>1. epoch' = epoch + 1 /\ UNCHANGED <<events, lastTrade>>
    BY <1>3 DEF SessionUp, stateVars
  <2>2. \A n \in 1..Len(stream') : stream'[n].ts <= 2 * epoch' + 1
    <3>1. CASE stream' = <<>>
      <4>1. Len(stream') = 0
        BY <3>1
      <4> QED
        BY <4>1
    <3>2. CASE \E open \in Injection(1..Cardinality(OpenOrders), OpenOrders) : stream' = Snapshot(open)
      <4>1. PICK open \in Injection(1..Cardinality(OpenOrders), OpenOrders) : stream' = Snapshot(open)
        BY <3>2
      <4>2. \A n \in DOMAIN stream' : stream'[n].ts = 2 * epoch' + 1
        BY <4>1 DEF Snapshot
      <4>3. stream' \in Seq(Update) /\ 2 * epoch' + 1 \in Int
        BY <1>1, <2>1 DEF Typed, TypeOK, SessionTyped
      <4> QED
        BY <4>2, <4>3
    <3> QED
      BY <1>3, <3>1, <3>2 DEF SessionUp
  <2>3. \A event \in Event : StampedBy(event, 2 * epoch + 1) => StampedBy(event, 2 * epoch' + 1)
    <3> SUFFICES ASSUME NEW event \in Event, StampedBy(event, 2 * epoch + 1)
                 PROVE  StampedBy(event, 2 * epoch' + 1)
      OBVIOUS
    <3>1. CASE event.kind = "merge"
      BY <3>1 DEF StampedBy
    <3>2. CASE event.ts \in Int /\ event.ts <= 2 * epoch + 1
      BY <1>1, <2>1, <3>2 DEF StampedBy
    <3> QED
      BY <3>1, <3>2 DEF StampedBy, Event
  <2>4. \A n \in 1..Len(events) : events[n] \in Event
    BY <1>1
  <2> QED
    BY <1>1, <2>1, <2>2, <2>3, <2>4 DEF StampsFollowConnects
<1>4. CASE SessionDown
  <2>1. stream' = <<>> /\ UNCHANGED <<epoch, events, lastTrade>>
    BY <1>4 DEF SessionDown, stateVars
  <2>2. Len(stream') = 0
    BY <2>1
  <2> QED
    BY <2>1, <2>2 DEF StampsFollowConnects
<1>5. CASE Read
  <2>1. /\ stream # <<>> /\ stream' = Tail(stream) /\ UNCHANGED <<epoch, lastTrade>>
        /\ events' = events \/ events' = Append(events, FillOf(Head(stream)))
    BY <1>5 DEF Read, stateVars
  <2>2. /\ \A n \in 1..Len(stream') : n + 1 \in 1..Len(stream) /\ stream'[n] = stream[n + 1]
        /\ 1 \in 1..Len(stream) /\ Head(stream) = stream[1]
    BY <1>1, <2>1
  <2>3. FillOf(Head(stream)).ts = Head(stream).ts
    BY DEF FillOf
  <2>4. StampedBy(FillOf(Head(stream)), 2 * epoch + 1)
    BY <2>2, <2>3 DEF StampedBy, StampsFollowConnects
  <2>5. \A n \in 1..Len(events') :
          events'[n] = FillOf(Head(stream)) \/ (n \in 1..Len(events) /\ events'[n] = events[n])
    BY <1>1, <2>1
  <2> QED
    BY <2>1, <2>2, <2>4, <2>5 DEF StampsFollowConnects
<1>6. CASE ResyncSend \/ MergeDone
  <2>1. UNCHANGED <<stream, epoch, lastTrade>>
    BY <1>6 DEF ResyncSend, MergeDone, sessionVars, stateVars
  <2>2. events' = events \/ \E e : events' = Append(events, e) /\ StampedBy(e, 2 * epoch + 1)
    <3>1. CASE ResyncSend
      <4> DEFINE e == [kind |-> "seed", shares |-> resync.shares, ts |-> ConnectedAt(resync.epoch)]
      <4>1. events' = events \/ events' = Append(events, e)
        BY <3>1 DEF ResyncSend
      <4>2. e.ts = 2 * resync.epoch /\ resync.epoch <= epoch /\ resync.epoch \in Int
        BY <3>1 DEF ConnectedAt, ResyncSend, ConnectsInOrder, Typed, TypeOK, StateTyped
      <4>3. StampedBy(e, 2 * epoch + 1)
        BY <1>1, <4>2 DEF StampedBy
      <4> QED
        BY <4>1, <4>3
    <3>2. CASE MergeDone
      <4> DEFINE e == [kind |-> "merge", sets |-> worker.sets]
      <4>1. events' = events \/ events' = Append(events, e)
        BY <3>2 DEF MergeDone
      <4>2. StampedBy(e, 2 * epoch + 1)
        BY DEF StampedBy
      <4> QED
        BY <4>1, <4>2
    <3> QED
      BY <1>6, <3>1, <3>2
  <2>3. CASE events' = events
    BY <2>1, <2>3 DEF StampsFollowConnects
  <2>4. CASE \E e : events' = Append(events, e) /\ StampedBy(e, 2 * epoch + 1)
    <3>1. PICK e : events' = Append(events, e) /\ StampedBy(e, 2 * epoch + 1)
      BY <2>4
    <3>2. \A n \in 1..Len(events') : events'[n] = e \/ (n \in 1..Len(events) /\ events'[n] = events[n])
      BY <1>1, <3>1
    <3> QED
      BY <2>1, <3>1, <3>2 DEF StampsFollowConnects
  <2> QED
    BY <2>2, <2>3, <2>4
<1>7. CASE ApplyFill \/ ApplySeed \/ ApplyMerge
  <2>1. /\ events # <<>> /\ events' = Tail(events) /\ UNCHANGED <<stream, epoch>>
        /\ lastTrade' = lastTrade \/ (Head(events).kind # "merge" /\ lastTrade' = Head(events).ts)
    BY <1>7 DEF ApplyFill, ApplySeed, ApplyMerge, sessionVars, stateVars
  <2>2. /\ \A n \in 1..Len(events') : n + 1 \in 1..Len(events) /\ events'[n] = events[n + 1]
        /\ 1 \in 1..Len(events) /\ Head(events) = events[1]
    BY <1>1, <2>1
  <2>3. lastTrade' <= 2 * epoch + 1
    BY <2>1, <2>2 DEF StampsFollowConnects, StampedBy
  <2> QED
    BY <2>1, <2>2, <2>3 DEF StampsFollowConnects
<1>8. CASE UNCHANGED <<stream, events, epoch, lastTrade>>
  BY <1>8 DEF StampsFollowConnects
<1>9. \/ \E o \in Orders : Place(o) \/ Match(o) \/ Cancel(o)
      \/ SessionUp \/ SessionDown \/ Read \/ ResyncSend \/ MergeDone
      \/ ApplyFill \/ ApplySeed \/ ApplyMerge
      \/ UNCHANGED <<stream, events, epoch, lastTrade>>
  BY DEF Next, vars, ResyncSkip, ResyncFetch, Tick, EngineTick, IntervalPasses, WorkerTake,
         MergeMined, sessionVars, stateVars
<1> QED
  BY <1>2, <1>3, <1>4, <1>5, <1>6, <1>7, <1>8, <1>9

-----------------------------------------------------------------------------
(* A session in which nothing has been matched or merged yet               *)

QuietSession ==
  up /\ quiet =>
    /\ \A n \in 1..Len(stream) : stream[n].matched = matched[stream[n].order]
    /\ \A o \in Orders : tracker[o] \in {Unseen, matched[o]}
    /\ \A n \in 1..Len(events) : StampedBy(events[n], 2 * epoch)
    /\ lastTrade <= 2 * epoch
    /\ ~MinedUntold
    /\ resync # None /\ resync.epoch = epoch => resync.shares = held

(* What is sent in a quiet session is no fill of it.                       *)
LEMMA QuietEvents ==
  ASSUME Typed, StampsFollowConnects, QuietSession, up, quiet, NEW e, StampedBy(e, 2 * epoch),
         events' = events \/ events' = Append(events, e), epoch' = epoch
  PROVE  \A n \in 1..Len(events') : StampedBy(events'[n], 2 * epoch')
<1>1. events \in Seq(Event) /\ Len(events) \in Nat
  BY DEF Typed, TypeOK, StateTyped
<1>2. \A n \in 1..Len(events') : events'[n] = e \/ (n \in 1..Len(events) /\ events'[n] = events[n])
  BY <1>1
<1> QED
  BY <1>2 DEF QuietSession

LEMMA QuietTold ==
  ASSUME Typed, SessionsSound, QuietSession, NEW o \in Orders, Place(o) \/ Match(o) \/ Cancel(o)
  PROVE  QuietSession'
<1>1. CASE Match(o)
  BY <1>1 DEF Match, QuietSession
<1>2. CASE ~Match(o)
  <2> SUFFICES ASSUME up, quiet PROVE QuietSession'
    BY <1>2 DEF Place, Cancel, QuietSession
  <2>1. UNCHANGED <<matched, held, up, quiet, epoch, tracker, events, lastTrade, resync, worker>>
    BY <1>2 DEF Place, Cancel, stateVars, engineVars
  <2>2. PICK u \in Update : stream' = Append(stream, u) /\ u.order = o /\ u.matched = matched'[o]
    BY Tells
  <2>3. stream \in Seq(Update)
    BY DEF Typed, TypeOK, SessionTyped
  <2>4. \A n \in 1..Len(stream') : stream'[n] = u \/ (n \in 1..Len(stream) /\ stream'[n] = stream[n])
    BY <2>2, <2>3
  <2>5. \A n \in 1..Len(stream') : stream'[n].matched = matched'[stream'[n].order]
    BY <2>1, <2>2, <2>4 DEF QuietSession
  <2> QED
    BY <2>1, <2>5 DEF QuietSession, MinedUntold
<1> QED
  BY <1>1, <1>2

(* A session starts with what is matched, and forgets what was read before.*)
LEMMA QuietUp ==
  ASSUME Typed, SessionsSound, SessionUp
  PROVE  QuietSession'
<1>1. /\ epoch \in Int /\ epoch' = epoch + 1 /\ ~up /\ quiet' = ~MinedUntold
      /\ UNCHANGED <<matched, tracker, events, lastTrade, resync, worker, held>>
  BY DEF SessionUp, exchangeVars, stateVars, engineVars, Typed, TypeOK, SessionTyped
<1>2. tracker = [o \in Orders |-> Unseen]
  BY <1>1 DEF SessionsSound, DownForgets
<1>3. \A n \in 1..Len(stream') : stream'[n].matched = matched'[stream'[n].order]
  <2>1. CASE stream' = <<>>
    <3>1. Len(stream') = 0
      BY <2>1
    <3> QED
      BY <3>1
  <2>2. CASE \E open \in Injection(1..Cardinality(OpenOrders), OpenOrders) : stream' = Snapshot(open)
    <3>1. PICK open \in Injection(1..Cardinality(OpenOrders), OpenOrders) : stream' = Snapshot(open)
      BY <2>2
    <3>2. \A n \in DOMAIN stream' : stream'[n].matched = matched[stream'[n].order]
      BY <3>1 DEF Snapshot
    <3>3. stream' \in Seq(Update)
      BY SessionStepTyped DEF Typed, TypeOK, SessionTyped
    <3> QED
      BY <1>1, <3>2, <3>3
  <2> QED
    BY <2>1, <2>2 DEF SessionUp
<1>4. \A n \in 1..Len(events') : StampedBy(events'[n], 2 * epoch')
  <2> SUFFICES ASSUME NEW n \in 1..Len(events) PROVE StampedBy(events[n], 2 * epoch')
    BY <1>1
  <2>1. events[n] \in Event /\ StampedBy(events[n], 2 * epoch + 1)
    BY DEF SessionsSound, StampsFollowConnects, Typed, TypeOK, StateTyped
  <2>2. events[n].kind = "merge" \/ events[n].ts \in Int
    BY <2>1 DEF Event
  <2> QED
    BY <1>1, <2>1, <2>2 DEF StampedBy
<1>5. lastTrade' <= 2 * epoch'
  BY <1>1 DEF SessionsSound, StampsFollowConnects, Typed, TypeOK, StateTyped
<1>6. ~(resync' # None /\ resync'.epoch = epoch')
  <2>1. resync # None => resync.epoch \in Int
    BY DEF Typed, TypeOK, StateTyped
  <2> QED
    BY <1>1, <2>1 DEF SessionsSound, ConnectsInOrder
<1>7. MinedUntold' = MinedUntold
  BY <1>1 DEF MinedUntold
<1> QED
  BY <1>1, <1>2, <1>3, <1>4, <1>5, <1>6, <1>7 DEF QuietSession

LEMMA QuietRead ==
  ASSUME Typed, SessionsSound, QuietSession, Read
  PROVE  QuietSession'
<1> SUFFICES ASSUME up, quiet PROVE QuietSession'
  BY DEF Read, QuietSession
<1> DEFINE u == Head(stream)
<1>1. /\ stream \in Seq(Update) /\ stream # <<>> /\ stream' = Tail(stream)
      /\ tracker \in [Orders -> 0..Size \cup {Unseen}]
      /\ UNCHANGED <<matched, held, up, quiet, epoch, lastTrade, resync, worker>>
  BY DEF Read, Typed, TypeOK, SessionTyped, exchangeVars, stateVars, engineVars
<1>2. /\ \A n \in 1..Len(stream') : n + 1 \in 1..Len(stream) /\ stream'[n] = stream[n + 1]
      /\ 1 \in 1..Len(stream) /\ u = stream[1] /\ u \in Update
  BY <1>1
<1>3. u.order \in Orders /\ u.matched = matched[u.order] /\ matched[u.order] \in Int
  <2>1. u.order \in Orders /\ matched[u.order] \in 0..Size
    BY <1>2 DEF Update, Typed, TypeOK, ExchangeTyped
  <2> QED
    BY <1>2, <2>1, LedgerAssumption DEF QuietSession, LedgerAssumption
<1> HIDE DEF u
<1>4. Baseline(u) = matched[u.order] /\ ~IsNew(u)
  <2>1. tracker[u.order] \in {Unseen, matched[u.order]}
    BY <1>3 DEF QuietSession
  <2> QED
    BY <1>3, <2>1 DEF Baseline, IsNew
<1>5. events' = events
  BY <1>4 DEF Read, u
<1>6. \A o \in Orders : tracker'[o] \in {Unseen, matched[o]}
  <2>1. tracker' = [tracker EXCEPT ![u.order] =
                      IF u.kind = "cancellation" THEN Unseen ELSE Baseline(u)]
    BY <1>4 DEF Read, u
  <2> QED
    BY <1>1, <1>4, <2>1 DEF QuietSession
<1>7. \A n \in 1..Len(stream') : stream'[n].matched = matched[stream'[n].order]
  BY <1>2 DEF QuietSession
<1> QED
  BY <1>1, <1>5, <1>6, <1>7 DEF QuietSession, MinedUntold

LEMMA QuietResync ==
  ASSUME Typed, SessionsSound, QuietSession, ResyncSkip \/ ResyncFetch \/ ResyncSend
  PROVE  QuietSession'
<1> SUFFICES ASSUME up, quiet PROVE QuietSession'
  BY DEF ResyncSkip, ResyncFetch, ResyncSend, sessionVars, QuietSession
<1>1. UNCHANGED <<matched, held, up, quiet, epoch, stream, tracker, lastTrade, worker>>
  BY DEF ResyncSkip, ResyncFetch, ResyncSend, exchangeVars, sessionVars, stateVars, engineVars
<1>2. resync' # None => resync' = resync \/ resync'.shares = held
  <2>1. CASE ResyncSkip
    BY <2>1 DEF ResyncSkip
  <2>2. CASE ResyncFetch
    BY <2>2 DEF ResyncFetch
  <2>3. CASE ResyncSend
    BY <2>3 DEF ResyncSend
  <2> QED
    BY <2>1, <2>2, <2>3
<1>3. \A n \in 1..Len(events') : StampedBy(events'[n], 2 * epoch')
  <2>1. CASE ResyncSkip \/ ResyncFetch
    BY <1>1, <2>1 DEF ResyncSkip, ResyncFetch, QuietSession
  <2>2. CASE ResyncSend
    <3> DEFINE e == [kind |-> "seed", shares |-> resync.shares, ts |-> ConnectedAt(resync.epoch)]
    <3>1. events' = events \/ events' = Append(events, e)
      BY <2>2 DEF ResyncSend
    <3>2. e.ts = 2 * resync.epoch /\ resync.epoch <= epoch /\ resync.epoch \in Int /\ epoch \in Int
      BY <2>2 DEF ConnectedAt, ResyncSend, SessionsSound, ConnectsInOrder, Typed, TypeOK, StateTyped, SessionTyped
    <3>3. StampedBy(e, 2 * epoch)
      BY <3>2 DEF StampedBy
    <3> HIDE DEF e
    <3> QED
      BY <1>1, <3>1, <3>3, QuietEvents DEF SessionsSound
  <2> QED
    BY <2>1, <2>2
<1> QED
  BY <1>1, <1>2, <1>3 DEF QuietSession, MinedUntold

LEMMA QuietApply ==
  ASSUME Typed, QuietSession, ApplyFill \/ ApplySeed \/ ApplyMerge
  PROVE  QuietSession'
<1> SUFFICES ASSUME up, quiet PROVE QuietSession'
  BY DEF ApplyFill, ApplySeed, ApplyMerge, sessionVars, QuietSession
<1>1. UNCHANGED <<matched, held, up, quiet, epoch, stream, tracker, resync, worker>>
  BY DEF ApplyFill, ApplySeed, ApplyMerge, exchangeVars, sessionVars, engineVars
<1>2. /\ events # <<>> /\ events' = Tail(events)
      /\ lastTrade' = lastTrade \/ (Head(events).kind # "merge" /\ lastTrade' = Head(events).ts)
  BY DEF ApplyFill, ApplySeed, ApplyMerge, stateVars
<1>3. /\ \A n \in 1..Len(events') : n + 1 \in 1..Len(events) /\ events'[n] = events[n + 1]
      /\ 1 \in 1..Len(events) /\ Head(events) = events[1]
  BY <1>2 DEF Typed, TypeOK, StateTyped
<1>4. lastTrade' <= 2 * epoch
  BY <1>2, <1>3 DEF QuietSession, StampedBy
<1>5. \A n \in 1..Len(events') : StampedBy(events'[n], 2 * epoch)
  BY <1>3 DEF QuietSession
<1> QED
  BY <1>1, <1>4, <1>5 DEF QuietSession, MinedUntold

LEMMA QuietMerge ==
  ASSUME Typed, SessionsSound, QuietSession, MergeMined \/ MergeDone \/ WorkerTake
  PROVE  QuietSession'
<1>1. CASE MergeMined
  BY <1>1 DEF MergeMined, QuietSession
<1>2. CASE WorkerTake
  <2>1. /\ UNCHANGED <<matched, held, up, quiet, epoch, stream, tracker, resync, events, lastTrade>>
        /\ ~MinedUntold'
    BY <1>2 DEF WorkerTake, exchangeVars, sessionVars, stateVars, MinedUntold, None
  <2> QED
    BY <2>1 DEF QuietSession
<1>3. CASE MergeDone
  <2> SUFFICES ASSUME up, quiet PROVE QuietSession'
    BY <1>3 DEF MergeDone, sessionVars, QuietSession
  <2> DEFINE e == [kind |-> "merge", sets |-> worker.sets]
  <2>1. /\ UNCHANGED <<matched, held, up, quiet, epoch, stream, tracker, resync, lastTrade>>
        /\ worker' = None /\ (events' = events \/ events' = Append(events, e))
    BY <1>3 DEF MergeDone, exchangeVars, sessionVars, stateVars
  <2>2. StampedBy(e, 2 * epoch)
    BY DEF StampedBy
  <2> HIDE DEF e
  <2>3. \A n \in 1..Len(events') : StampedBy(events'[n], 2 * epoch')
    BY <2>1, <2>2, QuietEvents DEF SessionsSound
  <2> QED
    BY <2>1, <2>3 DEF QuietSession, MinedUntold
<1> QED
  BY <1>1, <1>2, <1>3

LEMMA QuietStays ==
  ASSUME Typed, SessionsSound, QuietSession, [Next]_vars
  PROVE  QuietSession'
<1>1. CASE SessionDown
  BY <1>1 DEF SessionDown, QuietSession
<1>2. CASE Tick \/ EngineTick \/ IntervalPasses \/ UNCHANGED vars
  <2>1. UNCHANGED <<matched, held, up, quiet, epoch, stream, tracker, resync, events, lastTrade, worker>>
    BY <1>2 DEF Tick, EngineTick, IntervalPasses, vars, exchangeVars, sessionVars, stateVars, engineVars
  <2> QED
    BY <2>1 DEF QuietSession, MinedUntold
<1> QED
  BY <1>1, <1>2, QuietTold, QuietUp, QuietRead, QuietResync, QuietApply, QuietMerge DEF Next

-----------------------------------------------------------------------------
(* What the tracker knows once all messages are read                       *)

TrackersCatchUp ==
  up => \A t \in Tokens, o \in Orders :
          /\ Ahead(t).seen[o] \in {Unseen, matched[o]}
          /\ status[o] = "live" => Ahead(t).seen[o] = matched[o]

(* What a message of order o makes of the tracker and of the shares gained.*)
LEMMA HeardAbout ==
  ASSUME NEW t \in Tokens, NEW e \in Ears, NEW u \in Update, NEW m \in 0..Size,
         e.seen[u.order] \in {Unseen, m}, e.seen[u.order] = m \/ u.matched = m, m <= u.matched
  PROVE  LET h == HeardOf(t, e, u)
         IN  /\ h \in Ears
             /\ \A o \in Orders : o # u.order => h.seen[o] = e.seen[o]
             /\ u.kind = "cancellation" => h.seen[u.order] = Unseen /\ h.gain = e.gain
             /\ u.kind # "cancellation" =>
                  /\ h.seen[u.order] = u.matched
                  /\ h.gain = IF Token(u.order) # t THEN e.gain
                              ELSE IF u.order \in Sells THEN e.gain - (u.matched - m)
                                                        ELSE e.gain + (u.matched - m)
<1> DEFINE h == HeardOf(t, e, u)
<1>1. /\ u.order \in Orders /\ u.matched \in Int /\ m \in Int
      /\ e.seen \in [Orders -> 0..Size \cup {Unseen}] /\ e.gain \in Int
  BY LedgerAssumption DEF Update, Ears, LedgerAssumption
<1>2. h \in Ears
  BY HeardTyped
<1>3. \A o \in Orders : o # u.order => h.seen[o] = e.seen[o]
  BY <1>1 DEF HeardOf
<1>4. BaseOf(e.seen, u) = m
  <2>1. m # Unseen
    BY LedgerAssumption DEF Unseen, LedgerAssumption
  <2> QED
    BY <2>1 DEF BaseOf
<1>5. CASE u.kind = "cancellation"
  <2>1. h.seen[u.order] = Unseen /\ h.gain = e.gain
    BY <1>1, <1>5 DEF HeardOf, AddsTo
  <2> QED
    BY <1>2, <1>3, <1>5, <2>1
<1>6. CASE u.kind # "cancellation"
  <2>1. AddsTo(e.seen, u) <=> u.matched > m
    BY <1>4, <1>6 DEF AddsTo
  <2>2. ~AddsTo(e.seen, u) => u.matched = m /\ e.gain = e.gain - (u.matched - m) /\ e.gain = e.gain + (u.matched - m)
    BY <1>1, <2>1
  <2>3. h.seen[u.order] = u.matched
    BY <1>1, <1>4, <1>6, <2>2 DEF HeardOf
  <2>4. h.gain = IF Token(u.order) # t THEN e.gain
                 ELSE IF u.order \in Sells THEN e.gain - (u.matched - m)
                                           ELSE e.gain + (u.matched - m)
    BY <1>4, <2>2 DEF HeardOf
  <2> QED
    BY <1>2, <1>3, <1>6, <2>3, <2>4
<1> QED
  BY <1>5, <1>6

(* What is told of a change is what the change adds to the account.        *)
LEMMA TellsTheChange ==
  ASSUME Typed, TrackersCatchUp, up, NEW o \in Orders, Place(o) \/ Match(o) \/ Cancel(o)
  PROVE  /\ TrackersCatchUp'
         /\ \A t \in Tokens : /\ Ahead(t).gain \in Int
                              /\ Ahead(t)'.gain - held'[t] = Ahead(t).gain - held[t]
<1>1. PICK u \in Update :
        /\ stream' = Append(stream, u) /\ u.order = o /\ u.matched = matched'[o]
        /\ Place(o)  => u.kind = "placement"
        /\ Match(o)  => u.kind = "update"
        /\ Cancel(o) => u.kind = "cancellation"
  BY Tells
<1>2. tracker' = tracker /\ up' = up
  BY DEF Place, Match, Cancel
<1>3. /\ matched \in [Orders -> 0..Size] /\ matched[o] \in 0..Size /\ matched[o] \in Int
      /\ status \in [Orders -> {"new", "live", "gone"}]
      /\ held \in [Tokens -> Nat] /\ \A t \in Tokens : held[t] \in Int
  BY LedgerAssumption DEF Typed, TypeOK, ExchangeTyped, Shares, LedgerAssumption
<1>4. \A p \in Orders : p # o => matched'[p] = matched[p] /\ status'[p] = status[p]
  BY <1>3 DEF Place, Match, Cancel
<1>5. ASSUME NEW t \in Tokens
      PROVE  /\ \A p \in Orders : /\ Ahead(t)'.seen[p] \in {Unseen, matched'[p]}
                                  /\ status'[p] = "live" => Ahead(t)'.seen[p] = matched'[p]
             /\ Ahead(t).gain \in Int
             /\ Ahead(t)'.gain - held'[t] = Ahead(t).gain - held[t]
  <2> DEFINE e == Ahead(t)  h == HeardOf(t, e, u)
  <2>1. e \in Ears /\ e.gain \in Int
    BY AheadTyped DEF Ears
  <2>2. Ahead(t)' = h
    BY <1>1, <1>2, AheadTold
  <2>3. \A p \in Orders : /\ e.seen[p] \in {Unseen, matched[p]}
                          /\ status[p] = "live" => e.seen[p] = matched[p]
    BY DEF TrackersCatchUp
  <2>4. /\ e.seen[o] = matched[o] \/ matched'[o] = matched[o]
        /\ matched[o] <= matched'[o]
    <3>1. CASE Place(o) \/ Cancel(o)
      <4>1. matched' = matched
        BY <3>1 DEF Place, Cancel
      <4> QED
        BY <1>3, <4>1
    <3>2. CASE Match(o)
      <4>1. matched'[o] = matched[o] + 1 /\ status[o] = "live"
        BY <1>3, <3>2 DEF Match
      <4> QED
        BY <1>3, <2>3, <4>1
    <3> QED
      BY <3>1, <3>2
  <2> HIDE DEF e, h
  <2>5. /\ \A p \in Orders : p # o => h.seen[p] = e.seen[p]
        /\ u.kind = "cancellation" => h.seen[o] = Unseen /\ h.gain = e.gain
        /\ u.kind # "cancellation" =>
             /\ h.seen[o] = u.matched
             /\ h.gain = IF Token(o) # t THEN e.gain
                         ELSE IF o \in Sells THEN e.gain - (u.matched - matched[o])
                                             ELSE e.gain + (u.matched - matched[o])
    BY <1>1, <1>3, <2>1, <2>3, <2>4, HeardAbout DEF h
  <2>6. \A p \in Orders : p # o => /\ h.seen[p] \in {Unseen, matched'[p]}
                                   /\ status'[p] = "live" => h.seen[p] = matched'[p]
    BY <1>4, <2>3, <2>5
  <2>7. /\ h.seen[o] \in {Unseen, matched'[o]}
        /\ status'[o] = "live" => h.seen[o] = matched'[o]
    <3>1. CASE Place(o) \/ Match(o)
      BY <1>1, <2>5, <3>1
    <3>2. CASE Cancel(o)
      <4>1. status'[o] = "gone"
        BY <1>3, <3>2 DEF Cancel
      <4> QED
        BY <1>1, <2>5, <3>2, <4>1
    <3> QED
      BY <3>1, <3>2
  <2>8. h.gain - held'[t] = e.gain - held[t]
    <3>1. CASE Place(o)
      <4>1. matched'[o] = matched[o] /\ held' = held /\ u.kind # "cancellation"
        BY <1>1, <3>1 DEF Place
      <4> QED
        BY <1>1, <1>3, <2>1, <2>5, <4>1
    <3>2. CASE Cancel(o)
      <4>1. held' = held
        BY <3>2 DEF Cancel
      <4> QED
        BY <1>1, <2>5, <3>2, <4>1
    <3>3. CASE Match(o)
      <4>1. matched'[o] = matched[o] + 1 /\ u.kind # "cancellation"
        BY <1>1, <1>3, <3>3 DEF Match
      <4>2. u.matched - matched[o] = 1
        BY <1>1, <1>3, <4>1
      <4>3. held'[t] = IF Token(o) # t THEN held[t] ELSE IF o \in Sells THEN held[t] - 1 ELSE held[t] + 1
        BY <1>3, <3>3 DEF Match
      <4>4. h.gain = IF Token(o) # t THEN e.gain ELSE IF o \in Sells THEN e.gain - 1 ELSE e.gain + 1
        BY <2>5, <4>1, <4>2
      <4> QED
        BY <1>3, <2>1, <4>3, <4>4
    <3> QED
      BY <3>1, <3>2, <3>3
  <2>9. \A p \in Orders : /\ h.seen[p] \in {Unseen, matched'[p]}
                          /\ status'[p] = "live" => h.seen[p] = matched'[p]
    BY <2>6, <2>7
  <2> QED
    BY <2>1, <2>2, <2>8, <2>9 DEF e
<1>6. TrackersCatchUp'
  BY <1>5 DEF TrackersCatchUp
<1> QED
  BY <1>5, <1>6

(* A session that starts by repeating the open orders sees each of them.   *)
LEMMA CatchUpStarts ==
  ASSUME Replays, Typed, SessionsSound, SessionUp
  PROVE  TrackersCatchUp'
<1> DEFINE count == Cardinality(OpenOrders)
<1>1. PICK open \in Injection(1..count, OpenOrders) : stream' = Snapshot(open)
  BY DEF SessionUp
<1>2. tracker' = [o \in Orders |-> Unseen] /\ UNCHANGED <<matched, status>>
  BY DEF SessionUp, exchangeVars, SessionsSound, DownForgets
<1>3. IsFiniteSet(OpenOrders) /\ count \in Nat
  BY OrdersAreFinite DEF OpenOrders
<1>4. \A o \in OpenOrders : \E k \in 1..count : open[k] = o
  <2>1. IsFiniteSet(1..count) /\ Cardinality(1..count) = count
    BY <1>3, FS_Interval
  <2>2. open \in Surjection(1..count, OpenOrders)
    BY <1>1, <1>3, <2>1, FS_Injection
  <2> QED
    BY <2>2 DEF Surjection
<1> HIDE DEF count
<1>5. /\ stream' \in Seq(Update) /\ DOMAIN stream' = 1..count
      /\ \A k \in 1..count : /\ stream'[k] \in Update /\ stream'[k].order = open[k]
                             /\ stream'[k].matched = matched[open[k]]
                             /\ stream'[k].kind = "placement"
  <2>1. DOMAIN open = 1..count
    BY <1>1 DEF Injection
  <2>2. stream' \in Seq(Update)
    BY SessionStepTyped DEF Typed, TypeOK, SessionTyped
  <2>3. DOMAIN stream' = 1..count
    BY <1>1, <2>1 DEF Snapshot
  <2>4. \A k \in DOMAIN stream' : stream'[k] \in Update
    BY <2>2
  <2>5. \A k \in DOMAIN open : /\ stream'[k].order = open[k]
                              /\ stream'[k].matched = matched[open[k]]
                              /\ stream'[k].kind = "placement"
    BY <1>1 DEF Snapshot
  <2> QED
    BY <2>1, <2>2, <2>3, <2>4, <2>5
<1>6. ASSUME NEW t \in Tokens, NEW o \in Orders
      PROVE  /\ Ahead(t)'.seen[o] \in {Unseen, matched'[o]}
             /\ status'[o] = "live" => Ahead(t)'.seen[o] = matched'[o]
  <2> DEFINE from == [seen |-> [p \in Orders |-> Unseen], gain |-> 0]
             Known == {e \in Ears : \A p \in Orders : e.seen[p] \in {Unseen, matched[p]}}
             Caught == {e \in Ears : e.seen[o] = matched[o]}
  <2>1. from \in Known
    BY DEF Ears
  <2>2. ASSUME NEW e \in Known, NEW k \in 1..count
        PROVE  /\ HeardOf(t, e, stream'[k]) \in Known
               /\ e \in Caught \/ stream'[k].order = o => HeardOf(t, e, stream'[k]) \in Caught
    <3> DEFINE u == stream'[k]  h == HeardOf(t, e, u)  m == matched[u.order]
    <3>1. u \in Update /\ u.kind # "cancellation" /\ u.matched = m /\ u.order \in Orders
      BY <1>5 DEF Update
    <3>2. m \in 0..Size /\ m \in Int
      BY <3>1, LedgerAssumption DEF Typed, TypeOK, ExchangeTyped, LedgerAssumption
    <3>3. e \in Ears /\ \A p \in Orders : e.seen[p] \in {Unseen, matched[p]}
      OBVIOUS
    <3>4. e.seen[u.order] \in {Unseen, m} /\ m <= u.matched
      BY <3>1, <3>2, <3>3
    <3> HIDE DEF u, h, m, Known
    <3>5. /\ h \in Ears /\ h.seen[u.order] = u.matched
          /\ \A p \in Orders : p # u.order => h.seen[p] = e.seen[p]
      BY <3>1, <3>2, <3>3, <3>4, HeardAbout DEF h
    <3>6. \A p \in Orders : h.seen[p] = matched[p] \/ (h.seen[p] = e.seen[p] /\ p # u.order)
      BY <3>1, <3>5 DEF m
    <3>7. h \in Known
      BY <3>3, <3>5, <3>6 DEF Known
    <3>8. e \in Caught \/ u.order = o => h \in Caught
      BY <3>5, <3>6
    <3> QED
      BY <3>7, <3>8 DEF h, u
  <2>3. Ahead(t)' = Hearing!Fold(t, from, stream')
    BY <1>2 DEF Ahead, Start
  <2> HIDE DEF from
  <2>4. Hearing!Fold(t, from, stream') \in Known
    <3> HIDE DEF Known
    <3> QED
      BY <1>3, <1>5, <2>1, <2>2, Hearing!FoldStaysIn DEF count
  <2>5. ASSUME status[o] = "live"
        PROVE  Hearing!Fold(t, from, stream') \in Caught
    <3>1. PICK k \in 1..count : stream'[k].order = o
      BY <1>4, <1>5, <2>5 DEF OpenOrders
    <3> HIDE DEF Known, Caught
    <3>2. \A e \in Known : HeardOf(t, e, stream'[k]) \in Caught
      BY <2>2, <3>1
    <3>3. \A e \in Caught \cap Known, i \in 1..count : HeardOf(t, e, stream'[i]) \in Caught
      BY <2>2
    <3>4. \A e \in Known, i \in 1..count : HeardOf(t, e, stream'[i]) \in Known
      BY <2>2
    <3>5. count \in Nat
      BY <1>3 DEF count
    <3>6. Hearing!Fold(t, from, stream') \in Caught \cap Known
      BY <1>5, <2>1, <3>2, <3>3, <3>4, <3>5, Hearing!FoldReaches
    <3> QED
      BY <3>6
  <2> QED
    BY <1>2, <2>3, <2>4, <2>5
<1> QED
  BY <1>6 DEF TrackersCatchUp

LEMMA CatchUpStays ==
  ASSUME Replays, Typed, SessionsSound, TrackersCatchUp, [Next]_vars
  PROVE  TrackersCatchUp'
<1>1. CASE \E o \in Orders : Place(o) \/ Match(o) \/ Cancel(o)
  <2>1. CASE up
    BY <1>1, <2>1, TellsTheChange
  <2>2. CASE ~up
    BY <1>1, <2>2 DEF Place, Match, Cancel, TrackersCatchUp
  <2> QED
    BY <2>1, <2>2
<1>2. CASE SessionDown
  BY <1>2 DEF SessionDown, TrackersCatchUp
<1>3. CASE Read
  <2>1. UNCHANGED <<up, matched, status>>
    BY <1>3 DEF Read, exchangeVars
  <2>2. \A t \in Tokens : Ahead(t)'.seen = Ahead(t).seen
    BY <1>3, AheadRead
  <2> QED
    BY <2>1, <2>2 DEF TrackersCatchUp
<1>4. CASE UNCHANGED <<up, matched, status, tracker, stream>>
  <2>1. \A t \in Tokens : Ahead(t)' = Ahead(t)
    BY <1>4 DEF Ahead, Start
  <2> QED
    BY <1>4, <2>1 DEF TrackersCatchUp
<1>5. \/ \E o \in Orders : Place(o) \/ Match(o) \/ Cancel(o)
      \/ SessionUp \/ SessionDown \/ Read \/ UNCHANGED <<up, matched, status, tracker, stream>>
  BY DEF Next, vars, ResyncSkip, ResyncFetch, ResyncSend, ApplyFill, ApplySeed, ApplyMerge, Tick,
         EngineTick, IntervalPasses, WorkerTake, MergeMined, MergeDone, exchangeVars, sessionVars
<1> QED
  BY <1>1, <1>2, <1>3, <1>4, <1>5, CatchUpStarts

-----------------------------------------------------------------------------
(* The balance from a clean seed on                                        *)

\* A seed of the running session that will be applied, as the last seed.
CleanSeed(n) ==
  /\ events[n].kind = "seed" /\ events[n].ts = 2 * epoch /\ lastTrade <= 2 * epoch
  /\ \A m \in 1..(n - 1) : StampedBy(events[m], 2 * epoch)
  /\ \A m \in (n + 1)..Len(events) : events[m].kind # "seed"

NoSeed == \A n \in 1..Len(events) : events[n].kind # "seed"
SeedIsNewest == NoSeed \/ \E n \in 1..Len(events) : CleanSeed(n)

Balanced == \A t \in Tokens : Booked(t) + Ahead(t).gain = held[t] + Untold

Sharp == ~blurred => up /\ conn = <<>> /\ resync = None /\ SeedIsNewest /\ Balanced

LEMMA Amounts ==
  ASSUME Typed, NEW t \in Tokens
  PROVE  /\ Booked(t) \in Int /\ Ahead(t).gain \in Int /\ held[t] \in Nat /\ Untold \in Nat
         /\ inv[t] \in Nat /\ events \in Seq(Event)
<1>1. inv[t] \in Nat /\ inv[t] \in Int /\ held[t] \in Nat /\ events \in Seq(Event)
  BY DEF Typed, TypeOK, StateTyped, ExchangeTyped, Shares
<1>2. Booked(t) \in Int
  BY <1>1, PostingTyped DEF Booked
<1>3. Ahead(t).gain \in Int
  BY AheadTyped DEF Ears
<1>4. Untold \in Nat
  BY DEF Untold, MinedUntold, Typed, TypeOK, EngineTyped
<1> QED
  BY <1>1, <1>2, <1>3, <1>4

(* A seed stays the newest when something else is sent after it ...        *)
LEMMA SeedBeforeOthers ==
  ASSUME Typed, SeedIsNewest, NEW e, e.kind # "seed",
         events' = events \/ events' = Append(events, e), UNCHANGED <<epoch, lastTrade>>
  PROVE  SeedIsNewest'
<1>1. events \in Seq(Event) /\ Len(events) \in Nat
  BY DEF Typed, TypeOK, StateTyped
<1>2. CASE events' = events
  BY <1>2 DEF SeedIsNewest, NoSeed, CleanSeed
<1>3. CASE events' = Append(events, e)
  <2>1. /\ Len(events') = Len(events) + 1 /\ events'[Len(events) + 1] = e
        /\ \A n \in 1..Len(events) : events'[n] = events[n]
    BY <1>1, <1>3
  <2>2. CASE NoSeed
    BY <1>1, <2>1, <2>2 DEF NoSeed, SeedIsNewest
  <2>3. ASSUME NEW n \in 1..Len(events), CleanSeed(n)
        PROVE  CleanSeed(n)' /\ n \in 1..Len(events')
    <3>1. n \in 1..Len(events') /\ events'[n] = events[n]
      BY <1>1, <2>1
    <3>2. \A m \in 1..(n - 1) : StampedBy(events'[m], 2 * epoch')
      <4>1. \A m \in 1..(n - 1) : m \in 1..Len(events)
        BY <1>1
      <4> QED
        BY <2>1, <2>3, <4>1 DEF CleanSeed
    <3>3. \A m \in (n + 1)..Len(events') : events'[m].kind # "seed"
      <4>1. \A m \in (n + 1)..Len(events') :
              m = Len(events) + 1 \/ (m \in (n + 1)..Len(events) /\ m \in 1..Len(events))
        BY <1>1, <2>1
      <4> QED
        BY <2>1, <2>3, <4>1 DEF CleanSeed
    <3> QED
      BY <2>3, <3>1, <3>2, <3>3 DEF CleanSeed
  <2> QED
    BY <2>2, <2>3 DEF SeedIsNewest
<1> QED
  BY <1>2, <1>3

(* ... and when something else before it is handled.                       *)
LEMMA SeedAfterOthers ==
  ASSUME Typed, SeedIsNewest, events # <<>>, events' = Tail(events), epoch' = epoch,
         lastTrade' = lastTrade \/ (Head(events).kind # "merge" /\ lastTrade' = Head(events).ts),
         ~CleanSeed(1)
  PROVE  SeedIsNewest'
<1>1. events \in Seq(Event) /\ Len(events) \in Nat
  BY DEF Typed, TypeOK, StateTyped
<1>2. /\ Len(events') = Len(events) - 1 /\ Head(events) = events[1]
      /\ \A n \in 1..Len(events') : n + 1 \in 1..Len(events) /\ events'[n] = events[n + 1]
  BY <1>1
<1>3. CASE NoSeed
  BY <1>2, <1>3 DEF NoSeed, SeedIsNewest
<1>4. ASSUME NEW n \in 1..Len(events), CleanSeed(n)
      PROVE  n - 1 \in 1..Len(events') /\ CleanSeed(n - 1)'
  <2>1. n # 1 /\ n \in Int /\ n - 1 \in 1..Len(events') /\ 1 \in 1..(n - 1) /\ (n - 1) + 1 = n
    BY <1>1, <1>2, <1>4
  <2>2. lastTrade' <= 2 * epoch'
    BY <1>2, <1>4, <2>1 DEF CleanSeed, StampedBy
  <2>3. events'[n - 1] = events[n]
    BY <1>2, <2>1
  <2>4. \A m \in 1..((n - 1) - 1) : StampedBy(events'[m], 2 * epoch')
    <3> SUFFICES ASSUME NEW m \in 1..((n - 1) - 1) PROVE StampedBy(events'[m], 2 * epoch')
      OBVIOUS
    <3>1. m \in 1..Len(events') /\ m + 1 \in 1..(n - 1)
      BY <1>1, <1>2, <2>1
    <3> QED
      BY <1>2, <1>4, <3>1 DEF CleanSeed
  <2>5. \A m \in ((n - 1) + 1)..Len(events') : events'[m].kind # "seed"
    <3> SUFFICES ASSUME NEW m \in ((n - 1) + 1)..Len(events') PROVE events'[m].kind # "seed"
      OBVIOUS
    <3>1. m \in 1..Len(events') /\ m + 1 \in (n + 1)..Len(events)
      BY <1>1, <1>2, <2>1
    <3> QED
      BY <1>2, <1>4, <3>1 DEF CleanSeed
  <2> QED
    BY <1>4, <2>1, <2>2, <2>3, <2>4, <2>5 DEF CleanSeed
<1> QED
  BY <1>3, <1>4 DEF SeedIsNewest

LEMMA SharpTold ==
  ASSUME Typed, SessionsSound, TrackersCatchUp, Sharp,
         NEW o \in Orders, Place(o) \/ Match(o) \/ Cancel(o)
  PROVE  Sharp'
<1> SUFFICES ASSUME ~blurred PROVE Sharp'
  BY DEF Sharp, Place, Match, Cancel
<1>1. UNCHANGED <<up, conn, resync, events, inv, lastTrade, epoch, worker>>
  BY DEF Place, Match, Cancel, stateVars, engineVars
<1>2. \A t \in Tokens : /\ Ahead(t).gain \in Int
                        /\ Ahead(t)'.gain - held'[t] = Ahead(t).gain - held[t]
  BY TellsTheChange DEF Sharp
<1>3. Typed'
  BY PlaceTyped, MatchTyped, CancelTyped
<1>4. \A t \in Tokens : Booked(t)' = Booked(t)
  BY <1>1 DEF Booked
<1>5. Untold' = Untold
  BY <1>1 DEF Untold, MinedUntold
<1>6. \A t \in Tokens : Ahead(t)'.gain \in Int /\ held'[t] \in Int
  <2>1. \A t \in Tokens : Ahead(t)' \in Ears
    <3> SUFFICES ASSUME NEW t \in Tokens PROVE Ahead(t)' \in Ears
      OBVIOUS
    <3>1. tracker' \in [Orders -> 0..Size \cup {Unseen}] /\ stream' \in Seq(Update) /\ 0 \in Int
      BY <1>3 DEF Typed, TypeOK, SessionTyped
    <3> QED
      BY <3>1, HeardShift DEF Ahead, Start
  <2> QED
    BY <1>3, <2>1 DEF Ears, Typed, TypeOK, ExchangeTyped, Shares
<1>7. Balanced'
  <2> SUFFICES ASSUME NEW t \in Tokens
               PROVE  Booked(t)' + Ahead(t)'.gain = held'[t] + Untold'
    BY DEF Balanced
  <2>1. Booked(t) + Ahead(t).gain = held[t] + Untold
    BY DEF Sharp, Balanced
  <2>2. Booked(t) \in Int /\ Untold \in Int /\ held[t] \in Int
    BY Amounts
  <2>3. \A b, g, h, u, x, y \in Int : b + g = h + u /\ x - y = g - h => b + x = y + u
    OBVIOUS
  <2>4. /\ Ahead(t).gain \in Int /\ Ahead(t)'.gain \in Int /\ held'[t] \in Int
        /\ Ahead(t)'.gain - held'[t] = Ahead(t).gain - held[t]
    BY <1>2, <1>6
  <2>5. Booked(t) + Ahead(t)'.gain = held'[t] + Untold
    BY <2>1, <2>2, <2>3, <2>4
  <2> QED
    BY <1>4, <1>5, <2>5
<1>8. SeedIsNewest'
  BY <1>1 DEF Sharp, SeedIsNewest, NoSeed, CleanSeed
<1> QED
  BY <1>1, <1>7, <1>8 DEF Sharp

LEMMA SharpRead ==
  ASSUME Typed, Sharp, Read
  PROVE  Sharp'
<1> SUFFICES ASSUME ~blurred PROVE Sharp'
  BY DEF Sharp, Read
<1>1. UNCHANGED <<up, conn, resync, lastTrade, epoch, worker, held>>
  BY DEF Read, exchangeVars, stateVars, engineVars
<1>2. SeedIsNewest'
  <2> DEFINE fill == FillOf(Head(stream))
  <2>1. fill.kind # "seed"
    BY DEF FillOf
  <2>2. events' = events \/ events' = Append(events, fill)
    BY DEF Read
  <2> HIDE DEF fill
  <2> QED
    BY <1>1, <2>1, <2>2, SeedBeforeOthers DEF Sharp
<1>3. Balanced'
  <2>1. \A t \in Tokens : Booked(t)' + Ahead(t)'.gain = Booked(t) + Ahead(t).gain
    BY AheadRead
  <2> QED
    BY <1>1, <2>1 DEF Sharp, Balanced, Untold, MinedUntold
<1> QED
  BY <1>1, <1>2, <1>3 DEF Sharp

(* In a quiet session nothing is gained from the messages on their way.    *)
LEMMA QuietGainsNothing ==
  ASSUME Typed, QuietSession, up, quiet, NEW t \in Tokens
  PROVE  Ahead(t).gain = 0
<1> DEFINE n == Len(stream)  from == Start(0)
           Known == {e \in Ears : e.gain = 0 /\ \A p \in Orders : e.seen[p] \in {Unseen, matched[p]}}
<1>1. /\ stream \in Seq(Update) /\ n \in Nat /\ DOMAIN stream = 1..n
      /\ \A k \in 1..n : stream[k] \in Update /\ stream[k].matched = matched[stream[k].order]
      /\ tracker \in [Orders -> 0..Size \cup {Unseen}]
  <2>1. stream \in Seq(Update) /\ tracker \in [Orders -> 0..Size \cup {Unseen}]
    BY DEF Typed, TypeOK, SessionTyped
  <2> QED
    BY <2>1 DEF QuietSession
<1>2. from \in Known
  BY <1>1 DEF Start, Ears, QuietSession
<1>3. ASSUME NEW e \in Known, NEW k \in 1..n
      PROVE  HeardOf(t, e, stream[k]) \in Known
  <2> DEFINE u == stream[k]  h == HeardOf(t, e, u)  m == matched[u.order]
  <2>1. u \in Update /\ u.matched = m /\ u.order \in Orders
    BY <1>1 DEF Update
  <2>2. m \in 0..Size /\ m \in Int
    BY <2>1, LedgerAssumption DEF Typed, TypeOK, ExchangeTyped, LedgerAssumption
  <2>3. e \in Ears /\ e.gain = 0 /\ \A p \in Orders : e.seen[p] \in {Unseen, matched[p]}
    OBVIOUS
  <2>4. e.seen[u.order] \in {Unseen, m} /\ m <= u.matched
    BY <2>1, <2>2, <2>3
  <2> HIDE DEF u, h, m, Known
  <2>5. /\ h \in Ears /\ h.gain = 0
        /\ h.seen[u.order] \in {Unseen, m}
        /\ \A p \in Orders : p # u.order => h.seen[p] = e.seen[p]
    <3>1. /\ h \in Ears
          /\ \A p \in Orders : p # u.order => h.seen[p] = e.seen[p]
          /\ u.kind = "cancellation" => h.seen[u.order] = Unseen /\ h.gain = e.gain
          /\ u.kind # "cancellation" =>
               /\ h.seen[u.order] = u.matched
               /\ h.gain = IF Token(u.order) # t THEN e.gain
                           ELSE IF u.order \in Sells THEN e.gain - (u.matched - m)
                                                     ELSE e.gain + (u.matched - m)
      BY <2>1, <2>2, <2>3, <2>4, HeardAbout DEF h
    <3>2. 0 - (u.matched - m) = 0 /\ 0 + (u.matched - m) = 0
      BY <2>1, <2>2
    <3> QED
      BY <2>1, <2>3, <3>1, <3>2
  <2>6. \A p \in Orders : h.seen[p] \in {Unseen, matched[p]}
    <3> SUFFICES ASSUME NEW p \in Orders PROVE h.seen[p] \in {Unseen, matched[p]}
      OBVIOUS
    <3>1. CASE p = u.order
      BY <2>5, <3>1 DEF m
    <3>2. CASE p # u.order
      BY <2>3, <2>5, <3>2
    <3> QED
      BY <3>1, <3>2
  <2> QED
    BY <2>5, <2>6 DEF Known, h, u
<1>4. Hearing!Fold(t, from, stream) \in Known
  <2> HIDE DEF Known, from, n
  <2> QED
    BY <1>1, <1>2, <1>3, Hearing!FoldStaysIn
<1> HIDE DEF from
<1> QED
  BY <1>4 DEF Ahead, from

(* A clean seed makes the balance: nothing else is to come.                *)
LEMMA SharpResync ==
  ASSUME Typed, Typed', SessionsSound, QuietSession, Sharp, ResyncSkip \/ ResyncFetch \/ ResyncSend
  PROVE  Sharp'
<1>1. CASE ResyncSkip \/ ResyncFetch
  <2>1. conn # <<>> /\ blurred' = blurred
    BY <1>1 DEF ResyncSkip, ResyncFetch
  <2> QED
    BY <2>1 DEF Sharp
<1>2. CASE ResyncSend
  <2> SUFFICES ASSUME ~blurred' PROVE Sharp'
    BY DEF Sharp
  <2>1. blurred /\ resync # None
    BY <1>2 DEF ResyncSend, Sharp
  <2> DEFINE e == [kind |-> "seed", shares |-> resync.shares, ts |-> ConnectedAt(resync.epoch)]
  <2>2. /\ events' = Append(events, e) /\ up /\ resync.epoch = epoch /\ quiet
        /\ resync' = None /\ UNCHANGED <<up, epoch, stream, tracker, conn, inv, lastTrade, worker, held>>
    BY <1>2, <2>1 DEF ResyncSend, exchangeVars, sessionVars, stateVars, engineVars
  <2>3. resync.shares = held /\ ~MinedUntold
    BY <2>1, <2>2 DEF QuietSession
  <2>4. conn = <<>>
    <3>1. conn \in Seq(1..MaxEpoch) /\ epoch \in Int
      BY DEF Typed, TypeOK, SessionTyped
    <3>2. \A n \in 1..Len(conn) : conn[n] <= epoch /\ epoch < conn[n]
      BY <2>1, <2>2 DEF SessionsSound, ConnectsInOrder
    <3>3. \A n \in 1..Len(conn) : conn[n] \in Int
      <4> DEFINE Epochs == 1..MaxEpoch
      <4>1. conn \in Seq(Epochs) /\ \A n \in Epochs : n \in Int
        BY <3>1, LedgerAssumption DEF LedgerAssumption
      <4> HIDE DEF Epochs
      <4> QED
        BY <4>1
    <3>4. Len(conn) = 0
      <4>1. Len(conn) \in Nat
        BY <3>1
      <4>2. ~(1 \in 1..Len(conn))
        BY <3>1, <3>2, <3>3
      <4> QED
        BY <4>1, <4>2
    <3> QED
      BY <3>1, <3>4
  <2>5. e.kind = "seed" /\ e.ts = 2 * epoch /\ e.shares = held /\ e \in Event
    <3>1. resync.epoch \in Int /\ epoch \in Int /\ held \in Shares
      BY <2>1 DEF Typed, TypeOK, StateTyped, SessionTyped, ExchangeTyped
    <3>2. e.kind = "seed" /\ e.ts = 2 * epoch /\ e.shares = held
      BY <2>2, <2>3 DEF ConnectedAt
    <3>3. e \in [kind : {"seed"}, shares : Shares, ts : Int]
      BY <2>2, <2>3, <3>1 DEF ConnectedAt
    <3> QED
      BY <3>2, <3>3 DEF Event
  <2> HIDE DEF e
  <2>6. SeedIsNewest'
    <3>1. events \in Seq(Event) /\ Len(events) \in Nat
      BY DEF Typed, TypeOK, StateTyped
    <3> PICK n \in Nat : n = Len(events) + 1
      BY <3>1
    <3>2. n = Len(events') /\ events'[n] = e /\ \A m \in 1..(n - 1) : events'[m] = events[m]
      BY <2>2, <3>1
    <3>3. CleanSeed(n)'
      <4>1. \A m \in 1..Len(events) : StampedBy(events[m], 2 * epoch)
        BY <2>2 DEF QuietSession
      <4>2. lastTrade' <= 2 * epoch'
        BY <2>2 DEF QuietSession
      <4>3. 1..(n - 1) = 1..Len(events) /\ (n + 1)..n = {} /\ n = Len(events')
        BY <3>1, <3>2
      <4> QED
        BY <2>2, <2>5, <3>2, <4>1, <4>2, <4>3 DEF CleanSeed
    <3>4. n \in 1..Len(events')
      BY <3>1, <3>2
    <3> QED
      BY <3>3, <3>4 DEF SeedIsNewest
  <2>7. Balanced'
    <3> SUFFICES ASSUME NEW t \in Tokens
                 PROVE  Booked(t)' + Ahead(t)'.gain = held'[t] + Untold'
      BY DEF Balanced
    <3>1. Booked(t)' = held[t]
      <4>1. Booked(t)' = Posted(t, Booked(t), e)
        BY <2>2, <2>5, BookedAppend
      <4> QED
        BY <2>5, <4>1 DEF Posted
    <3>2. Ahead(t)' = Ahead(t) /\ Ahead(t).gain = 0
      BY <2>2, QuietGainsNothing DEF Ahead, Start
    <3>3. Untold' = 0
      BY <2>2, <2>3 DEF Untold, MinedUntold
    <3> QED
      BY <2>2, <3>1, <3>2, <3>3, Amounts
  <2> QED
    BY <2>2, <2>4, <2>6, <2>7 DEF Sharp
<1> QED
  BY <1>1, <1>2

LEMMA TailOfOne ==
  ASSUME NEW S, NEW s \in Seq(S), s # <<>>, Len(s) <= 1
  PROVE  Tail(s) = <<>>
<1>1. Len(s) \in Nat /\ Len(s) # 0
  OBVIOUS
<1>2. Tail(s) \in Seq(S) /\ Len(Tail(s)) = 0
  BY <1>1
<1> QED
  BY <1>2

(* Taking away more than there is, with nothing else under way, would mean *)
(* that the account holds less than nothing.                               *)
LEMMA NothingIsClampedLast ==
  ASSUME Typed, Balanced, NEW t \in Tokens, events # <<>>, ~MoreUnderWay
  PROVE  Posted(t, inv[t], Head(events)) >= 0
<1>1. /\ stream = <<>> /\ Len(events) <= 1 /\ ~MinedUntold
      /\ events \in Seq(Event)
  BY DEF MoreUnderWay, Typed, TypeOK, StateTyped
<1>2. Tail(events) = <<>>
  BY <1>1, TailOfOne
<1>3. Booked(t) = Posted(t, inv[t], Head(events))
  <2> DEFINE first == Posted(t, inv[t], Head(events))
  <2>1. Posting!Fold(t, first, <<>>) = first
    <3> HIDE DEF first
    <3> QED
      BY Posting!FoldEmpty
  <2> QED
    BY <1>2, <2>1, BookedHead
<1>4. Ahead(t).gain = 0
  <2> DEFINE from == Start(0)
  <2>1. from.gain = 0
    BY DEF Start
  <2> HIDE DEF from
  <2>2. Hearing!Fold(t, from, <<>>) = from
    BY Hearing!FoldEmpty
  <2> QED
    BY <1>1, <2>1, <2>2 DEF Ahead, from
<1>5. Untold = 0
  BY <1>1 DEF Untold
<1>6. Booked(t) + 0 = held[t] + 0
  BY <1>4, <1>5 DEF Balanced
<1> QED
  BY <1>3, <1>6, Amounts

LEMMA BalancedWhenPosted ==
  ASSUME Typed, Balanced, events # <<>>, events' = Tail(events),
         UNCHANGED <<held, tracker, stream, worker>>,
         \A t \in Tokens : inv'[t] = Posted(t, inv[t], Head(events))
  PROVE  Balanced'
<1> SUFFICES ASSUME NEW t \in Tokens
             PROVE  Booked(t)' + Ahead(t)'.gain = held'[t] + Untold'
  BY DEF Balanced
<1>1. Booked(t)' = Booked(t)
  BY BookedHead DEF Booked
<1>2. Ahead(t)' = Ahead(t) /\ Untold' = Untold
  BY DEF Ahead, Start, Untold, MinedUntold
<1> QED
  BY <1>1, <1>2 DEF Balanced

LEMMA SharpApply ==
  ASSUME Typed, Sharp, ApplyFill \/ ApplyMerge
  PROVE  Sharp'
<1> SUFFICES ASSUME ~blurred' PROVE Sharp'
  BY DEF Sharp
<1> DEFINE e == Head(events)
<1>1. ~blurred /\ up /\ conn = <<>> /\ resync = None /\ SeedIsNewest /\ Balanced
  BY DEF ApplyFill, ApplyMerge, Sharp
<1>2. /\ UNCHANGED <<up, conn, resync, epoch, held, tracker, stream, worker>>
      /\ events # <<>> /\ events' = Tail(events)
  BY DEF ApplyFill, ApplyMerge, exchangeVars, sessionVars, engineVars
<1>3. e = events[1] /\ e \in Event /\ \A t \in Tokens : inv[t] \in Int
  <2>1. events \in Seq(Event) /\ inv \in Shares
    BY DEF Typed, TypeOK, StateTyped
  <2> QED
    BY <1>2, <2>1 DEF Shares
<1>4. e.kind # "seed" /\ (lastTrade' = lastTrade \/ (e.kind # "merge" /\ lastTrade' = e.ts))
  BY DEF ApplyFill, ApplyMerge
<1>5. SeedIsNewest'
  <2>1. ~CleanSeed(1)
    BY <1>3, <1>4 DEF CleanSeed
  <2> QED
    BY <1>1, <1>2, <1>4, <2>1, SeedAfterOthers
<1>6. \A t \in Tokens : inv'[t] = Posted(t, inv[t], e)
  <2> SUFFICES ASSUME NEW t \in Tokens PROVE inv'[t] = Posted(t, inv[t], e)
    OBVIOUS
  <2>1. inv \in [Tokens -> Nat]
    BY DEF Typed, TypeOK, StateTyped, Shares
  <2>2. ~MoreUnderWay => Posted(t, inv[t], e) >= 0
    BY <1>1, <1>2, NothingIsClampedLast
  <2>3. CASE ApplyFill
    <3>1. e.kind = "fill" /\ e.shares \in Int
      <4>1. e.kind = "fill"
        BY <2>3 DEF ApplyFill
      <4> HIDE DEF e
      <4> QED
        BY <1>3, <4>1, LedgerAssumption DEF Event, LedgerAssumption
    <3>2. /\ inv' = [inv EXCEPT ![e.token] = IF e.sell THEN Clamped(@, e.shares) ELSE @ + e.shares]
          /\ ~(e.sell /\ Short(e.token, e.shares))
      BY <2>3 DEF ApplyFill
    <3> HIDE DEF e
    <3>3. CASE e.token # t
      BY <2>1, <3>1, <3>2, <3>3 DEF Posted
    <3>4. CASE e.token = t /\ ~e.sell
      BY <2>1, <3>1, <3>2, <3>4 DEF Posted
    <3>5. CASE e.token = t /\ e.sell
      <4>1. Posted(t, inv[t], e) = inv[t] - e.shares
        BY <3>1, <3>5 DEF Posted
      <4>2. ~(inv[t] < e.shares)
        BY <1>3, <2>2, <3>1, <3>2, <3>5, <4>1 DEF Short
      <4>3. Clamped(inv[t], e.shares) = inv[t] - e.shares
        BY <1>3, <3>1, <4>2 DEF Clamped
      <4>4. inv'[t] = Clamped(inv[t], e.shares)
        BY <2>1, <3>2, <3>5
      <4> QED
        BY <4>1, <4>3, <4>4
    <3> QED
      BY <3>3, <3>4, <3>5
  <2>4. CASE ApplyMerge
    <3>1. e.kind = "merge" /\ e.sets \in Int
      <4>1. e.kind = "merge"
        BY <2>4 DEF ApplyMerge
      <4> HIDE DEF e
      <4> QED
        BY <1>3, <4>1 DEF Event
    <3>2. inv'[t] = Clamped(inv[t], e.sets) /\ ~Short(t, e.sets)
      BY <2>4 DEF ApplyMerge
    <3> HIDE DEF e
    <3>3. Posted(t, inv[t], e) = inv[t] - e.sets
      BY <3>1 DEF Posted
    <3>4. ~(inv[t] < e.sets)
      BY <1>3, <2>2, <3>1, <3>2, <3>3 DEF Short
    <3>5. Clamped(inv[t], e.sets) = inv[t] - e.sets
      BY <1>3, <3>1, <3>4 DEF Clamped
    <3> QED
      BY <3>2, <3>3, <3>5
  <2> QED
    BY <2>3, <2>4
<1>7. Balanced'
  BY <1>1, <1>2, <1>6, BalancedWhenPosted
<1> QED
  BY <1>1, <1>2, <1>5, <1>7 DEF Sharp

(* Only a seed before the newest one is ignored, and that one forgets it.  *)
LEMMA SharpSeed ==
  ASSUME Typed, Sharp, ApplySeed
  PROVE  Sharp'
<1> SUFFICES ASSUME ~blurred PROVE Sharp'
  BY DEF Sharp, ApplySeed
<1> DEFINE e == Head(events)
<1>1. /\ UNCHANGED <<up, conn, resync, epoch, held, tracker, stream, worker>>
      /\ events # <<>> /\ events' = Tail(events) /\ e.kind = "seed"
      /\ IF e.ts < lastTrade THEN UNCHANGED <<inv, lastTrade>>
                             ELSE inv' = e.shares /\ lastTrade' = e.ts
  BY DEF ApplySeed, exchangeVars, sessionVars, stateVars, engineVars
<1>2. events \in Seq(Event) /\ e = events[1] /\ e \in Event /\ Len(events) \in Nat /\ 1 \in 1..Len(events)
  <2>1. events \in Seq(Event)
    BY DEF Typed, TypeOK, StateTyped
  <2> QED
    BY <1>1, <2>1
<1>3. lastTrade \in Int /\ epoch \in Int
  BY DEF Typed, TypeOK, StateTyped, SessionTyped
<1>4. up /\ conn = <<>> /\ resync = None /\ SeedIsNewest /\ Balanced
  BY DEF Sharp
<1>5. CASE CleanSeed(1)
  <2>1. inv' = e.shares /\ lastTrade' = e.ts
    <3>1. e.ts = 2 * epoch /\ lastTrade <= 2 * epoch
      BY <1>2, <1>5 DEF CleanSeed
    <3>2. ~(e.ts < lastTrade)
      BY <1>3, <3>1
    <3> QED
      BY <1>1, <3>2
  <2>2. NoSeed'
    <3>1. \A n \in 1..Len(events') : n + 1 \in (1 + 1)..Len(events) /\ events'[n] = events[n + 1]
      BY <1>1, <1>2
    <3> QED
      BY <1>5, <3>1 DEF CleanSeed, NoSeed
  <2>3. \A t \in Tokens : inv'[t] = Posted(t, inv[t], e)
    BY <1>1, <2>1 DEF Posted
  <2>4. Balanced'
    BY <1>1, <1>4, <2>3, BalancedWhenPosted
  <2> QED
    BY <1>1, <1>4, <2>2, <2>4 DEF Sharp, SeedIsNewest
<1>6. CASE ~CleanSeed(1)
  <2>1. PICK n \in 1..Len(events) : CleanSeed(n) /\ n # 1
    BY <1>2, <1>4, <1>6, <1>1 DEF SeedIsNewest, NoSeed
  <2>2. SeedIsNewest'
    <3>1. lastTrade' = lastTrade \/ (e.kind # "merge" /\ lastTrade' = e.ts)
      BY <1>1
    <3> QED
      BY <1>1, <1>4, <1>6, <3>1, SeedAfterOthers
  <2>3. /\ events' \in Seq(Event) /\ n - 1 \in 1..Len(events')
        /\ events'[n - 1].kind = "seed"
    BY <1>1, <1>2, <2>1 DEF CleanSeed
  <2>4. Balanced'
    <3> SUFFICES ASSUME NEW t \in Tokens
                 PROVE  Booked(t)' + Ahead(t)'.gain = held'[t] + Untold'
      BY DEF Balanced
    <3>1. Booked(t)' = Booked(t)
      <4> DEFINE k == n - 1  rest == events'  a == inv'[t]  b == Posted(t, inv[t], e)
      <4>1. rest \in Seq(Event) /\ k \in 1..Len(rest) /\ rest[k].kind = "seed"
        BY <2>3
      <4>2. Booked(t)' = Posting!Fold(t, a, rest) /\ Booked(t) = Posting!Fold(t, b, rest)
        BY <1>1, BookedHead DEF Booked
      <4> HIDE DEF k, rest, a, b
      <4> QED
        BY <4>1, <4>2, SeedForgets
    <3>2. Ahead(t)' = Ahead(t) /\ Untold' = Untold
      BY <1>1 DEF Ahead, Start, Untold, MinedUntold
    <3> QED
      BY <1>1, <1>4, <3>1, <3>2 DEF Balanced
  <2> QED
    BY <1>1, <1>4, <2>2, <2>4 DEF Sharp
<1> QED
  BY <1>5, <1>6

(* A merge leaves the account when it is mined and the inventory when it   *)
(* is told.                                                                *)
LEMMA SharpMerge ==
  ASSUME Typed, Sharp, MergeMined \/ MergeDone \/ WorkerTake
  PROVE  Sharp'
<1> SUFFICES ASSUME ~blurred' PROVE Sharp'
  BY DEF Sharp
<1>1. ~blurred /\ up /\ conn = <<>> /\ resync = None /\ SeedIsNewest /\ Balanced
  BY DEF MergeMined, MergeDone, WorkerTake, Sharp
<1>2. UNCHANGED <<up, conn, resync, epoch, tracker, stream, inv, lastTrade>>
  BY DEF MergeMined, MergeDone, WorkerTake, exchangeVars, sessionVars, stateVars
<1>3. \A t \in Tokens : Ahead(t)' = Ahead(t)
  BY <1>2 DEF Ahead, Start
<1>4. CASE MergeMined
  <2>1. UNCHANGED events /\ worker.sets \in Int
        /\ \A t \in Tokens : held'[t] = held[t] - worker.sets
    BY <1>4 DEF MergeMined, Typed, TypeOK, EngineTyped
  <2>2. Untold = 0 /\ Untold' = worker.sets
    <3>1. worker' = [worker EXCEPT !.mined = TRUE] /\ worker # None /\ ~worker.mined
      BY <1>4 DEF MergeMined
    <3>2. worker'.mined /\ worker'.sets = worker.sets /\ worker' # None
      <4>1. worker \in [sets : Nat, mined : BOOLEAN]
        BY <3>1 DEF Typed, TypeOK, EngineTyped
      <4>2. worker'.mined /\ worker'.sets = worker.sets
        BY <3>1, <4>1
      <4>3. worker' # None
        BY <3>1, <4>1 DEF None
      <4> QED
        BY <4>2, <4>3
    <3> QED
      BY <3>1, <3>2 DEF Untold, MinedUntold
  <2>3. Balanced'
    <3> SUFFICES ASSUME NEW t \in Tokens
                 PROVE  Booked(t)' + Ahead(t)'.gain = held'[t] + Untold'
      BY DEF Balanced
    <3>1. Booked(t)' = Booked(t)
      BY <1>2, <2>1 DEF Booked
    <3>2. Booked(t) + Ahead(t).gain = held[t] + 0 /\ held[t] \in Int
      BY <1>1, <2>2, Amounts DEF Balanced
    <3> QED
      BY <1>3, <2>1, <2>2, <3>1, <3>2
  <2>4. SeedIsNewest'
    BY <1>1, <1>2, <2>1 DEF SeedIsNewest, NoSeed, CleanSeed
  <2> QED
    BY <1>1, <1>2, <2>3, <2>4 DEF Sharp
<1>5. CASE MergeDone
  <2> DEFINE e == [kind |-> "merge", sets |-> worker.sets]
  <2>1. /\ held' = held /\ worker' = None /\ worker # None
        /\ events' = IF worker.mined THEN Append(events, e) ELSE events
    BY <1>5 DEF MergeDone, Reports, exchangeVars
  <2>2. worker.sets \in Nat /\ e \in Event /\ e.kind = "merge" /\ e.sets = worker.sets
    <3>1. worker.sets \in Nat
      BY <2>1 DEF Typed, TypeOK, EngineTyped
    <3>2. e \in [kind : {"merge"}, sets : Nat]
      BY <3>1
    <3> QED
      BY <3>1, <3>2 DEF Event
  <2>3. Untold' = 0 /\ Untold = IF worker.mined THEN worker.sets ELSE 0
    BY <2>1 DEF Untold, MinedUntold
  <2> HIDE DEF e
  <2>4. Balanced'
    <3> SUFFICES ASSUME NEW t \in Tokens
                 PROVE  Booked(t)' + Ahead(t)'.gain = held'[t] + Untold'
      BY DEF Balanced
    <3>1. Booked(t)' = IF worker.mined THEN Booked(t) - worker.sets ELSE Booked(t)
      <4>1. CASE worker.mined
        <5>1. Booked(t)' = Posted(t, Booked(t), e)
          BY <1>2, <2>1, <2>2, <4>1, BookedAppend
        <5> QED
          BY <2>2, <4>1, <5>1 DEF Posted
      <4>2. CASE ~worker.mined
        BY <1>2, <2>1, <4>2 DEF Booked
      <4> QED
        BY <4>1, <4>2
    <3>2. Booked(t) + Ahead(t).gain = held[t] + Untold
      BY <1>1 DEF Balanced
    <3>3. Booked(t) \in Int /\ Ahead(t).gain \in Int /\ held[t] \in Int
      BY Amounts
    <3>4. /\ Ahead(t)' = Ahead(t) /\ held'[t] = held[t] /\ Untold' = 0
          /\ Untold \in Int /\ worker.sets \in Int
      BY <1>3, <2>1, <2>2, <2>3
    <3>5. CASE worker.mined
      <4>1. Booked(t)' = Booked(t) - Untold
        BY <2>3, <3>1, <3>5
      <4>2. \A b, g, h, u \in Int : b + g = h + u => (b - u) + g = h + 0
        OBVIOUS
      <4> QED
        BY <3>2, <3>3, <3>4, <4>1, <4>2
    <3>6. CASE ~worker.mined
      BY <2>3, <3>1, <3>2, <3>4, <3>6
    <3> QED
      BY <3>5, <3>6
  <2>5. SeedIsNewest'
    <3>1. e.kind # "seed" /\ (events' = events \/ events' = Append(events, e))
      BY <2>1, <2>2
    <3> QED
      BY <1>1, <1>2, <3>1, SeedBeforeOthers
  <2> QED
    BY <1>1, <1>2, <2>4, <2>5 DEF Sharp
<1>6. CASE WorkerTake
  <2>1. UNCHANGED <<events, held>>
    BY <1>6 DEF WorkerTake, exchangeVars
  <2>2. Untold = 0 /\ Untold' = 0
    BY <1>6 DEF WorkerTake, Untold, MinedUntold, None
  <2>3. Balanced'
    BY <1>1, <1>2, <1>3, <2>1, <2>2 DEF Balanced, Booked
  <2>4. SeedIsNewest'
    BY <1>1, <1>2, <2>1 DEF SeedIsNewest, NoSeed, CleanSeed
  <2> QED
    BY <1>1, <1>2, <2>3, <2>4 DEF Sharp
<1> QED
  BY <1>4, <1>5, <1>6

LEMMA SharpStays ==
  ASSUME Typed, Typed', SessionsSound, QuietSession, TrackersCatchUp, Sharp, [Next]_vars
  PROVE  Sharp'
<1>1. CASE SessionUp
  BY <1>1 DEF SessionUp, Sharp
<1>2. CASE SessionDown
  BY <1>2 DEF SessionDown, Sharp
<1>3. CASE Tick \/ EngineTick \/ IntervalPasses \/ UNCHANGED vars
  <2>1. UNCHANGED <<exchangeVars, sessionVars, stateVars, resync, events, worker, blurred>>
    BY <1>3 DEF Tick, EngineTick, IntervalPasses, vars, engineVars
  <2>2. UNCHANGED <<held, up, epoch, stream, tracker, conn, resync, events, inv, lastTrade, worker, blurred>>
    BY <2>1 DEF exchangeVars, sessionVars, stateVars
  <2>3. Balanced' = Balanced
    BY <2>2 DEF Balanced, Booked, Ahead, Start, Untold, MinedUntold
  <2>4. SeedIsNewest' = SeedIsNewest
    BY <2>2 DEF SeedIsNewest, NoSeed, CleanSeed
  <2> QED
    BY <2>2, <2>3, <2>4 DEF Sharp
<1> QED
  BY <1>1, <1>2, <1>3, SharpTold, SharpRead, SharpResync, SharpApply, SharpSeed, SharpMerge DEF Next

-----------------------------------------------------------------------------
LedgerFollows == SessionsSound /\ QuietSession /\ TrackersCatchUp /\ Sharp

LEMMA SettledIsExact ==
  ASSUME Typed, Sharp
  PROVE  InventoryIsExact
<1> SUFFICES ASSUME Settled, ~blurred PROVE inv = held
  BY DEF InventoryIsExact
<1>1. ASSUME NEW t \in Tokens
      PROVE  inv[t] = held[t]
  <2>1. Booked(t) + Ahead(t).gain = held[t] + Untold
    BY DEF Sharp, Balanced
  <2>2. Untold = 0
    BY DEF Settled, Untold
  <2>3. Ahead(t).gain = 0
    <3> DEFINE from == Start(0)
    <3>1. from.gain = 0
      BY DEF Start
    <3> HIDE DEF from
    <3>2. Hearing!Fold(t, from, <<>>) = from
      BY Hearing!FoldEmpty
    <3> QED
      BY <3>1, <3>2 DEF Ahead, Settled, from
  <2>4. Booked(t) = inv[t]
    <3> DEFINE shares == inv[t]
    <3>1. Posting!Fold(t, shares, <<>>) = shares
      <4> HIDE DEF shares
      <4> QED
        BY Posting!FoldEmpty
    <3> QED
      BY <3>1 DEF Booked, Settled
  <2> QED
    BY <2>1, <2>2, <2>3, <2>4, Amounts
<1>2. inv \in [Tokens -> Nat] /\ held \in [Tokens -> Nat]
  BY DEF Typed, TypeOK, StateTyped, ExchangeTyped, Shares
<1> QED
  BY <1>1, <1>2

(***************************************************************************)
(* Once a clean seed has been sent, and until a session or a receipt is    *)
(* lost, the inventory equals the holdings of the account whenever         *)
(* everything sent has been handled - for any number of orders, sessions   *)
(* and merges, provided a new session repeats the open orders (Replays).   *)
(* If it does not, the first message of an order may be a fill, which only *)
(* sets the baseline and is never booked: TLC finds that behaviour with    *)
(* Replays = FALSE.                                                        *)
(***************************************************************************)
THEOREM InventoryFollowsTheAccount ==
  ASSUME Replays PROVE Spec => []InventoryIsExact
<1>1. Init => Typed /\ LedgerFollows
  <2> SUFFICES ASSUME Init PROVE Typed /\ LedgerFollows
    OBVIOUS
  <2>1. ~up /\ blurred
    BY DEF Init
  <2> QED
    BY <2>1, InitTyped, InitSessionsSound DEF LedgerFollows, QuietSession, TrackersCatchUp, Sharp
<1>2. Typed /\ LedgerFollows /\ [Next]_vars => Typed' /\ LedgerFollows'
  <2> SUFFICES ASSUME Typed, LedgerFollows, [Next]_vars PROVE Typed' /\ LedgerFollows'
    OBVIOUS
  <2>1. Typed'
    BY StepTyped
  <2>2. SessionsSound /\ QuietSession /\ TrackersCatchUp /\ Sharp
    BY DEF LedgerFollows
  <2>3. SessionsSound'
    BY <2>1, <2>2, ConnectsStayInOrder, DownStaysForgotten, StampsStay DEF SessionsSound
  <2>4. QuietSession'
    BY <2>2, QuietStays
  <2>5. TrackersCatchUp'
    BY <2>2, CatchUpStays
  <2>6. Sharp'
    BY <2>1, <2>2, SharpStays
  <2> QED
    BY <2>1, <2>3, <2>4, <2>5, <2>6 DEF LedgerFollows
<1>3. Typed /\ LedgerFollows => InventoryIsExact
  BY SettledIsExact DEF LedgerFollows
<1> QED
  BY <1>1, <1>2, <1>3, PTL DEF Spec

=============================================================================
