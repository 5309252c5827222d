--------------------------- MODULE StrategyProofs ---------------------------
(***************************************************************************)
(* The strategy, in two parts with no variable in common.                  *)
(*                                                                         *)
(* Its tasks and channels (QuotePipeline): types, and that orders are      *)
(* asked for only on snapshots of markets that a timer tick judged open.   *)
(*                                                                         *)
(* A pass over a snapshot (Quoting): every claim of QuotingProperties, for *)
(* all valid configurations, markets, books and delays.  Each step of the  *)
(* pass has a lemma that says what it keeps of what the steps before it    *)
(* have established, up to the command (DecidedSafe); what one pass leaves *)
(* for the next is the limiter.                                            *)
(***************************************************************************)
EXTENDS QuotePipeline, QuotingProperties, FiniteSetTheorems, SequenceTheorems, TLAPS

(***************************************************************************)
(* Tasks and channels                                                      *)
(***************************************************************************)

Answers == {"allowed", "blocked", "unknown"}

LEMMA NewTick ==
  ASSUME NEW m \in Markets, NEW s \in MarketState
  PROVE  TickOf(m, s) \in Tick
  BY DEF TickOf, Tick, MarketState

(* A bounded channel stays one when a tick is appended with room for it.   *)
LEMMA Sends ==
  ASSUME NEW T, NEW q \in Seq(T), NEW x \in T, NEW cap \in Nat, Len(q) < cap
  PROVE  Append(q, x) \in Seq(T) /\ Len(Append(q, x)) <= cap
  OBVIOUS

LEMMA Receives ==
  ASSUME NEW T, NEW q \in Seq(T), q # <<>>
  PROVE  /\ Head(q) \in T /\ Tail(q) \in Seq(T) /\ Len(Tail(q)) <= Len(q)
         /\ Last(q) \in T
         /\ \A n \in 1..Len(Tail(q)) : n + 1 \in 1..Len(q) /\ Tail(q)[n] = q[n + 1]
  BY DEF Last

LEMMA WorldTyped ==
  ASSUME TypeOK, World
  PROVE  TypeOK'
<1> USE BoundsAssumption
<1>1. ASSUME NEW m \in Markets, NEW tradable \in BOOLEAN, MarketDiscovered(m, tradable)
      PROVE  TypeOK'
  <2>1. NewMarket(tradable) \in MarketState
    BY DEF NewMarket, MarketState, Verdicts
  <2>3. markets' \in [Markets -> MarketState \cup {None}]
    <3>1. CASE markets' = [markets EXCEPT ![m] = NewMarket(tradable)]
      BY <2>1, <3>1 DEF TypeOK
    <3>2. CASE markets[m] # None /\ markets' = [markets EXCEPT ![m].tradable = tradable]
      <4>1. [markets[m] EXCEPT !.tradable = tradable] \in MarketState
        BY <3>2 DEF TypeOK, MarketState
      <4> QED
        BY <3>2, <4>1 DEF TypeOK
    <3> QED
      BY <1>1, <3>1, <3>2 DEF MarketDiscovered
  <2>4. breaks' \in 0..MaxBreaks
    BY <1>1 DEF TypeOK, MarketDiscovered, Turns
  <2> QED
    BY <1>1, <2>3, <2>4 DEF TypeOK, MarketDiscovered, pipeVars
<1>2. ASSUME NEW m \in Markets, SetTrackedMarkets(m) PROVE TypeOK'
  BY <1>2 DEF TypeOK, SetTrackedMarkets, pipeVars, worldVars
<1>3. ASSUME NEW m \in Markets, NEW s \in MarketState, MaybeEmit(TickOf(m, s))
      PROVE  raw' \in Seq(Tick) /\ Len(raw') <= RawCap
  <2>1. CASE raw' = raw
    BY <2>1 DEF TypeOK
  <2>2. CASE Len(raw) < RawCap /\ raw' = Append(raw, TickOf(m, s))
    <3>1. TickOf(m, s) \in Tick
      BY NewTick
    <3> QED
      BY <2>2, <3>1, Sends DEF TypeOK
  <2> QED
    BY <1>3, <2>1, <2>2 DEF MaybeEmit
<1>4. ASSUME NEW m \in Markets, MarketWsUpdate(m) PROVE TypeOK'
  BY <1>3, <1>4 DEF TypeOK, MarketWsUpdate, stateVars, worldVars
<1>5. ASSUME NEW m \in Markets, NEW exposed \in BOOLEAN, UserWsFill(m, exposed)
      PROVE  TypeOK'
  <2>1. markets' \in [Markets -> MarketState \cup {None}] /\ markets'[m] \in MarketState
    BY <1>5 DEF TypeOK, UserWsFill, MarketState
  <2> QED
    BY <1>3, <1>5, <2>1 DEF TypeOK, UserWsFill, Turns
<1>6. ASSUME NEW m \in Markets, NEW exposed \in BOOLEAN, ExposureEvent(m, exposed)
      PROVE  TypeOK'
  <2>1. [markets[m] EXCEPT !.exposed = exposed] \in MarketState
    BY <1>6 DEF TypeOK, ExposureEvent, MarketState
  <2>2. markets' \in [Markets -> MarketState \cup {None}]
    BY <1>6, <2>1 DEF TypeOK, ExposureEvent
  <2>3. breaks' \in 0..MaxBreaks
    BY <1>6 DEF TypeOK, ExposureEvent, Turns
  <2> QED
    BY <1>6, <2>2, <2>3 DEF TypeOK, ExposureEvent, pipeVars
<1>7. ASSUME NEW m \in Markets, NEW fresh \in BOOLEAN, FeedEvent(m, fresh)
      PROVE  TypeOK'
  <2>1. [markets[m] EXCEPT !.feeds = fresh] \in MarketState
    BY <1>7 DEF TypeOK, FeedEvent, MarketState
  <2>2. markets' \in [Markets -> MarketState \cup {None}]
    BY <1>7, <2>1 DEF TypeOK, FeedEvent
  <2>3. breaks' \in 0..MaxBreaks
    BY <1>7 DEF TypeOK, FeedEvent, Turns
  <2> QED
    BY <1>7, <2>2, <2>3 DEF TypeOK, FeedEvent, pipeVars
<1>8. ASSUME NEW m \in Markets, CutoffPasses(m) PROVE TypeOK'
  BY <1>8 DEF TypeOK, CutoffPasses, stateVars, pipeVars
<1>9. ASSUME NEW fresh \in BOOLEAN, UserWsHeartbeat(fresh) PROVE TypeOK'
  BY <1>9 DEF TypeOK, UserWsHeartbeat, Turns, pipeVars
<1>10. ASSUME NEW answer \in Answers, GeoblockStatus(answer) PROVE TypeOK'
  BY <1>10 DEF TypeOK, GeoblockStatus, Turns, pipeVars, Answers
<1> QED
  BY <1>1, <1>2, <1>4, <1>5, <1>6, <1>7, <1>8, <1>9, <1>10 DEF World, Answers

LEMMA TasksTyped ==
  ASSUME TypeOK, Tasks
  PROVE  TypeOK'
<1> USE BoundsAssumption
<1>1. CASE TimerTick
  <2>1. ASSUME NEW m \in Tracked PROVE Judged(m) \in MarketState
    BY <2>1 DEF Judged, Tracked, TypeOK, MarketState, Gate, Verdict, Verdicts
  <2>2. markets' \in [Markets -> MarketState \cup {None}]
        /\ \A m \in Tracked : markets'[m] \in MarketState
    BY <1>1, <2>1 DEF TimerTick, Tracked
  <2>3. outbox' \subseteq Tick
    BY <1>1, <2>2, NewTick DEF TimerTick, Tracked
  <2> QED
    BY <1>1, <2>2, <2>3 DEF TypeOK, TimerTick, pipeVars, worldVars
<1>2. ASSUME NEW tick \in outbox, EmitTick(tick) PROVE TypeOK'
  BY <1>2, Sends DEF TypeOK, EmitTick, stateVars, worldVars
<1>3. CASE FanOut
  <2>1. raw' \in Seq(Tick) /\ Len(raw') <= RawCap /\ Head(raw) \in Tick
    BY <1>3, Receives DEF FanOut, TypeOK
  <2>2. strategy' \in Seq(Tick) /\ Len(strategy') <= StrategyCap
    BY <1>3, <2>1, Sends DEF FanOut, TypeOK
  <2> QED
    BY <1>3, <2>1, <2>2 DEF TypeOK, FanOut, stateVars, worldVars
<1>4. CASE StrategyTake
  BY <1>4, Receives DEF TypeOK, StrategyTake, Hand, stateVars, worldVars
<1>5. CASE StrategySend
  <2>1. hand \in Hand /\ hand.tick.slug \in Markets
    BY <1>5 DEF TypeOK, StrategySend, Hand, Tick
  <2>2. [slug |-> hand.tick.slug, quotes |-> hand.quotes] \in Command
    BY <2>1 DEF Hand, Command
  <2> QED
    BY <1>5, <2>1, <2>2, Sends DEF TypeOK, StrategySend, Hand, stateVars, worldVars
<1>6. CASE StrategyComplete
  BY <1>6 DEF TypeOK, StrategyComplete, stateVars, worldVars
<1>7. CASE ExecReceive
  <2>1. exec' \in Seq(Command) /\ Len(exec') <= ExecCap /\ Head(exec) \in Command
    BY <1>7, Receives DEF ExecReceive, TypeOK
  <2>2. asked' \in [Markets -> BOOLEAN]
    BY <1>7, <2>1 DEF ExecReceive, TypeOK, Command
  <2> QED
    BY <1>7, <2>1, <2>2 DEF TypeOK, ExecReceive, stateVars, worldVars
<1>8. CASE CompletionReceive
  BY <1>8 DEF TypeOK, CompletionReceive, stateVars, worldVars
<1> QED
  BY <1>1, <1>2, <1>3, <1>4, <1>5, <1>6, <1>7, <1>8 DEF Tasks, Emit

(* Every reachable state of the pipeline has its declared shape, and no     *)
(* channel holds more than its capacity.                                   *)
THEOREM QuotePipelineTyped == Spec => []TypeOK
<1>1. Init => TypeOK
  <2>1. \A T, cap : cap \in Nat => <<>> \in Seq(T) /\ Len(<<>>) <= cap
    OBVIOUS
  <2>2. ASSUME Init PROVE markets \in [Markets -> MarketState \cup {None}]
    BY <2>2 DEF Init
  <2>3. ASSUME Init PROVE asked \in [Markets -> BOOLEAN]
    BY <2>3 DEF Init
  <2>4. ASSUME Init PROVE completions \in 0..CompletionCap /\ breaks \in 0..MaxBreaks
    BY <2>4, BoundsAssumption DEF Init
  <2> QED
    BY <2>1, <2>2, <2>3, <2>4, BoundsAssumption DEF Init, TypeOK
<1>2. TypeOK /\ [Next]_vars => TypeOK'
  <2>1. TypeOK /\ UNCHANGED vars => TypeOK'
    BY DEF TypeOK, vars, stateVars, pipeVars, worldVars
  <2> QED
    BY <2>1, WorldTyped, TasksTyped DEF Next
<1> QED
  BY <1>1, <1>2, PTL DEF Spec

-----------------------------------------------------------------------------
(* Snapshots stay sound on their way.                                      *)

SoundQueue(q) == \A n \in 1..Len(q) : Sound(q[n])

LEMMA AppendSound ==
  ASSUME NEW q \in Seq(Tick), NEW tick \in Tick, SoundQueue(q), Sound(tick)
  PROVE  SoundQueue(Append(q, tick))
  BY DEF SoundQueue

LEMMA TailSound ==
  ASSUME NEW q \in Seq(Tick), q # <<>>, SoundQueue(q)
  PROVE  SoundQueue(Tail(q)) /\ Sound(Head(q)) /\ Sound(Last(q))
  BY DEF SoundQueue, Last

LEMMA TickSound ==
  ASSUME NEW m \in Markets, NEW s \in MarketState, Sound(s)
  PROVE  TickOf(m, s) \in Tick /\ Sound(TickOf(m, s))
  BY NewTick DEF TickOf, Sound

LEMMA StateIsTracked ==
  ASSUME NEW s \in MarketState
  PROVE  s # None
<1>1. DOMAIN s = {"tradable", "feeds", "exposed", "enabled", "verdict"}
  BY DEF MarketState
<1>2. DOMAIN None = {"untracked"}
  BY DEF None
<1> QED
  BY <1>1, <1>2

(* What a timer tick enables is open.                                      *)
LEMMA JudgedSound ==
  ASSUME TypeOK, SnapshotsAreSound, NEW m \in Tracked
  PROVE  Judged(m) \in MarketState /\ Sound(Judged(m))
<1>1. markets[m] \in MarketState /\ markets[m] # None
  BY DEF TypeOK, Tracked
<1>2. Gate(m) => Open(m)
  BY <1>1 DEF Gate, Open, SnapshotsAreSound
<1>3. Judged(m).enabled = Gate(m) /\ Judged(m).verdict = Verdict(m)
  BY <1>1 DEF Judged, MarketState
<1>4. Judged(m) \in MarketState
  BY <1>1 DEF Judged, MarketState, Gate, Verdict, Verdicts
<1> QED
  BY <1>2, <1>3, <1>4 DEF Sound, Verdict

LEMMA WorldSound ==
  ASSUME TypeOK, SnapshotsAreSound, World
  PROVE  SnapshotsAreSound'
<1>1. ASSUME NEW m \in Markets, NEW s \in MarketState, Sound(s), MaybeEmit(TickOf(m, s))
      PROVE  \A n \in 1..Len(raw') : Sound(raw'[n])
  <2>1. CASE raw' = raw
    BY <2>1 DEF SnapshotsAreSound
  <2>2. CASE raw' = Append(raw, TickOf(m, s))
    BY <1>1, <2>2, TickSound, AppendSound DEF TypeOK, SnapshotsAreSound, SoundQueue
  <2> QED
    BY <1>1, <2>1, <2>2 DEF MaybeEmit
<1>2. ASSUME NEW m \in Markets, NEW tradable \in BOOLEAN, MarketDiscovered(m, tradable)
      PROVE  SnapshotsAreSound'
  <2>1. \A n \in Tracked' : Sound(markets'[n])
    <3>1. CASE markets' = [markets EXCEPT ![m] = NewMarket(tradable)]
      BY <3>1 DEF TypeOK, Tracked, SnapshotsAreSound, Sound, NewMarket
    <3>2. CASE markets[m] # None /\ markets' = [markets EXCEPT ![m].tradable = tradable]
      BY <3>2 DEF TypeOK, Tracked, SnapshotsAreSound, Sound, MarketState
    <3> QED
      BY <1>2, <3>1, <3>2 DEF MarketDiscovered
  <2> QED
    BY <1>2, <2>1 DEF MarketDiscovered, SnapshotsAreSound, pipeVars, MayQuote
<1>3. ASSUME NEW m \in Markets, SetTrackedMarkets(m) PROVE SnapshotsAreSound'
  BY <1>3 DEF SetTrackedMarkets, SnapshotsAreSound, Tracked, TypeOK, pipeVars, worldVars, MayQuote
<1>4. ASSUME NEW m \in Markets, MarketWsUpdate(m) PROVE SnapshotsAreSound'
  <2>1. markets[m] \in MarketState /\ Sound(markets[m])
    BY <1>4 DEF MarketWsUpdate, TypeOK, SnapshotsAreSound, Tracked
  <2>2. \A n \in 1..Len(raw') : Sound(raw'[n])
    BY <1>1, <1>4, <2>1 DEF MarketWsUpdate
  <2> QED
    BY <1>4, <2>2 DEF MarketWsUpdate, SnapshotsAreSound, Tracked, stateVars, worldVars, MayQuote
<1>5. ASSUME NEW m \in Markets, NEW exposed \in BOOLEAN, markets[m] # None,
             markets' = [markets EXCEPT ![m].exposed = exposed]
      PROVE  /\ markets'[m] \in MarketState /\ m \in Tracked'
             /\ \A n \in Tracked' : Sound(markets'[n])
  <2>1. markets[m] \in MarketState /\ Sound(markets[m])
    BY <1>5 DEF TypeOK, Tracked, SnapshotsAreSound
  <2>2. markets'[m] = [markets[m] EXCEPT !.exposed = exposed]
    BY <1>5 DEF TypeOK
  <2>3. markets'[m] \in MarketState /\ Sound(markets'[m])
    BY <2>1, <2>2 DEF MarketState, Sound
  <2>4. markets'[m] # None
    BY <2>3, StateIsTracked
  <2> QED
    BY <1>5, <2>3, <2>4 DEF TypeOK, Tracked, SnapshotsAreSound
<1>6. ASSUME NEW m \in Markets, NEW exposed \in BOOLEAN, UserWsFill(m, exposed)
      PROVE  SnapshotsAreSound'
  <2>1. /\ markets'[m] \in MarketState /\ m \in Tracked'
        /\ \A n \in Tracked' : Sound(markets'[n])
    BY <1>5, <1>6 DEF UserWsFill
  <2>2. \A n \in 1..Len(raw') : Sound(raw'[n])
    BY <1>1, <1>6, <2>1 DEF UserWsFill
  <2> QED
    BY <1>6, <2>1, <2>2 DEF UserWsFill, SnapshotsAreSound, MayQuote
<1>7. ASSUME NEW m \in Markets, NEW exposed \in BOOLEAN, ExposureEvent(m, exposed)
      PROVE  SnapshotsAreSound'
  <2>1. \A n \in Tracked' : Sound(markets'[n])
    BY <1>5, <1>7 DEF ExposureEvent
  <2> QED
    BY <1>7, <2>1 DEF ExposureEvent, SnapshotsAreSound, pipeVars, MayQuote
<1>8. ASSUME NEW m \in Markets, NEW fresh \in BOOLEAN, FeedEvent(m, fresh)
      PROVE  SnapshotsAreSound'
  <2>1. \A n \in Tracked' : Sound(markets'[n])
    BY <1>8 DEF FeedEvent, TypeOK, Tracked, SnapshotsAreSound, Sound, MarketState
  <2> QED
    BY <1>8, <2>1 DEF FeedEvent, SnapshotsAreSound, pipeVars, MayQuote
<1>9. ASSUME NEW m \in Markets, CutoffPasses(m) PROVE SnapshotsAreSound'
  BY <1>9 DEF CutoffPasses, SnapshotsAreSound, Tracked, stateVars, pipeVars, MayQuote
<1>10. ASSUME NEW fresh \in BOOLEAN, UserWsHeartbeat(fresh) PROVE SnapshotsAreSound'
  BY <1>10 DEF UserWsHeartbeat, SnapshotsAreSound, Tracked, pipeVars, MayQuote
<1>11. ASSUME NEW answer \in Answers, GeoblockStatus(answer) PROVE SnapshotsAreSound'
  BY <1>11 DEF GeoblockStatus, SnapshotsAreSound, Tracked, pipeVars, MayQuote
<1> QED
  BY <1>2, <1>3, <1>4, <1>6, <1>7, <1>8, <1>9, <1>10, <1>11 DEF World, Answers

LEMMA TasksSound ==
  ASSUME TypeOK, SnapshotsAreSound, Tasks
  PROVE  SnapshotsAreSound'
<1>1. CASE TimerTick
  <2>1. \A m \in Tracked : markets'[m] \in MarketState /\ Sound(markets'[m])
    BY <1>1, JudgedSound DEF TimerTick, Tracked
  <2>2. \A m \in Tracked' : m \in Tracked
    BY <1>1 DEF TimerTick, Tracked
  <2>3. \A tick \in outbox' : Sound(tick)
    BY <1>1, <2>1, TickSound DEF TimerTick, Tracked
  <2> QED
    BY <1>1, <2>1, <2>2, <2>3 DEF TimerTick, SnapshotsAreSound, pipeVars, worldVars, MayQuote
<1>2. ASSUME NEW tick \in outbox, EmitTick(tick) PROVE SnapshotsAreSound'
  <2>1. \A n \in 1..Len(raw') : Sound(raw'[n])
    BY <1>2, AppendSound DEF EmitTick, SnapshotsAreSound, SoundQueue, TypeOK
  <2> QED
    BY <1>2, <2>1 DEF EmitTick, SnapshotsAreSound, Tracked, stateVars, worldVars, MayQuote
<1>3. CASE FanOut
  <2>1. SoundQueue(raw') /\ Head(raw) \in Tick /\ Sound(Head(raw))
    BY <1>3, TailSound, Receives DEF FanOut, SnapshotsAreSound, SoundQueue, TypeOK
  <2>2. SoundQueue(strategy')
    BY <1>3, <2>1, AppendSound DEF FanOut, SnapshotsAreSound, SoundQueue, TypeOK
  <2> QED
    BY <1>3, <2>1, <2>2 DEF FanOut, SnapshotsAreSound, SoundQueue, Tracked, stateVars,
                            worldVars, MayQuote
<1>4. CASE StrategyTake
  <2>1. Last(strategy) \in Tick /\ Sound(Last(strategy))
    BY <1>4, TailSound, Receives DEF StrategyTake, SnapshotsAreSound, SoundQueue, TypeOK
  <2>2. \E quotes, complete \in BOOLEAN :
          /\ quotes => MayQuote(Last(strategy))
          /\ hand' = [tick |-> Last(strategy), quotes |-> quotes, complete |-> complete,
                      at |-> "exec"]
    BY <1>4 DEF StrategyTake
  <2>3. Sound(hand'.tick) /\ (hand'.quotes => MayQuote(hand'.tick))
    BY <2>1, <2>2
  <2>4. \A n \in 1..Len(strategy') : Sound(strategy'[n])
    BY <1>4 DEF StrategyTake
  <2> QED
    BY <1>4, <2>3, <2>4 DEF StrategyTake, SnapshotsAreSound, Tracked, stateVars, worldVars, MayQuote
<1>5. CASE StrategySend
  <2>1. hand \in Hand
    BY <1>5 DEF StrategySend, TypeOK
  <2>2. hand' # None => hand'.tick = hand.tick /\ hand'.quotes = hand.quotes
    BY <1>5, <2>1 DEF StrategySend, Hand
  <2> QED
    BY <1>5, <2>2 DEF StrategySend, SnapshotsAreSound, Tracked, stateVars, worldVars, MayQuote
<1>6. CASE StrategyComplete
  BY <1>6 DEF StrategyComplete, SnapshotsAreSound, Tracked, stateVars, worldVars
<1>7. CASE ExecReceive
  BY <1>7 DEF ExecReceive, SnapshotsAreSound, Tracked, stateVars, worldVars, MayQuote
<1>8. CASE CompletionReceive
  BY <1>8 DEF CompletionReceive, SnapshotsAreSound, Tracked, stateVars, worldVars, MayQuote
<1> QED
  BY <1>1, <1>2, <1>3, <1>4, <1>5, <1>6, <1>7, <1>8 DEF Tasks, Emit

(* Every snapshot on its way to the strategy that is enabled was judged     *)
(* open, or not at all; the halt mirrors the last geoblock answer.          *)
THEOREM SnapshotsSound == Spec => []SnapshotsAreSound
<1>1. Init => SnapshotsAreSound
  BY DEF Init, SnapshotsAreSound, Tracked
<1>2. TypeOK /\ SnapshotsAreSound /\ [Next]_vars => SnapshotsAreSound'
  <2>1. SnapshotsAreSound /\ UNCHANGED vars => SnapshotsAreSound'
    BY DEF SnapshotsAreSound, Tracked, vars, stateVars, pipeVars, worldVars, MayQuote
  <2> QED
    BY <2>1, WorldSound, TasksSound DEF Next
<1> QED
  BY <1>1, <1>2, QuotePipelineTyped, PTL DEF Spec

(* The strategy asks for orders only on a snapshot of a market that was     *)
(* judged open and before its cutoff, for any number of markets and any     *)
(* capacities: a new market, which quotes by default, is never the one.     *)
THEOREM QuotesAreOpen == Spec => []OnlyOpenMarketsAreQuoted
<1>1. TypeOK /\ SnapshotsAreSound => OnlyOpenMarketsAreQuoted
  <2>1. ASSUME TypeOK, SnapshotsAreSound, hand # None, hand.quotes
        PROVE  hand.tick.verdict = "open" /\ ~hand.tick.late
    <3>1. hand \in Hand /\ hand.tick \in Tick
      BY <2>1 DEF TypeOK, Hand
    <3> QED
      BY <2>1, <3>1 DEF SnapshotsAreSound, Sound, MayQuote, Tick, Verdicts
  <2> QED
    BY <2>1 DEF OnlyOpenMarketsAreQuoted
<1> QED
  BY <1>1, QuotePipelineTyped, SnapshotsSound, PTL

-----------------------------------------------------------------------------
(***************************************************************************)
(* A pass                                                                  *)
(***************************************************************************)

(* What Keep, CombinedCap and MarketBudget fold; the theorems of FoldTheorems *)
(* are instantiated for each.                                              *)
KeepOp(kept, rest, o) == IF o \in kept THEN Append(rest, o) ELSE rest
Keeps == INSTANCE FoldTheorems WITH Op <- KeepOp

CapOp(rule, q, round) == TakeTick(rule, q)
Caps == INSTANCE FoldTheorems WITH Op <- CapOp

PruneOp(left, rest, o) ==
  IF rest = <<>> \/ OpenNotional(rest) <= left THEN rest ELSE SwapRemove(rest, Worst(rest))
Prunes == INSTANCE FoldTheorems WITH Op <- PruneOp

-----------------------------------------------------------------------------
(* Numbers                                                                 *)

(* A bounded set of integers has a least and a greatest element, which are *)
(* what Min and Max choose.                                                *)
LEMMA MinAny ==
  ASSUME NEW S, S \subseteq Int, S # {}, NEW n \in Int, \A y \in S : n <= y
  PROVE  Min(S) \in S /\ Min(S) \in Int /\ \A y \in S : Min(S) <= y
<1> DEFINE T == {k \in Nat : n + k \in S}
<1>1. T \subseteq Nat /\ T # {}
  <2> PICK y \in S : TRUE
    OBVIOUS
  <2> y - n \in T
    OBVIOUS
  <2> QED
    OBVIOUS
<1>2. PICK k \in T : \A y \in T : k <= y
  <2> HIDE DEF T
  <2> QED
    BY <1>1, Keeps!SmallestNat
<1>3. \A y \in S : n + k <= y
  <2> TAKE y \in S
  <2>1. y - n \in T
    OBVIOUS
  <2>2. k <= y - n
    BY <2>1, <1>2
  <2> QED
    BY <2>2
<1>4. \E x \in S : \A y \in S : x <= y
  BY <1>2, <1>3
<1> QED
  BY <1>4 DEF Min

LEMMA MaxAny ==
  ASSUME NEW S, S \subseteq Int, S # {}, NEW n \in Int, \A y \in S : y <= n
  PROVE  Max(S) \in S /\ Max(S) \in Int /\ \A y \in S : y <= Max(S)
<1> DEFINE T == {k \in Nat : n - k \in S}
<1>1. T \subseteq Nat /\ T # {}
  <2> PICK y \in S : TRUE
    OBVIOUS
  <2> n - y \in T
    OBVIOUS
  <2> QED
    OBVIOUS
<1>2. PICK k \in T : \A y \in T : k <= y
  <2> HIDE DEF T
  <2> QED
    BY <1>1, Keeps!SmallestNat
<1>3. \A y \in S : y <= n - k
  <2> TAKE y \in S
  <2>1. n - y \in T
    OBVIOUS
  <2>2. k <= n - y
    BY <2>1, <1>2
  <2> QED
    BY <2>2
<1>4. \E x \in S : \A y \in S : x >= y
  BY <1>2, <1>3
<1> QED
  BY <1>4 DEF Max

LEMMA MinTwo ==
  ASSUME NEW a \in Int, NEW b \in Int
  PROVE  Min({a, b}) \in Int /\ Min({a, b}) = IF a <= b THEN a ELSE b
BY DEF Min

LEMMA MaxTwo ==
  ASSUME NEW a \in Int, NEW b \in Int
  PROVE  Max({a, b}) \in Int /\ Max({a, b}) = IF a >= b THEN a ELSE b
BY DEF Max

LEMMA MinThree ==
  ASSUME NEW a \in Int, NEW b \in Int, NEW c \in Int
  PROVE  /\ Min({a, b, c}) \in {a, b, c} /\ Min({a, b, c}) \in Int
         /\ Min({a, b, c}) <= a /\ Min({a, b, c}) <= b /\ Min({a, b, c}) <= c
<1> DEFINE S == {a, b, c}
<1>1. \E n \in Int : \A y \in S : n <= y
  <2>1. (IF a <= b THEN IF a <= c THEN a ELSE c ELSE IF b <= c THEN b ELSE c) \in Int
    OBVIOUS
  <2>2. \A y \in S : (IF a <= b THEN IF a <= c THEN a ELSE c ELSE IF b <= c THEN b ELSE c) <= y
    OBVIOUS
  <2> QED
    BY <2>1, <2>2
<1>2. S \subseteq Int /\ S # {} /\ a \in S /\ b \in S /\ c \in S
  OBVIOUS
<1> HIDE DEF S
<1>3. Min(S) \in S /\ Min(S) \in Int /\ \A y \in S : Min(S) <= y
  BY <1>1, <1>2, MinAny
<1> QED
  BY <1>2, <1>3 DEF S

(* Rounding down to a tick.                                                *)
LEMMA Floor ==
  ASSUME NEW p \in Int, NEW tick \in Nat, tick > 0
  PROVE  /\ FloorTo(p, tick) \in Int /\ FloorTo(p, tick) <= p /\ p < FloorTo(p, tick) + tick
         /\ FloorTo(p, tick) = tick * (p \div tick)
         /\ p >= 0 => FloorTo(p, tick) >= 0
<1>1. p = tick * (p \div tick) + (p % tick) /\ p % tick \in 0..(tick - 1) /\ p \div tick \in Int
  BY SMT
<1>2. tick * (p \div tick) \in Int
  BY <1>1
<1>3. FloorTo(p, tick) = p - (p % tick)
  BY DEF FloorTo
<1>4. p >= 0 => p \div tick >= 0
  BY SMT
<1>5. p >= 0 => tick * (p \div tick) >= 0
  BY <1>1, <1>4
<1> QED
  BY <1>1, <1>2, <1>3, <1>5

LEMMA FloorGrows ==
  ASSUME NEW a \in Int, NEW b \in Int, NEW tick \in Nat, tick > 0, a <= b
  PROVE  FloorTo(a, tick) <= FloorTo(b, tick)
<1>1. a \div tick \in Int /\ b \div tick \in Int /\ a \div tick <= b \div tick
  BY SMT
<1>2. tick * (a \div tick) <= tick * (b \div tick)
  BY <1>1
<1> QED
  BY <1>1, <1>2, Floor

(* A price that is a number of ticks stays what it is.                     *)
LEMMA FloorOfTicks ==
  ASSUME NEW a \in Int, NEW tick \in Nat, tick > 0
  PROVE  FloorTo(FloorTo(a, tick), tick) = FloorTo(a, tick)
<1> DEFINE k == a \div tick
<1>1. k \in Int /\ FloorTo(a, tick) = tick * k
  BY Floor
<1> HIDE DEF k
<1>2. (tick * k) % tick = 0
  BY <1>1
<1>3. tick * k \in Int
  BY <1>1
<1> QED
  BY <1>1, <1>2, <1>3 DEF FloorTo

-----------------------------------------------------------------------------
(* Configurations, markets and prices                                      *)

(* What a valid configuration is known to be.                              *)
LEMMA ConfigTyped ==
  ASSUME NEW c \in Configs
  PROVE  /\ c.min_quote_price \in Nat /\ c.min_quote_price > 0
         /\ c.target_total_base \in Nat /\ c.min_ticks_from_ask \in Nat
         /\ c.base_improve_ticks \in Nat /\ c.max_improve_ticks \in Nat
         /\ c.pair_extra_improve_ticks \in Nat
         /\ c.ladder_levels \in Nat /\ c.ladder_step_ticks \in Nat
         /\ c.ladder_levels_toxic \in Nat /\ c.ladder_step_ticks_toxic \in Nat
         /\ c.pair_max_levels \in Nat /\ c.maker_sell_levels \in Nat
         /\ c.chase_max_up \in Nat /\ c.chase_max_up_repair \in Nat
         /\ c.max_usdc_exposure \in Int
         /\ c.max_loss \in Nat /\ c.min_profit \in Nat
<1>1. \A n \in Numbers : c[n] \in Int /\ (n \in Unsigned => c[n] >= 0)
  BY QuotingAssumption
<1>2. /\ c.min_ticks_from_ask \in Nat
      /\ c.base_improve_ticks \in Nat /\ c.max_improve_ticks \in Nat
      /\ c.pair_extra_improve_ticks \in Nat
      /\ c.ladder_levels \in Nat /\ c.ladder_step_ticks \in Nat
      /\ c.ladder_levels_toxic \in Nat /\ c.ladder_step_ticks_toxic \in Nat
      /\ c.pair_max_levels \in Nat /\ c.maker_sell_levels \in Nat
  BY <1>1 DEF Numbers, Unsigned
<1>3. /\ c.chase_max_up \in Int /\ c.chase_max_up_repair \in Int /\ c.max_usdc_exposure \in Int
      /\ c.max_loss \in Int /\ c.min_profit \in Int
  BY <1>1 DEF Numbers
<1>4. ValidTargets(c) /\ ValidTrading(c) /\ ValidInventory(c) /\ ValidCompletion(c)
  BY QuotingAssumption
<1>5. c.min_quote_price \in Nat /\ c.min_quote_price > 0 /\ c.target_total_base \in Nat
  <2>1. c.min_quote_price \in 200..One /\ c.target_total_base \in 0..One
    BY <1>4, Zenon DEF ValidTargets
  <2>2. \A x \in 200..One : x \in Nat /\ x > 0
    BY DEF One
  <2>3. \A x \in 0..One : x \in Nat
    BY DEF One
  <2> QED
    BY <2>1, <2>2, <2>3
<1>6. /\ c.chase_max_up \in Nat /\ c.chase_max_up_repair \in Nat
      /\ c.max_loss \in Nat /\ c.min_profit \in Nat
  BY <1>3, <1>4 DEF ValidTrading, ValidCompletion
<1> QED
  BY <1>2, <1>3, <1>5, <1>6

(* What a market is known to be.                                           *)
LEMMA MarketTyped ==
  ASSUME cfg \in Configs, NEW m \in Market, NEW t \in Tokens
  PROVE  /\ m.book[t] \in BookTop /\ m.book[t].tick \in Nat
         /\ m.book[t].ask \in Int /\ m.book[t].bid \in Int
         /\ m.inv[t].shares \in Nat /\ m.inv[t].cost \in Nat
         /\ TargetTotal(m) \in Nat /\ CapOf(m, t) \in Int
         /\ Unpaired(m) \in Nat /\ Missing(m) \in Tokens /\ Excess(m) \in Tokens
         /\ Excess(m) # Missing(m)
         /\ PostOnlyCap(m.book[t]) \in Int /\ Improve(m, t) \in Int
<1>1. /\ m.book[t] \in BookTop /\ m.book[t].tick \in Nat
      /\ m.book[t].ask \in Int /\ m.book[t].bid \in Int
      /\ m.total \in Int /\ m.cap[t] \in Int
  BY DEF Market, BookTop, NoPrice
<1>2. \A token \in Tokens : m.inv[token].shares \in Nat /\ m.inv[token].cost \in Nat
  BY DEF Market
<1>3. TargetTotal(m) \in Nat
  BY <1>1, ConfigTyped DEF TargetTotal
<1>4. CapOf(m, t) \in Int
  BY <1>1, <1>3 DEF CapOf
<1>5. Unpaired(m) \in Nat /\ Missing(m) \in Tokens /\ Excess(m) \in Tokens
      /\ Excess(m) # Missing(m)
  BY <1>2 DEF Unpaired, Missing, Excess, Other, Shares, Tokens
<1>6. PostOnlyCap(m.book[t]) \in Int
  BY <1>1, ConfigTyped DEF PostOnlyCap
<1>7. Improve(m, t) \in Int
  BY ConfigTyped, MinTwo DEF Improve
<1> QED
  BY <1>1, <1>2, <1>3, <1>4, <1>5, <1>6, <1>7

(* Half of a target is no less than nothing.                               *)
LEMMA TargetHalved ==
  ASSUME cfg \in Configs, NEW m \in Market
  PROVE  TargetTotal(m) \div 2 >= 0
<1>1. TargetTotal(m) \in Nat
  BY MarketTyped DEF Tokens
<1> DEFINE total == TargetTotal(m)
<1> HIDE DEF total
<1>2. total \in Nat => total \div 2 >= 0
  BY SMT
<1> QED
  BY <1>1, <1>2 DEF total

(* The best bid is a price, and below the ask if there is a bid at all.    *)
LEMMA TopPriceSafe ==
  ASSUME cfg \in Configs, NEW book \in BookTop, book.tick > 0, NEW cap \in Int, NEW improve \in Int
  PROVE  /\ TopPrice(book, cap, improve) \in 0..Ceiling
         /\ TopPrice(book, cap, improve) > 0 /\ book.ask # NoPrice
              => TopPrice(book, cap, improve) <= PostOnlyCap(book)
         /\ cap >= 0 => TopPrice(book, cap, improve) <= cap
<1> DEFINE comp ==
        IF book.ask # NoPrice
        THEN Min({IF book.bid # NoPrice THEN book.bid + improve * book.tick ELSE PostOnlyCap(book),
                  Max({0, PostOnlyCap(book)})})
        ELSE IF book.bid # NoPrice THEN book.bid ELSE 0
    most == Min({comp, cap, Ceiling})
    paid == Max({0, most})
<1>1. book.tick \in Nat /\ book.ask \in Int /\ book.bid \in Int
  BY DEF BookTop, NoPrice
<1>2. PostOnlyCap(book) \in Int
  BY <1>1, ConfigTyped DEF PostOnlyCap
<1>3. book.bid + improve * book.tick \in Int
  BY <1>1
<1>4. comp \in Int /\ (book.ask # NoPrice => comp <= Max({0, PostOnlyCap(book)}))
  <2> DEFINE x == IF book.bid # NoPrice THEN book.bid + improve * book.tick ELSE PostOnlyCap(book)
             y == Max({0, PostOnlyCap(book)})
  <2>1. x \in Int /\ y \in Int
    BY <1>2, <1>3, MaxTwo
  <2>2. comp = IF book.ask # NoPrice THEN Min({x, y}) ELSE IF book.bid # NoPrice THEN book.bid ELSE 0
    OBVIOUS
  <2> HIDE DEF x, comp
  <2>3. Min({x, y}) \in Int /\ Min({x, y}) <= y
    <3> HIDE DEF y
    <3> QED
      BY <2>1, MinTwo
  <2> QED
    BY <1>1, <2>2, <2>3
<1> HIDE DEF comp
<1>5. most \in Int /\ most <= comp /\ most <= Ceiling /\ most <= cap
  <2>1. Ceiling \in Int
    BY DEF Ceiling
  <2> QED
    BY <1>4, <2>1, MinThree
<1> HIDE DEF most
<1>6. paid \in Nat /\ paid <= Ceiling /\ paid = (IF 0 >= most THEN 0 ELSE most)
  BY <1>5, MaxTwo DEF Ceiling
<1>7. TopPrice(book, cap, improve) = FloorTo(paid, book.tick)
  BY DEF TopPrice, comp, most
<1> HIDE DEF paid
<1>8. FloorTo(paid, book.tick) \in Int /\ FloorTo(paid, book.tick) <= paid
      /\ FloorTo(paid, book.tick) >= 0
  <2>1. paid \in Int /\ paid >= 0
    BY <1>6
  <2> QED
    BY <1>1, <2>1, Floor
<1>9. Max({0, PostOnlyCap(book)}) = IF 0 >= PostOnlyCap(book) THEN 0 ELSE PostOnlyCap(book)
  BY <1>2, MaxTwo
<1> QED
  BY <1>2, <1>4, <1>5, <1>6, <1>7, <1>8, <1>9 DEF Ceiling

(* The limiter lowers a price or leaves it, and remembers what it gave:    *)
(* always, if that is a price.                                             *)
Entry == [seen : BOOLEAN, p0 : Nat, ts : Nat]

LEMMA ClampLowers ==
  ASSUME NEW entry \in Entry, NEW p0 \in Nat, NEW tick \in Nat, tick > 0,
         NEW time \in Nat, NEW rate \in Nat
  PROVE  LET clamp == ClampUpward(entry, p0, tick, time, rate)
             allowed == ((rate * (time - entry.ts)) \div 1000) * tick
         IN  /\ clamp.price \in Nat /\ clamp.price <= p0
             /\ clamp.entry \in Entry
             /\ clamp.entry = entry \/ (clamp.entry.seen /\ clamp.entry.ts = time)
             /\ clamp.price > 0 => clamp.entry.p0 = clamp.price /\ clamp.entry.ts = time
             /\ entry.seen /\ entry.ts < time => allowed \in Nat
                  /\ (clamp.price <= entry.p0 + allowed \/ p0 = 0)
<1> DEFINE allowed == ((rate * (time - entry.ts)) \div 1000) * tick
<1>1. entry.p0 \in Nat /\ entry.ts \in Nat
  BY DEF Entry
<1>2. time > entry.ts => allowed \in Nat
  <2> SUFFICES ASSUME time > entry.ts PROVE allowed \in Nat
    OBVIOUS
  <2>1. rate * (time - entry.ts) \in Nat
    BY <1>1
  <2> DEFINE x == rate * (time - entry.ts)
  <2> HIDE DEF x
  <2>2. x \div 1000 \in Nat
    BY <2>1 DEF x
  <2>3. (x \div 1000) * tick \in Nat
    BY <2>2
  <2> QED
    BY <2>3 DEF x
<1>3. allowed \in Int
  <2>1. rate * (time - entry.ts) \in Int
    BY <1>1
  <2> DEFINE x == rate * (time - entry.ts)
  <2> HIDE DEF x
  <2>2. x \div 1000 \in Int
    BY <2>1 DEF x
  <2>3. (x \div 1000) * tick \in Int
    BY <2>2
  <2> QED
    BY <2>3 DEF x
<1> HIDE DEF allowed
<1>4. ClampUpward(entry, p0, tick, time, rate) =
        IF p0 <= 0 \/ tick <= 0 THEN [price |-> p0, entry |-> entry]
        ELSE IF ~entry.seen \/ time <= entry.ts \/ p0 <= entry.p0
             THEN [price |-> p0, entry |-> [seen |-> TRUE, p0 |-> p0, ts |-> time]]
        ELSE [price |-> Min({p0, entry.p0 + allowed}),
              entry |-> [seen |-> TRUE, p0 |-> Min({p0, entry.p0 + allowed}), ts |-> time]]
  BY DEF ClampUpward, allowed
<1>5. /\ Min({p0, entry.p0 + allowed}) \in Int /\ Min({p0, entry.p0 + allowed}) <= p0
      /\ Min({p0, entry.p0 + allowed}) <= entry.p0 + allowed
      /\ time > entry.ts => Min({p0, entry.p0 + allowed}) >= 0
  BY <1>1, <1>2, <1>3, MinTwo
<1> DEFINE low == Min({p0, entry.p0 + allowed})
<1> HIDE DEF low
<1>6. \A p \in Nat : [seen |-> TRUE, p0 |-> p, ts |-> time] \in Entry
  BY DEF Entry
<1>7. low \in Int /\ low <= p0 /\ low <= entry.p0 + allowed /\ (time > entry.ts => low >= 0)
  BY <1>5 DEF low
<1>8. CASE p0 <= 0
  BY <1>1, <1>2, <1>4, <1>8 DEF allowed
<1>9. CASE p0 > 0 /\ (~entry.seen \/ time <= entry.ts \/ p0 <= entry.p0)
  BY <1>1, <1>2, <1>4, <1>6, <1>9 DEF allowed
<1>10. CASE p0 > 0 /\ ~(~entry.seen \/ time <= entry.ts \/ p0 <= entry.p0)
  <2>1. ClampUpward(entry, p0, tick, time, rate) =
          [price |-> low, entry |-> [seen |-> TRUE, p0 |-> low, ts |-> time]]
    BY <1>4, <1>10 DEF low
  <2>2. low \in Nat
    BY <1>1, <1>7, <1>10
  <2> QED
    BY <1>2, <1>6, <1>7, <1>10, <2>1, <2>2 DEF allowed
<1> QED
  BY <1>8, <1>9, <1>10

(* A round of the cap takes a thousandth or more off, if the prices are    *)
(* too high.                                                               *)
IsPair(q) == DOMAIN q = {"up", "down", "toggle"} /\ q.up \in Nat /\ q.down \in Nat

LEMMA TakesTick ==
  ASSUME NEW rule, NEW q, IsPair(q), rule.total \in Nat,
         \A t \in Tokens : rule.book[t].tick \in Nat /\ rule.book[t].tick > 0
  PROVE  /\ IsPair(TakeTick(rule, q))
         /\ TakeTick(rule, q).up <= q.up /\ TakeTick(rule, q).down <= q.down
         /\ \/ q.up + q.down <= rule.total /\ TakeTick(rule, q) = q
            \/ TakeTick(rule, q).up + TakeTick(rule, q).down <= q.up + q.down - 1
<1> DEFINE
      Above(t, price) ==
        IF rule.book[t].bid # NoPrice THEN Max({0, price - rule.book[t].bid}) ELSE price
      Less(t, price) == FloorTo(Max({0, price - rule.book[t].tick}), rule.book[t].tick)
      tie == q.up > 0 /\ q.down > 0 /\ Above("up", q.up) = Above("down", q.down)
      up  == q.up > 0 /\ (\/ q.down <= 0
                          \/ Above("up", q.up) > Above("down", q.down)
                          \/ tie /\ ~q.toggle)
<1>1. TakeTick(rule, q) =
        IF q.up + q.down <= rule.total THEN q
        ELSE IF up THEN [q EXCEPT !.up = Less("up", @), !.toggle = @ # tie]
        ELSE [q EXCEPT !.down = Less("down", @), !.toggle = @ # tie]
  BY DEF TakeTick
<1>2. \A t \in Tokens, price \in Nat : Less(t, price) \in Nat /\ Less(t, price) <= price
                                       /\ (price > 0 => Less(t, price) <= price - 1)
  <2> TAKE t \in Tokens, price \in Nat
  <2> DEFINE tick == rule.book[t].tick
             low == Max({0, price - tick})
  <2>1. tick \in Nat /\ tick > 0
    OBVIOUS
  <2> HIDE DEF tick
  <2>2. low \in Int /\ low = IF 0 >= price - tick THEN 0 ELSE price - tick
    BY <2>1, MaxTwo
  <2> HIDE DEF low
  <2>5. low \in Int /\ low >= 0
    BY <2>1, <2>2
  <2>3. FloorTo(low, tick) \in Int /\ FloorTo(low, tick) <= low /\ FloorTo(low, tick) >= 0
    BY <2>1, <2>5, Floor
  <2>4. Less(t, price) = FloorTo(low, tick)
    BY DEF low, tick
  <2> HIDE DEF Less
  <2> QED
    BY <2>1, <2>2, <2>3, <2>4
<1>3. up => q.up > 0
  OBVIOUS
<1>4. ~up => q.up = 0 \/ q.down > 0
  BY DEF IsPair
<1> DEFINE flip == (q.toggle # tie)
<1> HIDE DEF Less, up, tie
<1>5. TakeTick(rule, q) =
        IF q.up + q.down <= rule.total THEN q
        ELSE IF up THEN [q EXCEPT !.up = Less("up", q.up), !.toggle = flip]
        ELSE [q EXCEPT !.down = Less("down", q.down), !.toggle = flip]
  BY <1>1, Zenon
<1> HIDE DEF flip
<1>6. CASE q.up + q.down <= rule.total
  BY <1>5, <1>6 DEF IsPair
<1>7. CASE ~(q.up + q.down <= rule.total) /\ up
  <2>1. TakeTick(rule, q) = [q EXCEPT !.up = Less("up", q.up), !.toggle = flip]
    BY <1>5, <1>7
  <2>2. Less("up", q.up) \in Nat /\ Less("up", q.up) <= q.up - 1
    BY <1>2, <1>3, <1>7 DEF IsPair, Tokens
  <2>3. /\ DOMAIN TakeTick(rule, q) = {"up", "down", "toggle"}
        /\ TakeTick(rule, q).up = Less("up", q.up) /\ TakeTick(rule, q).down = q.down
    BY <2>1 DEF IsPair
  <2> QED
    BY <2>2, <2>3 DEF IsPair
<1>8. CASE ~(q.up + q.down <= rule.total) /\ ~up
  <2>1. TakeTick(rule, q) = [q EXCEPT !.down = Less("down", q.down), !.toggle = flip]
    BY <1>5, <1>8
  <2>0. q.down > 0
    BY <1>4, <1>8 DEF IsPair
  <2>2. Less("down", q.down) \in Nat /\ Less("down", q.down) <= q.down - 1
    BY <1>2, <2>0 DEF IsPair, Tokens
  <2>3. /\ DOMAIN TakeTick(rule, q) = {"up", "down", "toggle"}
        /\ TakeTick(rule, q).down = Less("down", q.down) /\ TakeTick(rule, q).up = q.up
    BY <2>1 DEF IsPair
  <2> QED
    BY <2>2, <2>3 DEF IsPair
<1> QED
  BY <1>6, <1>7, <1>8

(* What the cap leaves of two prices fits, and is no more than they were;  *)
(* prices that fit stay what they are.                                     *)
LEMMA CapFits ==
  ASSUME cfg \in Configs, NEW m \in Market, \A t \in Tokens : m.book[t].tick > 0,
         NEW p, p["up"] \in Nat, p["down"] \in Nat
  PROVE  LET q == CombinedCap(m, p)
         IN  /\ q.up \in Nat /\ q.down \in Nat /\ q.up <= p["up"] /\ q.down <= p["down"]
             /\ q.up + q.down <= TargetTotal(m)
             /\ p["up"] + p["down"] <= TargetTotal(m) => q.up = p["up"] /\ q.down = p["down"]
<1> DEFINE over == Max({0, p["up"] + p["down"] - TargetTotal(m)})
           rule == CapRule(m)
           start == [up |-> p["up"], down |-> p["down"], toggle |-> FALSE]
           rounds == [round \in 1..over |-> round]
<1>1. TargetTotal(m) \in Nat
  BY MarketTyped DEF Tokens
<1>2. /\ over \in Nat /\ over >= p["up"] + p["down"] - TargetTotal(m)
      /\ p["up"] + p["down"] <= TargetTotal(m) => over = 0
  BY <1>1, MaxTwo
<1>3. CombinedCap(m, p) = Caps!Fold(rule, start, rounds)
  BY DEF CombinedCap, Caps!Fold, FoldLeft, MapThenFoldSet, Max, Caps!FoldLeft, Caps!MapThenFoldSet,
         Caps!Max, CapOp
<1>4. rule.total = TargetTotal(m) /\ rule.book = m.book
  BY DEF CapRule
<1>5. \A t \in Tokens : rule.book[t].tick \in Nat /\ rule.book[t].tick > 0
  BY <1>4, MarketTyped
<1>6. IsPair(start) /\ start.up = p["up"] /\ start.down = p["down"]
  BY DEF IsPair
<1> HIDE DEF over, rule, start
<1>7. DOMAIN rounds = 1..over
  OBVIOUS
<1> HIDE DEF rounds
<1>8. PICK h : Caps!IsRun(h, rule, start, rounds, over)
      /\ h[over] = Caps!Fold(rule, start, rounds)
  BY <1>2, <1>7, Caps!FoldHasRun
<1>9. h[0] = start /\ \A i \in 1..over : h[i] = TakeTick(rule, h[i - 1])
  BY <1>8 DEF Caps!IsRun, CapOp
<1> DEFINE Fine(n) == /\ IsPair(h[n]) /\ h[n].up <= p["up"] /\ h[n].down <= p["down"]
                      /\ \/ h[n].up + h[n].down <= rule.total
                         \/ h[n].up + h[n].down <= p["up"] + p["down"] - n
           T == {n \in 0..over : ~Fine(n)}
<1>10. T = {}
  <2> SUFFICES ASSUME T # {} PROVE FALSE
    OBVIOUS
  <2>1. PICK n \in T : \A k \in T : n <= k
    <3>1. T \subseteq Nat
      BY <1>2
    <3> HIDE DEF T
    <3> QED
      BY <3>1, Caps!SmallestNat
  <2>2. n \in 0..over /\ ~Fine(n)
    OBVIOUS
  <2>3. n # 0
    <3>1. Fine(0)
      BY <1>6, <1>9 DEF IsPair
    <3> HIDE DEF Fine
    <3> QED
      BY <2>2, <3>1
  <2>4. n - 1 \in 0..over /\ n \in 1..over
    BY <1>2, <2>2, <2>3
  <2>5. Fine(n - 1)
    <3>1. n - 1 \notin T
      BY <2>1, <2>4
    <3> HIDE DEF Fine
    <3> QED
      BY <2>4, <3>1
  <2>6. h[n] = TakeTick(rule, h[n - 1])
    BY <1>9, <2>4
  <2> DEFINE a == h[n - 1]  b == h[n]
  <2>7. /\ IsPair(b) /\ b.up <= a.up /\ b.down <= a.down
        /\ \/ a.up + a.down <= rule.total /\ b = a
           \/ b.up + b.down <= a.up + a.down - 1
    <3>1. IsPair(a)
      BY <2>5
    <3>2. b = TakeTick(rule, a)
      BY <2>6
    <3> HIDE DEF a, b
    <3> QED
      BY <1>1, <1>4, <1>5, <3>1, <3>2, TakesTick
  <2>8. IsPair(a) /\ a.up <= p["up"] /\ a.down <= p["down"]
        /\ (a.up + a.down <= rule.total \/ a.up + a.down <= p["up"] + p["down"] - (n - 1))
    BY <2>5
  <2> HIDE DEF a, b
  <2>9. /\ IsPair(b) /\ b.up <= p["up"] /\ b.down <= p["down"]
        /\ (b.up + b.down <= rule.total \/ b.up + b.down <= p["up"] + p["down"] - n)
    BY <1>1, <1>2, <1>4, <2>4, <2>7, <2>8 DEF IsPair
  <2> QED
    BY <2>2, <2>9 DEF b
<1>11. Fine(over)
  BY <1>2, <1>10
<1> DEFINE q == h[over]
<1>12. IsPair(q) /\ q.up <= p["up"] /\ q.down <= p["down"]
       /\ (q.up + q.down <= rule.total \/ q.up + q.down <= p["up"] + p["down"] - over)
  BY <1>11
<1>13. CombinedCap(m, p) = q
  BY <1>3, <1>8
<1>14. over = 0 => q.up = p["up"] /\ q.down = p["down"]
  BY <1>6, <1>9
<1> HIDE DEF q, Fine
<1> QED
  BY <1>1, <1>2, <1>4, <1>12, <1>13, <1>14 DEF IsPair

-----------------------------------------------------------------------------
(* Sequences of orders                                                     *)

(* ToSet is the set of the elements; the sequences of a pass are sequences *)
(* over their own elements, which keeps the orders of every step together. *)
LEMMA InSet ==
  ASSUME NEW s, NEW o
  PROVE  o \in ToSet(s) <=> \E i \in DOMAIN s : o = s[i]
BY DEF ToSet

LEMMA SeqOfItself ==
  ASSUME NEW S, NEW s \in Seq(S)
  PROVE  s \in Seq(ToSet(s)) /\ ToSet(s) \subseteq S
<1>1. \A i \in DOMAIN s : s[i] \in S /\ s[i] \in ToSet(s)
  BY InSet
<1>2. ToSet(s) \subseteq S
  BY <1>1, InSet
<1>3. s = [i \in 1..Len(s) |-> s[i]] /\ Len(s) \in Nat /\ DOMAIN s = 1..Len(s)
  OBVIOUS
<1>4. s \in [1..Len(s) -> ToSet(s)]
  BY <1>1, <1>3
<1>5. s \in Seq(ToSet(s))
  BY <1>3, <1>4
<1> QED
  BY <1>2, <1>5

LEMMA ListSet ==
  ASSUME NEW n \in Nat, NEW f, DOMAIN f = 1..n, f = [i \in 1..n |-> f[i]]
  PROVE  f \in Seq(ToSet(f)) /\ \A o \in ToSet(f) : \E i \in 1..n : o = f[i]
<1>1. \A i \in 1..n : f[i] \in ToSet(f)
  BY InSet
<1>2. f \in [1..n -> ToSet(f)]
  BY <1>1
<1>3. \A o \in ToSet(f) : \E i \in DOMAIN f : o = f[i]
  BY InSet
<1>4. \A o \in ToSet(f) : \E i \in 1..n : o = f[i]
  BY <1>3, Zenon
<1> QED
  BY <1>2, <1>4

LEMMA EmptyList == <<>> \in Seq(ToSet(<<>>)) /\ ToSet(<<>>) = {}
<1>1. \A o : o \notin ToSet(<<>>)
  <2> TAKE o
  <2>1. ~ \E i \in DOMAIN <<>> : o = <<>>[i]
    OBVIOUS
  <2> QED
    BY <2>1, InSet
<1> QED
  BY <1>1

LEMMA JoinedSet ==
  ASSUME NEW s, s \in Seq(ToSet(s)), NEW t, t \in Seq(ToSet(t))
  PROVE  s \o t \in Seq(ToSet(s \o t)) /\ ToSet(s \o t) \subseteq ToSet(s) \cup ToSet(t)
<1> DEFINE S == ToSet(s) \cup ToSet(t)
<1>1. ToSet(s) \subseteq S /\ ToSet(t) \subseteq S
  OBVIOUS
<1> HIDE DEF S
<1>2. s \in Seq(S) /\ t \in Seq(S)
  BY <1>1
<1>3. s \o t \in Seq(S)
  BY <1>2, ConcatProperties
<1> DEFINE u == s \o t
<1> HIDE DEF u
<1>4. u \in Seq(ToSet(u)) /\ ToSet(u) \subseteq S
  BY <1>3, SeqOfItself DEF u
<1> QED
  BY <1>4 DEF u, S

(* Keep is the fold of FoldTheorems.                                       *)
LEMMA KeepIs ==
  ASSUME NEW orders, NEW kept
  PROVE  Keep(orders, kept) = Keeps!Fold(kept, <<>>, orders)
BY DEF Keep, Keeps!Fold, FoldLeft, MapThenFoldSet, Max, Keeps!FoldLeft, Keeps!MapThenFoldSet,
       Keeps!Max, KeepOp

(* What is kept are orders of the sequence, and of the set.                *)
LEMMA KeepTakes ==
  ASSUME NEW orders, orders \in Seq(ToSet(orders)), NEW kept
  PROVE  /\ Keep(orders, kept) \in Seq(ToSet(Keep(orders, kept)))
         /\ ToSet(Keep(orders, kept)) \subseteq ToSet(orders) \cap kept
<1> DEFINE E == ToSet(orders) \cap kept
           rest == Keep(orders, kept)
<1>1. Len(orders) \in Nat /\ DOMAIN orders = 1..Len(orders)
      /\ \A i \in 1..Len(orders) : orders[i] \in ToSet(orders)
  OBVIOUS
<1>2. \A r \in Seq(E), i \in 1..Len(orders) : KeepOp(kept, r, orders[i]) \in Seq(E)
  <2> TAKE r \in Seq(E), i \in 1..Len(orders)
  <2>1. CASE orders[i] \in kept
    <3>1. orders[i] \in E
      BY <1>1, <2>1
    <3> HIDE DEF E
    <3>2. Append(r, orders[i]) \in Seq(E)
      BY <3>1
    <3> QED
      BY <2>1, <3>2 DEF KeepOp
  <2>2. CASE orders[i] \notin kept
    BY <2>2 DEF KeepOp
  <2> QED
    BY <2>1, <2>2
<1> HIDE DEF E
<1>3. Keeps!Fold(kept, <<>>, orders) \in Seq(E)
  <2>1. <<>> \in Seq(E)
    OBVIOUS
  <2> DEFINE SE == Seq(E)
  <2> HIDE DEF SE
  <2>2. <<>> \in SE /\ \A r \in SE, i \in 1..Len(orders) : KeepOp(kept, r, orders[i]) \in SE
    BY <1>2, <2>1 DEF SE
  <2>3. Keeps!Fold(kept, <<>>, orders) \in SE
    BY <1>1, <2>2, Keeps!FoldStaysIn
  <2> QED
    BY <2>3 DEF SE
<1>4. rest \in Seq(E)
  BY <1>3, KeepIs
<1> HIDE DEF rest
<1>5. rest \in Seq(ToSet(rest)) /\ ToSet(rest) \subseteq E
  BY <1>4, SeqOfItself
<1> QED
  BY <1>5 DEF rest, E

(* An order; the price of a bid is a number.                               *)
IsOrder(o) ==
  /\ DOMAIN o = {"token", "side", "level", "price", "size"}
  /\ o.token \in Tokens /\ o.side \in Sides /\ o.level \in Nat
  /\ o.side = "buy" => o.price \in Nat

AreOrders(orders) ==
  /\ orders \in Seq(ToSet(orders))
  /\ \A o \in ToSet(orders) : IsOrder(o)

(* An order has the fields it is made of.                                  *)
LEMMA OrderIs ==
  ASSUME NEW t \in Tokens, NEW side \in Sides, NEW level \in Nat, NEW price, NEW size,
         side = "buy" => price \in Nat
  PROVE  LET o == Order(t, side, level, price, size)
         IN  /\ IsOrder(o) /\ o.token = t /\ o.side = side /\ o.level = level /\ o.price = price
BY DEF Order, IsOrder

-----------------------------------------------------------------------------
(* Ladders                                                                 *)

LEMMA LadderNumbers ==
  ASSUME cfg \in Configs, NEW m \in Market
  PROVE  LadderLevels(m) \in Int /\ LadderStep(m) \in Nat
BY ConfigTyped, MinTwo DEF LadderLevels, LadderStep

(* Every bid of a ladder is at most the best bid; level 0 is the best bid. *)
LEMMA BuyLadderFalls ==
  ASSUME cfg \in Configs, NEW m \in Market, NEW t \in Tokens, m.book[t].tick > 0, NEW p0 \in Nat
  PROVE  LET tick == m.book[t].tick
             ladder == BuyLadder(m, t, p0)
         IN  /\ AreOrders(ladder)
             /\ \A o \in ToSet(ladder) :
                  /\ p0 > 0 /\ o.token = t /\ o.side = "buy"
                  /\ o.price <= FloorTo(p0, tick)
                  /\ o.level = 0 => o.price = FloorTo(p0, tick)
<1> DEFINE tick == m.book[t].tick
           step == LadderStep(m)
           low(l) == Max({0, p0 - l * step * tick})
           PriceAt(l) == FloorTo(low(l), tick)
           levels == {l \in 0..(LadderLevels(m) - 1) : PriceAt(l) >= cfg.min_quote_price}
           count == Cardinality(levels)
           ladder == BuyLadder(m, t, p0)
<1>1. tick \in Nat /\ tick > 0 /\ step \in Nat /\ LadderLevels(m) \in Int
  BY MarketTyped, LadderNumbers
<1>2. count \in Nat
  <2>1. IsFiniteSet(0..(LadderLevels(m) - 1))
    <3>1. 0 \in Int /\ LadderLevels(m) - 1 \in Int
      BY <1>1
    <3> QED
      BY <3>1, FS_Interval, Zenon
  <2>2. levels \subseteq 0..(LadderLevels(m) - 1)
    OBVIOUS
  <2> HIDE DEF levels
  <2> QED
    BY <2>1, <2>2, FS_Subset, FS_CardinalityType
<1>3. ladder = IF p0 <= 0 THEN <<>>
               ELSE [i \in 1..count |-> Order(t, "buy", i - 1, PriceAt(i - 1), SizeAt(BaseSize(m), i - 1))]
  BY DEF BuyLadder
<1> HIDE DEF tick, step
<1>4. \A l \in Nat : low(l) \in Nat /\ low(l) <= p0 /\ (l = 0 => low(l) = p0)
  <2> TAKE l \in Nat
  <2>1. l * step * tick \in Nat
    BY <1>1
  <2> DEFINE x == l * step * tick
  <2>2. x \in Nat /\ (l = 0 => x = 0)
    BY <1>1, <2>1
  <2> HIDE DEF x
  <2>3. Max({0, p0 - x}) \in Int /\ Max({0, p0 - x}) = IF 0 >= p0 - x THEN 0 ELSE p0 - x
    BY <2>2, MaxTwo
  <2>4. low(l) = Max({0, p0 - x})
    BY DEF x
  <2> HIDE DEF low
  <2> QED
    BY <2>2, <2>3, <2>4
<1> HIDE DEF low, count
<1>5. \A l \in Nat : PriceAt(l) \in Nat /\ PriceAt(l) <= FloorTo(p0, tick)
                     /\ (l = 0 => PriceAt(l) = FloorTo(p0, tick))
  <2> TAKE l \in Nat
  <2>1. low(l) \in Int /\ low(l) >= 0 /\ low(l) <= p0 /\ p0 \in Int
    BY <1>4
  <2>2. FloorTo(low(l), tick) \in Int /\ FloorTo(low(l), tick) >= 0
    BY <1>1, <2>1, Floor
  <2>3. FloorTo(low(l), tick) <= FloorTo(p0, tick)
    BY <1>1, <2>1, FloorGrows
  <2> QED
    BY <1>4, <2>2, <2>3
<1> HIDE DEF PriceAt
<1>6. CASE p0 <= 0
  <2>1. ladder = <<>>
    BY <1>3, <1>6
  <2> HIDE DEF ladder
  <2> QED
    BY <2>1, EmptyList DEF AreOrders, ladder
<1>7. CASE p0 > 0
  <2> DEFINE At(i) == Order(t, "buy", i - 1, PriceAt(i - 1), SizeAt(BaseSize(m), i - 1))
  <2>1. ladder = [i \in 1..count |-> At(i)]
    BY <1>3, <1>7
  <2>2. \A i \in 1..count :
          /\ IsOrder(At(i)) /\ At(i).token = t /\ At(i).side = "buy"
          /\ At(i).price <= FloorTo(p0, tick)
          /\ At(i).level = 0 => At(i).price = FloorTo(p0, tick)
    <3> TAKE i \in 1..count
    <3>1. i - 1 \in Nat /\ "buy" \in Sides
      BY <1>2 DEF Sides
    <3>2. PriceAt(i - 1) \in Nat /\ PriceAt(i - 1) <= FloorTo(p0, tick)
          /\ (i - 1 = 0 => PriceAt(i - 1) = FloorTo(p0, tick))
      BY <1>5, <3>1
    <3>3. /\ IsOrder(At(i)) /\ At(i).token = t /\ At(i).side = "buy" /\ At(i).level = i - 1
          /\ At(i).price = PriceAt(i - 1)
      BY <3>1, <3>2, OrderIs
    <3> HIDE DEF At
    <3> QED
      BY <3>2, <3>3
  <2> HIDE DEF At, ladder
  <2>3. DOMAIN ladder = 1..count /\ \A i \in 1..count : ladder[i] = At(i)
    BY <2>1
  <2>4. ladder \in Seq(ToSet(ladder)) /\ \A o \in ToSet(ladder) : \E i \in 1..count : o = ladder[i]
    BY <1>2, <2>1, <2>3, ListSet
  <2>5. \A o \in ToSet(ladder) : \E i \in 1..count : o = At(i)
    BY <2>3, <2>4
  <2> QED
    BY <1>7, <2>2, <2>4, <2>5 DEF AreOrders, ladder, tick
<1> QED
  BY <1>6, <1>7

(* Sells are offered of the excess token only, and not without one.        *)
LEMMA MakerSellsAre ==
  ASSUME cfg \in Configs, NEW m \in Market
  PROVE  /\ AreOrders(MakerSells(m))
         /\ \A o \in ToSet(MakerSells(m)) : Unpaired(m) > 0 /\ o.token = Excess(m) /\ o.side = "sell"
<1> DEFINE t == Excess(m)
<1>1. t \in Tokens /\ cfg.maker_sell_levels \in Nat
  BY MarketTyped, ConfigTyped DEF Tokens
<1>2. ASSUME NEW p, NEW size
      PROVE  /\ AreOrders(SellLadder(m, t, p, size))
             /\ \A o \in ToSet(SellLadder(m, t, p, size)) : o.token = t /\ o.side = "sell"
  <2> DEFINE tick == m.book[t].tick
             PriceAt(l) == CeilTo(p + l * LadderStep(m) * tick, tick)
             At(i) == Order(t, "sell", i - 1, PriceAt(i - 1), SizeAt(size, i - 1))
             n == cfg.maker_sell_levels
             all == [i \in 1..n |-> At(i)]
             kept == {o \in ToSet(all) : o.price > 0 /\ o.price >= cfg.min_quote_price}
  <2>1. SellLadder(m, t, p, size) = Keep(all, kept)
    BY DEF SellLadder
  <2>2. \A i \in 1..n : IsOrder(At(i)) /\ At(i).token = t /\ At(i).side = "sell"
    <3> TAKE i \in 1..n
    <3> HIDE DEF PriceAt
    <3>1. i - 1 \in Nat /\ "sell" \in Sides /\ "sell" # "buy"
      BY <1>1 DEF Sides
    <3> QED
      BY <1>1, <3>1, OrderIs
  <2> HIDE DEF At, n
  <2>3. DOMAIN all = 1..n /\ (\A i \in 1..n : all[i] = At(i)) /\ all = [i \in 1..n |-> all[i]]
    OBVIOUS
  <2> HIDE DEF all
  <2>4. all \in Seq(ToSet(all)) /\ \A o \in ToSet(all) : \E i \in 1..n : o = all[i]
    BY <1>1, <2>3, ListSet DEF n
  <2>5. \A o \in ToSet(all) : IsOrder(o) /\ o.token = t /\ o.side = "sell"
    BY <2>2, <2>3, <2>4
  <2> HIDE DEF kept
  <2>6. Keep(all, kept) \in Seq(ToSet(Keep(all, kept)))
        /\ ToSet(Keep(all, kept)) \subseteq ToSet(all)
    BY <2>4, KeepTakes
  <2> QED
    BY <2>1, <2>5, <2>6 DEF AreOrders
<1> HIDE DEF t
<1>3. \/ MakerSells(m) = <<>>
      \/ Unpaired(m) > 0 /\ \E p, size : MakerSells(m) = SellLadder(m, t, p, size)
  BY DEF MakerSells, t
<1>4. CASE MakerSells(m) = <<>>
  BY <1>4, EmptyList DEF AreOrders
<1>5. CASE Unpaired(m) > 0 /\ \E p, size : MakerSells(m) = SellLadder(m, t, p, size)
  <2>1. PICK p, size : MakerSells(m) = SellLadder(m, t, p, size)
    BY <1>5
  <2> QED
    BY <1>2, <1>5, <2>1 DEF t
<1> QED
  BY <1>3, <1>4, <1>5

(* A price is at most 0.99.                                                *)
LEMMA PriceRange ==
  /\ Ceiling \in Nat
  /\ \A x : x \in 0..Ceiling <=> x \in Nat /\ x <= Ceiling
BY SMTT(40) DEF Ceiling

(* How far the limiter lets a price climb since it last gave one.          *)
Allowed(m, t, time, entry) ==
  LET rate == IF Unpaired(m) > 0 THEN cfg.chase_max_up_repair ELSE cfg.chase_max_up
  IN  ((rate * (time - entry.ts)) \div 1000) * m.book[t].tick

Slow(m, t, time, entry, price) ==
  cfg.chase_limiter_enabled /\ entry.seen /\ entry.ts < time
    => price <= entry.p0 + Allowed(m, t, time, entry)

(* As far from the ask as configured.                                      *)
OffTheAsk(m, t, price) == m.book[t].ask # NoPrice => price <= PostOnlyCap(m.book[t])

(* The best bid of a token: a price or none, off the ask, not too high     *)
(* above the one before.                                                   *)
LEMMA ClampedSafe ==
  ASSUME cfg \in Configs, NEW m \in Market, NEW time \in Nat, NEW memory \in [Tokens -> Entry],
         NEW t \in Tokens, m.book[t].tick > 0
  PROVE  LET c == Clamped(m, time, memory)[t]
         IN  /\ c.price \in 0..Ceiling /\ c.entry \in Entry
             /\ c.entry = memory[t] \/ (c.entry.seen /\ c.entry.ts = time)
             /\ c.price > 0 => OffTheAsk(m, t, c.price) /\ Slow(m, t, time, memory[t], c.price)
             /\ CapOf(m, t) >= 0 => c.price <= CapOf(m, t)
             /\ cfg.chase_limiter_enabled /\ c.price > 0 =>
                  c.entry.p0 = c.price /\ c.entry.ts = time
<1> DEFINE top  == TopPrice(m.book[t], CapOf(m, t), Improve(m, t))
           rate == IF Unpaired(m) > 0 THEN cfg.chase_max_up_repair ELSE cfg.chase_max_up
           tick == m.book[t].tick
           c == Clamped(m, time, memory)[t]
           clamp == ClampUpward(memory[t], top, tick, time, rate)
<1>1. /\ m.book[t] \in BookTop /\ tick \in Nat /\ tick > 0
      /\ CapOf(m, t) \in Int /\ Improve(m, t) \in Int /\ PostOnlyCap(m.book[t]) \in Int
  BY MarketTyped
<1>2. /\ top \in 0..Ceiling /\ (top > 0 /\ m.book[t].ask # NoPrice => top <= PostOnlyCap(m.book[t]))
      /\ CapOf(m, t) >= 0 => top <= CapOf(m, t)
  BY <1>1, TopPriceSafe
<1>3. rate \in Nat
  BY ConfigTyped
<1>4. c = IF cfg.chase_limiter_enabled THEN clamp ELSE [price |-> top, entry |-> memory[t]]
  BY DEF Clamped
<1>5. top \in Nat /\ top <= Ceiling /\ Ceiling \in Nat
  BY <1>2, PriceRange
<1>6. Allowed(m, t, time, memory[t]) = ((rate * (time - memory[t].ts)) \div 1000) * tick
  BY DEF Allowed
<1> HIDE DEF top, rate, tick, c
<1>7. /\ clamp.price \in Nat /\ clamp.price <= top
      /\ clamp.entry \in Entry
      /\ clamp.entry = memory[t] \/ (clamp.entry.seen /\ clamp.entry.ts = time)
      /\ clamp.price > 0 => clamp.entry.p0 = clamp.price /\ clamp.entry.ts = time
      /\ memory[t].seen /\ memory[t].ts < time
           => clamp.price <= memory[t].p0 + Allowed(m, t, time, memory[t]) \/ top = 0
  <2>1. memory[t] \in Entry
    OBVIOUS
  <2> DEFINE entry == memory[t]
  <2> HIDE DEF entry
  <2>2. LET e == ClampUpward(entry, top, tick, time, rate)
            allowed == ((rate * (time - entry.ts)) \div 1000) * tick
        IN  /\ e.price \in Nat /\ e.price <= top
            /\ e.entry \in Entry
            /\ e.entry = entry \/ (e.entry.seen /\ e.entry.ts = time)
            /\ e.price > 0 => e.entry.p0 = e.price /\ e.entry.ts = time
            /\ entry.seen /\ entry.ts < time => allowed \in Nat
                 /\ (e.price <= entry.p0 + allowed \/ top = 0)
    BY <1>1, <1>3, <1>5, <2>1, ClampLowers DEF entry
  <2> QED
    BY <1>6, <2>2 DEF entry
<1> HIDE DEF clamp
<1>8. CASE cfg.chase_limiter_enabled
  <2>1. c = clamp
    BY <1>4, <1>8
  <2> QED
    BY <1>1, <1>2, <1>5, <1>7, <2>1 DEF c, Slow, OffTheAsk
<1>9. CASE ~cfg.chase_limiter_enabled
  <2>1. c.price = top /\ c.entry = memory[t]
    BY <1>4, <1>9
  <2> QED
    BY <1>1, <1>2, <1>5, <1>9, <2>1 DEF c, Slow, OffTheAsk
<1> QED
  BY <1>8, <1>9

(* What is known of a bid before repair and rewards: b are the prices of   *)
(* level 0.                                                                *)
Ticks(m) == \A t \in Tokens : m.book[t].tick > 0

Bid(m, b, o) ==
  o.side = "buy" =>
    /\ o.price <= b[o.token] /\ (o.level = 0 => o.price = b[o.token])
    /\ b[o.token] <= Ceiling /\ FloorTo(b[o.token], m.book[o.token].tick) = b[o.token]
    /\ OffTheAsk(m, o.token, o.price)

(* The limiter rules the level-0 bids: it is on, and the caps of the two   *)
(* tokens leave nothing for the combined cap to lower.                     *)
Steady(m) ==
  cfg.chase_limiter_enabled /\ CapOf(m, "up") + CapOf(m, "down") <= TargetTotal(m)

(* What the limiter remembers of a bid of the pass that ended then.        *)
Remembered(m, time, entry, o) ==
  /\ m.book[o.token].tick > 0 /\ entry.ts = time
  /\ o.level = 0 => o.price = FloorTo(entry.p0, m.book[o.token].tick)

Level0(m, b) == b \in [Tokens -> Nat] /\ b["up"] + b["down"] <= TargetTotal(m)

Quoted(m, b, orders) ==
  /\ AreOrders(orders)
  /\ \A o \in ToSet(orders) : Ticks(m) /\ Bid(m, b, o)

(* An empty list of orders is as good as any.                              *)
LEMMA NothingQuoted ==
  ASSUME NEW m, NEW b
  PROVE  Quoted(m, b, <<>>)
BY EmptyList DEF Quoted, AreOrders

LEMMA WhenPairedIs ==
  ASSUME NEW m, NEW orders, NEW side
  PROVE  WhenPaired(m, orders, side) \in {orders, <<>>}
BY DEF WhenPaired

(* What the quote engine proposes.                                         *)
LEMMA BuiltSafe ==
  ASSUME cfg \in Configs, NEW m \in Market, NEW time \in Nat, NEW memory \in [Tokens -> Entry]
  PROVE  LET built == BuildDesired(m, time, memory)
         IN  /\ built.limiter \in [Tokens -> Entry]
             /\ \A t \in Tokens : \/ built.limiter[t] = memory[t]
                                  \/ built.limiter[t].seen /\ built.limiter[t].ts = time
             /\ \E b : Level0(m, b) /\ Quoted(m, b, built.orders)
             /\ \A o \in ToSet(built.orders) :
                  /\ o.side = "buy" => Slow(m, o.token, time, memory[o.token], o.price)
                  /\ o.side = "sell" => Unpaired(m) > 0
                  /\ Steady(m) /\ o.side = "buy" =>
                       Remembered(m, time, built.limiter[o.token], o)
<1> DEFINE built == BuildDesired(m, time, memory)
           clamped == Clamped(m, time, memory)
           top == [t \in Tokens |-> clamped[t].price]
           p == CombinedCap(m, top)
           ups == BuyLadder(m, "up", p.up)
           downs == BuyLadder(m, "down", p.down)
           sells == MakerSells(m)
           orders == (ups \o downs) \o sells
<1>1. CASE ~MayBid(m)
  <2>1. built.orders = <<>> /\ built.limiter = memory
    BY <1>1 DEF BuildDesired
  <2>2. Level0(m, [t \in Tokens |-> 0])
    <3>1. TargetTotal(m) \in Nat
      BY MarketTyped DEF Tokens
    <3> QED
      BY <3>1 DEF Level0, Tokens
  <2> HIDE DEF built
  <2>3. \E b : Level0(m, b) /\ Quoted(m, b, built.orders)
    BY <2>1, <2>2, NothingQuoted
  <2> QED
    BY <2>1, <2>3, EmptyList DEF built
<1>2. CASE MayBid(m)
  <2>1. Ticks(m)
    BY <1>2 DEF MayBid, Ticks
  <2>2. built.orders = WhenPaired(m, orders, Sides)
        /\ built.limiter = [t \in Tokens |-> clamped[t].entry]
    BY <1>2 DEF BuildDesired
  <2>3. \A t \in Tokens :
          /\ clamped[t].price \in 0..Ceiling /\ clamped[t].entry \in Entry
          /\ clamped[t].entry = memory[t] \/ (clamped[t].entry.seen /\ clamped[t].entry.ts = time)
          /\ clamped[t].price > 0 =>
               OffTheAsk(m, t, clamped[t].price) /\ Slow(m, t, time, memory[t], clamped[t].price)
          /\ CapOf(m, t) >= 0 => clamped[t].price <= CapOf(m, t)
          /\ cfg.chase_limiter_enabled /\ clamped[t].price > 0 =>
               clamped[t].entry.p0 = clamped[t].price /\ clamped[t].entry.ts = time
    BY <2>1, ClampedSafe DEF Ticks
  <2> HIDE DEF clamped
  <2>4. top["up"] = clamped["up"].price /\ top["down"] = clamped["down"].price
        /\ "up" \in Tokens /\ "down" \in Tokens
    BY DEF Tokens
  <2> HIDE DEF top
  <2>5. top["up"] \in Nat /\ top["down"] \in Nat /\ top["up"] <= Ceiling /\ top["down"] <= Ceiling
    BY <2>3, <2>4, PriceRange
  <2>6. /\ p.up \in Nat /\ p.down \in Nat /\ p.up <= top["up"] /\ p.down <= top["down"]
        /\ p.up + p.down <= TargetTotal(m)
        /\ top["up"] + top["down"] <= TargetTotal(m) => p.up = top["up"] /\ p.down = top["down"]
    BY <2>1, <2>5, CapFits DEF Ticks
  <2> HIDE DEF p
  <2> DEFINE P(t) == IF t = "up" THEN p.up ELSE p.down
             b == [t \in Tokens |-> FloorTo(P(t), m.book[t].tick)]
  <2>7. \A t \in Tokens : P(t) \in Nat /\ P(t) <= clamped[t].price
        /\ clamped[t].price \in 0..Ceiling
    BY <2>3, <2>4, <2>5, <2>6 DEF Tokens
  <2>0. Steady(m) => \A t \in Tokens : P(t) = clamped[t].price
    <3>1. \A t \in Tokens : CapOf(m, t) \in Int /\ CapOf(m, t) >= 0
      BY MarketTyped, TargetHalved DEF CapOf
    <3>2. TargetTotal(m) \in Nat
      BY MarketTyped DEF Tokens
    <3> QED
      BY <2>3, <2>4, <2>5, <2>6, <3>1, <3>2 DEF Steady, Tokens
  <2>8. \A t \in Tokens : /\ b[t] \in Nat /\ b[t] <= P(t) /\ FloorTo(b[t], m.book[t].tick) = b[t]
    <3> TAKE t \in Tokens
    <3>1. m.book[t].tick \in Nat /\ m.book[t].tick > 0
      BY <2>1, MarketTyped DEF Ticks
    <3>2. b[t] = FloorTo(P(t), m.book[t].tick)
      OBVIOUS
    <3>3. P(t) \in Int /\ P(t) >= 0
      BY <2>7
    <3> HIDE DEF b, P
    <3> QED
      BY <3>1, <3>2, <3>3, Floor, FloorOfTicks
  <2>9. Level0(m, b)
    <3>1. b["up"] <= p.up /\ b["down"] <= p.down
      BY <2>8 DEF Tokens
    <3>2. b \in [Tokens -> Nat]
      BY <2>8
    <3>3. TargetTotal(m) \in Nat /\ b["up"] \in Nat /\ b["down"] \in Nat
      BY <2>8, MarketTyped DEF Tokens
    <3> HIDE DEF b
    <3> QED
      BY <2>6, <3>1, <3>2, <3>3 DEF Level0
  <2>10. ASSUME NEW t \in Tokens
         PROVE  /\ AreOrders(BuyLadder(m, t, P(t)))
                /\ \A o \in ToSet(BuyLadder(m, t, P(t))) :
                     /\ o.token = t /\ o.side = "buy" /\ Bid(m, b, o)
                     /\ Slow(m, t, time, memory[t], o.price)
                     /\ Steady(m) => Remembered(m, time, clamped[t].entry, o)
    <3>1. /\ AreOrders(BuyLadder(m, t, P(t)))
          /\ \A o \in ToSet(BuyLadder(m, t, P(t))) :
               /\ P(t) > 0 /\ o.token = t /\ o.side = "buy"
               /\ o.price <= FloorTo(P(t), m.book[t].tick)
               /\ o.level = 0 => o.price = FloorTo(P(t), m.book[t].tick)
      <4> HIDE DEF P
      <4> QED
        BY <2>1, <2>7, BuyLadderFalls DEF Ticks
    <3>2. b[t] = FloorTo(P(t), m.book[t].tick)
      OBVIOUS
    <3> DEFINE c == clamped[t].price
    <3>3. c \in Nat /\ c <= Ceiling /\ (c > 0 => OffTheAsk(m, t, c) /\ Slow(m, t, time, memory[t], c))
      BY <2>3, PriceRange
    <3>4. P(t) \in Nat /\ P(t) <= c /\ b[t] \in Nat /\ b[t] <= P(t)
          /\ FloorTo(b[t], m.book[t].tick) = b[t]
      BY <2>7, <2>8
    <3>5. PostOnlyCap(m.book[t]) \in Int /\ Ceiling \in Nat
      BY MarketTyped DEF Ceiling
    <3>6. memory[t].p0 \in Nat /\ Allowed(m, t, time, memory[t]) \in Int
      <4>1. memory[t] \in Entry /\ m.book[t].tick \in Nat
        BY MarketTyped
      <4>2. memory[t].p0 \in Nat /\ memory[t].ts \in Nat
        BY <4>1 DEF Entry
      <4> DEFINE rate == IF Unpaired(m) > 0 THEN cfg.chase_max_up_repair ELSE cfg.chase_max_up
                 x == rate * (time - memory[t].ts)
      <4>3. rate \in Nat
        BY ConfigTyped
      <4> HIDE DEF rate
      <4>4. x \in Int
        BY <4>2, <4>3
      <4> HIDE DEF x
      <4>5. x \div 1000 \in Int
        BY <4>4
      <4>6. (x \div 1000) * m.book[t].tick \in Int
        BY <4>1, <4>5
      <4> QED
        BY <4>2, <4>6 DEF Allowed, x, rate
    <3> DEFINE entry == clamped[t].entry
    <3>8. Steady(m) /\ c > 0 => P(t) = c /\ entry.p0 = c /\ entry.ts = time
      BY <2>0, <2>3 DEF Steady
    <3>9. m.book[t].tick > 0
      BY <2>1 DEF Ticks
    <3> HIDE DEF P, b, c, entry
    <3>7. ASSUME NEW o \in ToSet(BuyLadder(m, t, P(t)))
          PROVE  /\ o.token = t /\ o.side = "buy" /\ Bid(m, b, o)
                 /\ Slow(m, t, time, memory[t], o.price)
                 /\ Steady(m) => Remembered(m, time, entry, o)
      <4>1. /\ P(t) > 0 /\ o.token = t /\ o.side = "buy" /\ o.price <= b[t]
            /\ o.level = 0 => o.price = b[t]
        BY <3>1, <3>2
      <4>2. o.price \in Nat
        BY <3>1, <4>1 DEF AreOrders, IsOrder
      <4>3. OffTheAsk(m, t, o.price)
        BY <3>3, <3>4, <3>5, <4>1, <4>2 DEF OffTheAsk
      <4>4. Slow(m, t, time, memory[t], o.price)
        BY <3>3, <3>4, <3>6, <4>1, <4>2 DEF Slow
      <4>5. Steady(m) => Remembered(m, time, entry, o)
        <5>1. c > 0
          BY <3>3, <3>4, <4>1
        <5> QED
          BY <3>1, <3>8, <3>9, <4>1, <5>1 DEF Remembered
      <4> QED
        BY <3>3, <3>4, <3>5, <4>1, <4>3, <4>4, <4>5 DEF Bid
    <3> QED
      BY <3>1, <3>7 DEF entry
  <2>11. ups = BuyLadder(m, "up", P("up")) /\ downs = BuyLadder(m, "down", P("down"))
    OBVIOUS
  <2> DEFINE Fine(o) == /\ Bid(m, b, o)
                        /\ o.side = "buy" => Slow(m, o.token, time, memory[o.token], o.price)
                        /\ o.side = "sell" => Unpaired(m) > 0
                        /\ Steady(m) /\ o.side = "buy" =>
                             Remembered(m, time, clamped[o.token].entry, o)
  <2>12. AreOrders(ups) /\ AreOrders(downs) /\ \A o \in ToSet(ups) \cup ToSet(downs) : Fine(o)
    <3> HIDE DEF ups, downs, P, b
    <3> QED
      BY <2>4, <2>10, <2>11
  <2>13. AreOrders(sells) /\ \A o \in ToSet(sells) : Fine(o)
    <3>1. /\ AreOrders(sells)
          /\ \A o \in ToSet(sells) : Unpaired(m) > 0 /\ o.side = "sell"
      BY MakerSellsAre
    <3> HIDE DEF sells, b
    <3> QED
      BY <3>1 DEF Bid
  <2> HIDE DEF ups, downs, sells, Fine
  <2>14. AreOrders(orders) /\ \A o \in ToSet(orders) : Fine(o)
    <3> DEFINE both == ups \o downs
    <3>1. both \in Seq(ToSet(both)) /\ ToSet(both) \subseteq ToSet(ups) \cup ToSet(downs)
      BY <2>12, JoinedSet DEF AreOrders
    <3> HIDE DEF both
    <3>2. both \o sells \in Seq(ToSet(both \o sells))
          /\ ToSet(both \o sells) \subseteq ToSet(both) \cup ToSet(sells)
      BY <2>13, <3>1, JoinedSet DEF AreOrders
    <3>3. orders = both \o sells
      BY DEF both
    <3> HIDE DEF orders
    <3> QED
      BY <2>12, <2>13, <3>1, <3>2, <3>3 DEF AreOrders
  <2> HIDE DEF orders, built
  <2>15. built.orders = orders \/ built.orders = <<>>
    BY <2>2, WhenPairedIs
  <2>16. /\ built.limiter \in [Tokens -> Entry]
         /\ \A t \in Tokens : \/ built.limiter[t] = memory[t]
                              \/ built.limiter[t].seen /\ built.limiter[t].ts = time
    BY <2>2, <2>3
  <2>17. CASE built.orders = orders
    <3>1. Quoted(m, b, built.orders)
      BY <2>1, <2>14, <2>17 DEF Quoted, Fine
    <3>2. \A o \in ToSet(built.orders) :
            /\ o.side = "buy" => Slow(m, o.token, time, memory[o.token], o.price)
            /\ o.side = "sell" => Unpaired(m) > 0
            /\ Steady(m) /\ o.side = "buy" => Remembered(m, time, built.limiter[o.token], o)
      <4>1. \A t \in Tokens : built.limiter[t] = clamped[t].entry
        BY <2>2
      <4>2. \A o \in ToSet(orders) : o.token \in Tokens
        BY <2>14 DEF AreOrders, IsOrder
      <4> QED
        BY <2>14, <2>17, <4>1, <4>2 DEF Fine
    <3> HIDE DEF b
    <3> QED
      BY <2>9, <2>16, <3>1, <3>2 DEF built
  <2>18. CASE built.orders = <<>>
    <3>1. Quoted(m, b, built.orders)
      BY <2>18, NothingQuoted
    <3>2. \A o : o \notin ToSet(built.orders)
      BY <2>18, EmptyList
    <3> HIDE DEF b
    <3> QED
      BY <2>9, <2>16, <3>1, <3>2 DEF built
  <2> QED
    BY <2>15, <2>17, <2>18
<1> QED
  BY <1>1, <1>2

-----------------------------------------------------------------------------
(* Fees                                                                    *)

(* What division leaves, for the two divisors of the fee.                  *)
LEMMA DivByThousand ==
  ASSUME NEW x \in Int
  PROVE  x \div 1000 \in Int /\ 1000 * (x \div 1000) <= x /\ x < 1000 * (x \div 1000) + 1000
BY SMT

LEMMA DivByMillions ==
  ASSUME NEW x \in Int
  PROVE  /\ x \div 4000000 \in Int /\ 4000000 * (x \div 4000000) <= x
         /\ x < 4000000 * (x \div 4000000) + 4000000
BY SMT

(* What a price may be.                                                    *)
Thousandths == 0..1000

(* What a share costs with its fee, at two prices.                         *)
CostsUpTo(low, high) ==
  /\ low + FeePerShare(low) \in Int /\ high + FeePerShare(high) \in Int
  /\ low + FeePerShare(low) <= high + FeePerShare(high)

(* The fee of a share at a, if it is higher than at b, is higher by no     *)
(* more than b exceeds a: what a share costs with its fee grows with its   *)
(* price, although fees fall above one half.                               *)
LEMMA CostGrows ==
  ASSUME NEW a \in Thousandths, NEW b \in Thousandths, a <= b
  PROVE  CostsUpTo(a, b)
<1> DEFINE q(p) == (p * (One - p)) \div One
           f(p) == p * q(p) * q(p)
           Rooted(p) ==
             /\ q(p) \in Nat /\ 1000 * q(p) <= p * (1000 - p) /\ p * (1000 - p) < 1000 * q(p) + 1000
             /\ q(p) <= 1000 /\ p \in Nat /\ p <= 1000
<1>1. \A p \in Thousandths : Rooted(p)
  <2> HIDE DEF Rooted
  <2> SUFFICES ASSUME NEW p \in Thousandths PROVE Rooted(p)
    OBVIOUS
  <2>1. p \in Nat /\ p <= 1000 /\ 1000 - p \in Nat
    BY DEF Thousandths
  <2> DEFINE r == 1000 - p
             x == p * r
  <2>2. r \in Nat /\ r <= 1000
    BY <2>1
  <2> HIDE DEF r
  <2>3. x \in Nat
    BY <2>1, <2>2
  <2>4. x <= 1000 * 1000
    <3>1. p * r <= 1000 * r
      BY <2>1, <2>2
    <3> QED
      BY <2>2, <2>1, <3>1
  <2> HIDE DEF x
  <2>5. x \div 1000 \in Int /\ 1000 * (x \div 1000) <= x /\ x < 1000 * (x \div 1000) + 1000
    BY <2>3, DivByThousand
  <2>6. q(p) = x \div 1000
    BY DEF One, x, r
  <2> HIDE DEF q
  <2>7. q(p) \in Int /\ 1000 * q(p) <= x /\ x < 1000 * q(p) + 1000
    BY <2>5, <2>6
  <2>8. q(p) \in Nat /\ q(p) <= 1000
    BY <2>3, <2>4, <2>7
  <2> QED
    BY <2>1, <2>7, <2>8 DEF x, r, Rooted
<1>2. \A p : FeePerShare(p) = f(p) \div 4000000
  BY DEF FeePerShare
<1> HIDE DEF q
<1> DEFINE qa == q(a)  qb == q(b)  d == b - a
<1>3. /\ qa \in Nat /\ qb \in Nat /\ a \in Nat /\ b \in Nat /\ a <= 1000 /\ b <= 1000
      /\ 1000 * qa <= a * (1000 - a) /\ b * (1000 - b) < 1000 * qb + 1000
      /\ qa <= 1000 /\ qb <= 1000 /\ d \in Nat
  <2>1. /\ qa \in Nat /\ 1000 * qa <= a * (1000 - a) /\ qa <= 1000 /\ a \in Nat /\ a <= 1000
        /\ qb \in Nat /\ b * (1000 - b) < 1000 * qb + 1000 /\ qb <= 1000 /\ b \in Nat /\ b <= 1000
    <3> HIDE DEF Rooted
    <3>1. Rooted(a) /\ Rooted(b)
      BY <1>1
    <3> QED
      BY <3>1 DEF Rooted
  <2>2. d \in Nat
    BY <2>1
  <2> QED
    BY <2>1, <2>2
<1>4. f(a) = a * qa * qa /\ f(b) = b * qb * qb
  OBVIOUS
<1> HIDE DEF qa, qb, f
<1>5. f(a) \in Int /\ f(b) \in Int
  <2>1. a * qa * qa \in Int /\ b * qb * qb \in Int
    BY <1>3
  <2> QED
    BY <1>4, <2>1
<1>6. f(a) <= f(b) + 4000000 * d
  <2>1. CASE a = b
    BY <1>3, <1>5, <2>1 DEF f, qa, qb
  <2>2. CASE a < b
    <3>1. qa - qb <= 2 * d
      <4>1. a * (1000 - a) - b * (1000 - b) = d * (a + b - 1000)
        BY <1>3
      <4>2. d * (a + b - 1000) <= d * 1000
        <5>1. a + b - 1000 <= 1000 /\ a + b - 1000 \in Int
          BY <1>3
        <5> DEFINE y == a + b - 1000
        <5>2. y \in Int /\ y <= 1000
          BY <5>1
        <5> HIDE DEF y, d
        <5>3. d * y <= d * 1000
          BY <1>3, <5>2
        <5> QED
          BY <5>3 DEF y
      <4> DEFINE u == a * (1000 - a)  v == b * (1000 - b)  w == d * (a + b - 1000)
      <4>3. u \in Int /\ v \in Int /\ w \in Int
        BY <1>3
      <4>4. /\ u - v = w /\ w <= d * 1000 /\ 1000 * qa <= u /\ v < 1000 * qb + 1000
        BY <1>3, <4>1, <4>2
      <4>5. d >= 1
        BY <1>3, <2>2
      <4> HIDE DEF u, v, w, d
      <4> QED
        BY <1>3, <4>3, <4>4, <4>5
    <3>2. b * qb * qb >= a * qb * qb
      <4> DEFINE s == qb * qb
      <4>1. s \in Nat
        BY <1>3
      <4> HIDE DEF s
      <4>2. b * s >= a * s
        BY <1>3, <2>2, <4>1
      <4>3. b * qb * qb = b * s /\ a * qb * qb = a * s
        BY <1>3 DEF s
      <4> QED
        BY <4>2, <4>3
    <3>3. a * qa * qa - a * qb * qb = a * ((qa - qb) * (qa + qb))
      BY <1>3
    <3>4. a * ((qa - qb) * (qa + qb)) <= 4000000 * d
      <4> DEFINE x == qa - qb  y == qa + qb
      <4>1. x \in Int /\ y \in Nat /\ y <= 2000 /\ x <= 2 * d
        BY <1>3, <3>1, SMTT(40)
      <4> HIDE DEF x, y, d
      <4>2. x * y <= (2 * d) * 2000
        <5>1. x * y <= (2 * d) * y
          BY <1>3, <4>1, SMTT(40)
        <5>2. (2 * d) * y <= (2 * d) * 2000
          BY <1>3, <4>1, SMTT(40)
        <5>3. x * y \in Int /\ (2 * d) * y \in Int
          BY <1>3, <4>1, SMTT(40)
        <5> QED
          BY <1>3, <5>1, <5>2, <5>3, SMTT(40)
      <4> DEFINE z == x * y
      <4>3. z \in Int /\ z <= 4000 * d
        BY <1>3, <4>1, <4>2, SMTT(40)
      <4> HIDE DEF z
      <4>4. a * z <= a * (4000 * d)
        BY <1>3, <4>3, SMTT(40)
      <4>5. a * (4000 * d) <= 1000 * (4000 * d)
        BY <1>3, SMTT(40)
      <4>6. a * z \in Int /\ a * (4000 * d) \in Int
        BY <1>3, <4>3, SMTT(40)
      <4>7. a * z <= 4000000 * d
        BY <1>3, <4>4, <4>5, <4>6, SMTT(40)
      <4> QED
        BY <4>7, SMTT(40) DEF z, x, y
    <3> DEFINE fa == a * qa * qa  fb == b * qb * qb  fm == a * qb * qb
               g == a * ((qa - qb) * (qa + qb))
    <3>5. fa \in Int /\ fb \in Int /\ fm \in Int /\ g \in Int
      BY <1>3, SMTT(40)
    <3>6. fb >= fm /\ fa - fm = g /\ g <= 4000000 * d
      BY <3>2, <3>3, <3>4, SMTT(40)
    <3> HIDE DEF fa, fb, fm, g, d
    <3>7. fa <= fb + 4000000 * d
      BY <1>3, <3>5, <3>6, SMTT(40)
    <3> QED
      BY <1>4, <3>7, SMTT(40) DEF fa, fb
  <2> QED
    BY <1>3, <2>1, <2>2, SMTT(40)
<1> DEFINE fa == f(a)  fb == f(b)
<1> HIDE DEF fa, fb
<1>7. /\ fa \div 4000000 \in Int /\ 4000000 * (fa \div 4000000) <= fa
      /\ fa < 4000000 * (fa \div 4000000) + 4000000
  BY <1>5, DivByMillions DEF fa
<1>8. /\ fb \div 4000000 \in Int /\ 4000000 * (fb \div 4000000) <= fb
      /\ fb < 4000000 * (fb \div 4000000) + 4000000
  BY <1>5, DivByMillions DEF fb
<1>9. FeePerShare(a) = fa \div 4000000 /\ FeePerShare(b) = fb \div 4000000
  BY <1>2, SMTT(40) DEF fa, fb
<1>10. fa \in Int /\ fb \in Int /\ fa <= fb + 4000000 * d
  BY <1>5, <1>6, SMTT(40) DEF fa, fb
<1> DEFINE x == fa \div 4000000  y == fb \div 4000000
<1> HIDE DEF x, y, d
<1>11. /\ x \in Int /\ 4000000 * x <= fa /\ y \in Int /\ fb < 4000000 * y + 4000000
  BY <1>7, <1>8, SMTT(40) DEF x, y
<1>12. 4000000 * x < 4000000 * (y + 1 + d)
  BY <1>3, <1>10, <1>11, SMTT(40)
<1>13. x <= y + d
  BY <1>3, <1>11, <1>12, SMTT(40)
<1>14. /\ a + FeePerShare(a) \in Int /\ b + FeePerShare(b) \in Int
       /\ a + FeePerShare(a) <= b + FeePerShare(b)
  BY <1>3, <1>9, <1>11, <1>13 DEF x, y, d
<1> QED
  BY <1>14 DEF CostsUpTo

(* The highest price at which a pair still pays, fee included.             *)
IsTakerPrice(paid, avgCost, minProfit) ==
  /\ paid \in Thousandths /\ MaxTakerPrice(avgCost, minProfit) = {paid}
  /\ paid > 0 => paid + FeePerShare(paid) <= One - avgCost - minProfit

(* What max_taker_price converges to pays.                                 *)
LEMMA MaxTakerPays ==
  ASSUME NEW avgCost \in Int, NEW minProfit \in Int, MaxTakerPrice(avgCost, minProfit) # {}
  PROVE  \E paid : IsTakerPrice(paid, avgCost, minProfit)
<1> DEFINE target == One - avgCost - minProfit
           fits == {p \in Max({0, target - FeeBound - 1})..target : p + FeePerShare(p) <= target} \cup {0}
<1>1. target \in Int
  BY DEF One
<1>2. MaxTakerPrice(avgCost, minProfit) =
        IF target <= 0 THEN {} ELSE IF target >= One THEN {One} ELSE {Max(fits)}
  BY DEF MaxTakerPrice
<1>3. CASE target <= 0
  BY <1>2, <1>3
<1>4. CASE target > 0 /\ target >= One
  <2>1. FeePerShare(1000) = 0
    BY DEF FeePerShare, One
  <2>2. One + FeePerShare(One) <= target
    BY <1>1, <1>4, <2>1 DEF One
  <2>3. One \in Thousandths /\ MaxTakerPrice(avgCost, minProfit) = {One}
    BY <1>1, <1>2, <1>4 DEF One, Thousandths
  <2> HIDE DEF fits
  <2> QED
    BY <2>2, <2>3 DEF IsTakerPrice
<1>5. CASE target > 0 /\ ~(target >= One)
  <2> DEFINE low == Max({0, target - FeeBound - 1})
  <2>1. low \in Int /\ low >= 0
    BY <1>1, MaxTwo DEF FeeBound
  <2> HIDE DEF low
  <2>2. \A p \in fits : p \in Int /\ p >= 0 /\ p <= target
    BY <1>1, <1>5, <2>1 DEF low
  <2>3. fits # {} /\ fits \subseteq Int
    BY <2>2
  <2>4. \A p \in fits : p = 0 \/ p + FeePerShare(p) <= target
    OBVIOUS
  <2> HIDE DEF fits, target
  <2>5. Max(fits) \in fits
    BY <1>1, <2>2, <2>3, MaxAny
  <2> DEFINE paid == Max(fits)
  <2>6. paid \in Thousandths /\ paid \in Int
    BY <1>1, <1>5, <2>2, <2>5 DEF One, Thousandths
  <2>7. paid > 0 => paid + FeePerShare(paid) <= target
    BY <2>4, <2>5, <2>6
  <2>8. MaxTakerPrice(avgCost, minProfit) = {paid}
    BY <1>1, <1>2, <1>5 DEF One
  <2> HIDE DEF paid
  <2> QED
    BY <2>6, <2>7, <2>8 DEF target, IsTakerPrice
<1> HIDE DEF target, fits
<1> QED
  BY <1>1, <1>3, <1>4, <1>5

(* A price at which buying the missing token pays: the claim of RepairPays *)
(* for a bid.                                                              *)
Pays(m, price) ==
  price + FeePerShare(price) + m.inv[Excess(m)].cost - One <= -MinProfit(m)

(* The profit asked for, or the share of the loss that is allowed.         *)
LEMMA MinProfitIs ==
  ASSUME cfg \in Configs, NEW m \in Market, Unpaired(m) > 0
  PROVE  /\ MinProfit(m) \in Int
         /\ \/ MinProfit(m) = cfg.min_profit
            \/ -MinProfit(m) \in Int /\ (-MinProfit(m)) * Unpaired(m) <= cfg.max_loss
<1> DEFINE u == Unpaired(m)
           share == cfg.max_loss \div u
           loss == Min({share, Ceiling})
<1>1. u \in Nat /\ u > 0 /\ cfg.max_loss \in Nat /\ cfg.min_profit \in Nat
  BY MarketTyped, ConfigTyped DEF Tokens
<1>2. MinProfit(m) = -loss \/ MinProfit(m) = cfg.min_profit
  BY DEF MinProfit
<1> HIDE DEF u
<1>3. share \in Int /\ share * u <= cfg.max_loss
  BY <1>1, SMT
<1> HIDE DEF share
<1>4. loss \in Int /\ loss <= share
  BY <1>3, PriceRange, MinTwo
<1> HIDE DEF loss
<1>5. loss * u <= share * u
  BY <1>1, <1>3, <1>4
<1>6. loss * u \in Int /\ share * u \in Int
  BY <1>1, <1>3, <1>4
<1>7. loss * u <= cfg.max_loss
  BY <1>1, <1>3, <1>5, <1>6
<1>8. -(-loss) = loss
  BY <1>4
<1> QED
  BY <1>1, <1>2, <1>4, <1>7, <1>8 DEF u

(* What pays at a price pays below it.                                     *)
LEMMA PaysBelow ==
  ASSUME cfg \in Configs, NEW m \in Market, Unpaired(m) > 0,
         NEW paid \in Thousandths, MaxTakerPrice(m.inv[Excess(m)].cost, MinProfit(m)) = {paid},
         NEW price \in Nat, price <= paid, price > 0
  PROVE  Pays(m, price)
<1> DEFINE cost == m.inv[Excess(m)].cost  profit == MinProfit(m)
<1>1. cost \in Int
  BY MarketTyped DEF Tokens
<1>2. profit \in Int
  BY MinProfitIs
<1> HIDE DEF cost, profit
<1>3. paid + FeePerShare(paid) <= One - cost - profit
  <2>0. MaxTakerPrice(cost, profit) = {paid}
    BY DEF cost, profit
  <2>1. PICK r : IsTakerPrice(r, cost, profit)
    BY <1>1, <1>2, <2>0, MaxTakerPays
  <2>2. r = paid
    BY <2>0, <2>1 DEF IsTakerPrice
  <2>3. paid > 0
    BY DEF Thousandths
  <2> QED
    BY <2>1, <2>2, <2>3 DEF IsTakerPrice
<1>4. /\ price + FeePerShare(price) \in Int /\ paid + FeePerShare(paid) \in Int
      /\ price + FeePerShare(price) <= paid + FeePerShare(paid)
  <2>1. price \in Thousandths
    BY DEF Thousandths
  <2>2. CostsUpTo(price, paid)
    BY <2>1, CostGrows
  <2> QED
    BY <2>2 DEF CostsUpTo
<1> DEFINE x == price + FeePerShare(price)  y == paid + FeePerShare(paid)
<1>5. x \in Int /\ y \in Int /\ x <= y /\ y <= One - cost - profit
  BY <1>3, <1>4
<1>6. Pays(m, price) <=> x + cost - One <= -profit
  BY DEF Pays, cost, profit
<1> HIDE DEF x, y
<1> QED
  BY <1>1, <1>2, <1>5, <1>6 DEF One

(* Without a tick nothing is rounded.                                      *)
LEMMA RoundsDown ==
  ASSUME NEW p \in Int, NEW tick \in Nat
  PROVE  RoundDown(p, tick) \in Int /\ RoundDown(p, tick) <= p
BY Floor DEF RoundDown

(* The cap of repair pricing, if there is one above zero.                  *)
LEMMA RepairCapPays ==
  ASSUME cfg \in Configs, NEW m \in Market, Unpaired(m) > 0, RepairCap(m) # {}
  PROVE  /\ RepairCap(m) = {Max(RepairCap(m))}
         /\ Max(RepairCap(m)) \in Int /\ Max(RepairCap(m)) <= 1000
         /\ \A price \in Nat : 0 < price /\ price <= Max(RepairCap(m)) => Pays(m, price)
<1> DEFINE tick == m.book[Missing(m)].tick
           cost == m.inv[Excess(m)].cost
           Capped(paid) == RoundDown(Min({paid, LimitCeiling(tick)}), tick)
<1>1. tick \in Nat /\ cost \in Int
  BY MarketTyped DEF Tokens
<1>2. MinProfit(m) \in Int
  BY MinProfitIs
<1>3. RepairCap(m) = {Capped(paid) : paid \in MaxTakerPrice(cost, MinProfit(m))}
  BY DEF RepairCap
<1>4. PICK paid : IsTakerPrice(paid, cost, MinProfit(m))
  <2>1. MaxTakerPrice(cost, MinProfit(m)) # {}
    BY <1>3
  <2> HIDE DEF cost
  <2> QED
    BY <1>1, <1>2, <2>1, MaxTakerPays
<1>5. paid \in Thousandths /\ MaxTakerPrice(cost, MinProfit(m)) = {paid}
  <2> HIDE DEF cost
  <2> QED
    BY <1>4 DEF IsTakerPrice
<1> DEFINE cap == Capped(paid)
<1>6. RepairCap(m) = {cap}
  BY <1>3, <1>5
<1>7. cap \in Int /\ cap <= paid /\ paid \in Int /\ paid <= 1000
  <2> DEFINE limit == LimitCeiling(tick)
             low == Min({paid, limit})
  <2>1. limit \in Int
    <3>1. limit = RoundDown(Ceiling, tick) /\ Ceiling \in Int
      BY PriceRange DEF LimitCeiling
    <3> HIDE DEF tick, limit
    <3> QED
      BY <1>1, <3>1, RoundsDown
  <2>2. paid \in Int /\ paid <= 1000
    BY <1>5 DEF Thousandths
  <2> HIDE DEF limit
  <2>3. low \in Int /\ low <= paid
    BY <2>1, <2>2, MinTwo
  <2>4. cap = RoundDown(low, tick)
    BY DEF limit
  <2> HIDE DEF low, tick, cap
  <2>5. RoundDown(low, tick) \in Int /\ RoundDown(low, tick) <= low
    BY <1>1, <2>3, RoundsDown
  <2> QED
    BY <2>2, <2>3, <2>4, <2>5
<1> HIDE DEF cap
<1>8. Max({cap}) = cap
  BY <1>7 DEF Max
<1>9. Max(RepairCap(m)) = cap
  BY <1>6, <1>8
<1>10. \A price \in Nat : 0 < price /\ price <= cap => Pays(m, price)
  <2> SUFFICES ASSUME NEW price \in Nat, 0 < price, price <= cap PROVE Pays(m, price)
    OBVIOUS
  <2>1. price <= paid
    BY <1>7
  <2>2. paid \in Thousandths /\ MaxTakerPrice(m.inv[Excess(m)].cost, MinProfit(m)) = {paid}
    BY <1>5 DEF cost
  <2> QED
    BY <2>1, <2>2, PaysBelow
<1>11. cap <= 1000
  BY <1>7
<1> QED
  BY <1>6, <1>7, <1>9, <1>10, <1>11

(* An order keeps these through a change of its size.                      *)
SameQuote(o, p) ==
  o.token = p.token /\ o.side = p.side /\ o.level = p.level /\ o.price = p.price

(* Orders whose size or price is changed are orders.                       *)
LEMMA SizeChanges ==
  ASSUME NEW o, IsOrder(o), NEW size
  PROVE  IsOrder([o EXCEPT !.size = size]) /\ SameQuote([o EXCEPT !.size = size], o)
BY DEF IsOrder, SameQuote

LEMMA PriceChanges ==
  ASSUME NEW o, IsOrder(o), NEW price \in Nat
  PROVE  LET p == [o EXCEPT !.price = price]
         IN  /\ IsOrder(p) /\ p.price = price
             /\ p.token = o.token /\ p.side = o.side /\ p.level = o.level
BY DEF IsOrder

(* What holds of every changed order holds of the changed sequence.        *)
LEMMA MappedAre ==
  ASSUME NEW orders, orders \in Seq(ToSet(orders)), NEW mapped, DOMAIN mapped = DOMAIN orders,
         mapped = [i \in DOMAIN orders |-> mapped[i]]
  PROVE  /\ mapped \in Seq(ToSet(mapped))
         /\ \A o \in ToSet(mapped) : \E i \in DOMAIN orders : o = mapped[i] /\ orders[i] \in ToSet(orders)
<1> DEFINE n == Len(orders)
<1>1. n \in Nat /\ DOMAIN orders = 1..n /\ \A i \in 1..n : orders[i] \in ToSet(orders)
  OBVIOUS
<1> HIDE DEF n
<1>2. mapped \in Seq(ToSet(mapped)) /\ \A o \in ToSet(mapped) : \E i \in 1..n : o = mapped[i]
  <2>1. DOMAIN mapped = 1..n /\ mapped = [i \in 1..n |-> mapped[i]]
    BY <1>1
  <2> QED
    BY <1>1, <2>1, ListSet
<1> QED
  BY <1>1, <1>2

(* With a gap, no bid for the excess token; without, the orders or none.   *)
LEMMA AdjustedAre ==
  ASSUME cfg \in Configs, NEW m \in Market, NEW orders, AreOrders(orders)
  PROVE  LET adjusted == AdjustForInventory(m, orders)
         IN  /\ Unpaired(m) = 0 => adjusted = orders \/ adjusted = <<>>
             /\ Unpaired(m) > 0 =>
                  /\ AreOrders(adjusted)
                  /\ \A o \in ToSet(adjusted) :
                       /\ ~(o.token = Excess(m) /\ o.side = "buy")
                       /\ \E p \in ToSet(orders) : SameQuote(o, p)
<1> DEFINE gap == Unpaired(m)
           range == cfg.skew_moderate - cfg.skew_mild
           Larger(size) == IF gap > cfg.skew_mild /\ range > 0
                           THEN (size * (range + Min({gap - cfg.skew_mild, range}))) \div range ELSE size
           Grow(o) == IF o.token = Missing(m) /\ o.side = "buy"
                      THEN [o EXCEPT !.size = Larger(@)] ELSE o
           grown == [i \in DOMAIN orders |-> Grow(orders[i])]
           kept == {o \in ToSet(grown) : ~(o.token = Excess(m) /\ o.side = "buy")}
           adjusted == AdjustForInventory(m, orders)
<1>1. adjusted = IF gap = 0 THEN WhenPaired(m, orders, {"buy"}) ELSE Keep(grown, kept)
  BY DEF AdjustForInventory, Each
<1>2. CASE gap = 0
  BY <1>1, <1>2, WhenPairedIs
<1>3. CASE gap > 0
  <2>1. adjusted = Keep(grown, kept)
    BY <1>1, <1>3
  <2> HIDE DEF Larger
  <2>2. \A o \in ToSet(orders) : IsOrder(Grow(o)) /\ SameQuote(Grow(o), o)
    BY SizeChanges DEF AreOrders, SameQuote
  <2> HIDE DEF Grow
  <2>3. orders \in Seq(ToSet(orders))
    BY DEF AreOrders
  <2>4. DOMAIN grown = DOMAIN orders /\ (\A i \in DOMAIN orders : grown[i] = Grow(orders[i]))
        /\ grown = [i \in DOMAIN orders |-> grown[i]]
    OBVIOUS
  <2> HIDE DEF grown
  <2>5. /\ grown \in Seq(ToSet(grown))
        /\ \A o \in ToSet(grown) : \E i \in DOMAIN orders : o = grown[i] /\ orders[i] \in ToSet(orders)
    BY <2>3, <2>4, MappedAre
  <2>6. /\ Keep(grown, kept) \in Seq(ToSet(Keep(grown, kept)))
        /\ ToSet(Keep(grown, kept)) \subseteq ToSet(grown) \cap kept
    <3> HIDE DEF kept
    <3> QED
      BY <2>5, KeepTakes
  <2>7. \A o \in ToSet(grown) : IsOrder(o) /\ \E p \in ToSet(orders) : SameQuote(o, p)
    BY <2>2, <2>4, <2>5
  <2> HIDE DEF adjusted
  <2>8. \A o \in ToSet(adjusted) : o \in ToSet(grown) /\ ~(o.token = Excess(m) /\ o.side = "buy")
    BY <2>1, <2>6
  <2>9. AreOrders(adjusted)
    BY <2>1, <2>6, <2>7, <2>8 DEF AreOrders
  <2> QED
    BY <1>3, <2>7, <2>8, <2>9 DEF adjusted
<1>4. gap \in Nat
  BY MarketTyped DEF Tokens
<1> QED
  BY <1>2, <1>3, <1>4

(* A sequence of kept orders.                                              *)
LEMMA KeptAre ==
  ASSUME NEW orders, AreOrders(orders), NEW kept
  PROVE  /\ AreOrders(Keep(orders, kept))
         /\ \A o \in ToSet(Keep(orders, kept)) : o \in ToSet(orders) /\ o \in kept
<1>1. /\ Keep(orders, kept) \in Seq(ToSet(Keep(orders, kept)))
      /\ ToSet(Keep(orders, kept)) \subseteq ToSet(orders) \cap kept
  BY KeepTakes DEF AreOrders
<1> QED
  BY <1>1 DEF AreOrders

(* What repair pricing leaves: bids off the ask, and bids for the missing  *)
(* token at a price that pays.                                             *)
Repaired(m, o) ==
  o.side = "buy" =>
    /\ OffTheAsk(m, o.token, o.price)
    /\ o.token = Missing(m) => Pays(m, o.price)

(* Without a bid for the missing token the orders are left alone; otherwise its *)
(* bids are withdrawn, or repriced under the cap and off the ask.  The branch of *)
(* the code that keeps them when nothing is off the ask is never taken: no bid *)
(* of the orders could then have been off the ask.                         *)
LEMMA RepairedAre ==
  ASSUME cfg \in Configs, NEW m \in Market, Unpaired(m) > 0, NEW orders, AreOrders(orders),
         \A o \in ToSet(orders) : o.side = "buy" => Ticks(m) /\ OffTheAsk(m, o.token, o.price)
  PROVE  LET priced == RepairPricing(m, orders)
         IN  /\ AreOrders(priced)
             /\ \A o \in ToSet(priced) :
                  /\ Repaired(m, o)
                  /\ \E p \in ToSet(orders) : o.token = p.token /\ o.side = p.side
<1> DEFINE t == Missing(m)
           book == m.book[t]
           min == cfg.min_quote_price
           others == {o \in ToSet(orders) : o.token # t}
           cap == Max(RepairCap(m))
           top == RoundDown(IF book.ask # NoPrice THEN Min({cap, PostOnlyCap(book)}) ELSE cap, book.tick)
           Target(l) == RoundDown(Max({0, top - l * cfg.ladder_step_ticks * book.tick}), book.tick)
           Reprice(o) ==
             IF o.token # t \/ o.side # "buy" THEN o
             ELSE IF Target(o.level) < min THEN [o EXCEPT !.price = 0]
             ELSE [o EXCEPT !.price = Min({Max({@, Target(o.level)}), top, cap})]
           repriced == [i \in DOMAIN orders |-> Reprice(orders[i])]
           high == {o \in ToSet(repriced) : o.price >= min}
           priced == RepairPricing(m, orders)
<1>1. priced = IF Unpaired(m) = 0 \/ ~Has(orders, t, {"buy"}) THEN orders
               ELSE IF RepairCap(m) = {} \/ cap <= 0 THEN Keep(orders, others)
               ELSE IF book.ask # NoPrice /\ PostOnlyCap(book) < 0 THEN orders
               ELSE IF top < min THEN Keep(orders, others)
               ELSE Keep(repriced, high)
  BY DEF RepairPricing, Each
<1>2. /\ t \in Tokens /\ book \in BookTop /\ book.tick \in Nat /\ book.ask \in Int
      /\ PostOnlyCap(book) \in Int /\ Unpaired(m) \in Nat
      /\ min \in Nat /\ min > 0 /\ cfg.ladder_step_ticks \in Nat
  BY MarketTyped, ConfigTyped DEF Tokens
<1>3. ASSUME AreOrders(priced),
             \A o \in ToSet(priced) : o \in ToSet(orders) /\ ~(o.token = t /\ o.side = "buy")
      PROVE  /\ AreOrders(priced)
             /\ \A o \in ToSet(priced) :
                  /\ Repaired(m, o)
                  /\ \E p \in ToSet(orders) : o.token = p.token /\ o.side = p.side
  <2> HIDE DEF priced
  <2>1. \A o \in ToSet(priced) : Repaired(m, o)
    BY <1>3 DEF Repaired
  <2> QED
    BY <1>3, <2>1
<1>4. CASE ~Has(orders, t, {"buy"})
  <2>1. priced = orders
    BY <1>1, <1>4
  <2>2. \A o \in ToSet(orders) : ~(o.token = t /\ o.side = "buy")
    BY <1>4, InSet DEF Has
  <2> HIDE DEF priced
  <2>3. AreOrders(priced) /\ \A o \in ToSet(priced) : o \in ToSet(orders) /\ ~(o.token = t /\ o.side = "buy")
    BY <2>1, <2>2
  <2> QED
    BY <1>3, <2>3 DEF priced
<1>5. ASSUME Has(orders, t, {"buy"}), priced = Keep(orders, others)
      PROVE  /\ AreOrders(priced)
             /\ \A o \in ToSet(priced) :
                  /\ Repaired(m, o)
                  /\ \E p \in ToSet(orders) : o.token = p.token /\ o.side = p.side
  <2> HIDE DEF priced, others
  <2>1. AreOrders(priced) /\ \A o \in ToSet(priced) : o \in ToSet(orders) /\ o \in others
    BY <1>5, KeptAre
  <2>2. AreOrders(priced) /\ \A o \in ToSet(priced) : o \in ToSet(orders) /\ ~(o.token = t /\ o.side = "buy")
    BY <2>1 DEF others
  <2> QED
    BY <1>3, <2>2 DEF priced
<1>6. ASSUME Has(orders, t, {"buy"}), RepairCap(m) # {}, cap > 0
      PROVE  ~(book.ask # NoPrice /\ PostOnlyCap(book) < 0)
  <2>1. PICK o \in ToSet(orders) : o.token = t /\ o.side = "buy"
    BY <1>6, InSet DEF Has
  <2>2. o.price \in Nat /\ OffTheAsk(m, t, o.price)
    BY <2>1 DEF AreOrders, IsOrder
  <2> QED
    BY <1>2, <2>2 DEF OffTheAsk
<1>7. ASSUME RepairCap(m) # {}, cap > 0, top >= min, Has(orders, t, {"buy"}),
             priced = Keep(repriced, high)
      PROVE  /\ AreOrders(priced)
             /\ \A o \in ToSet(priced) :
                  /\ Repaired(m, o)
                  /\ \E p \in ToSet(orders) : o.token = p.token /\ o.side = p.side
  <2>1. cap \in Int /\ \A price \in Nat : 0 < price /\ price <= cap => Pays(m, price)
    <3> HIDE DEF priced, repriced, high, Reprice, Target, top, others
    <3>1. RepairCap(m) # {}
      BY <1>7
    <3> QED
      BY <3>1, RepairCapPays
  <2> HIDE DEF cap
  <2>2. top \in Int /\ (book.ask # NoPrice => top <= PostOnlyCap(book))
    <3> DEFINE limit == IF book.ask # NoPrice THEN Min({cap, PostOnlyCap(book)}) ELSE cap
    <3>1. limit \in Int /\ (book.ask # NoPrice => limit <= PostOnlyCap(book))
      BY <1>2, <2>1, MinTwo
    <3> HIDE DEF limit, book
    <3>2. RoundDown(limit, book.tick) \in Int /\ RoundDown(limit, book.tick) <= limit
      BY <1>2, <3>1, RoundsDown
    <3>3. top = RoundDown(limit, book.tick)
      BY DEF limit
    <3> HIDE DEF top
    <3> QED
      BY <1>2, <3>1, <3>2, <3>3
  <2> HIDE DEF top
  <2>3. \A l \in Nat : Target(l) \in Int
    <3> TAKE l \in Nat
    <3> DEFINE x == l * cfg.ladder_step_ticks * book.tick
               y == Max({0, top - x})
    <3>1. x \in Int
      BY <1>2
    <3> HIDE DEF x
    <3>2. y \in Int
      BY <2>2, <3>1, MaxTwo
    <3>3. Target(l) = RoundDown(y, book.tick)
      BY DEF x
    <3> HIDE DEF y, Target
    <3> QED
      BY <1>2, <3>2, <3>3, RoundsDown
  <2> HIDE DEF Target
  <2>4. \A o \in ToSet(orders) :
          /\ IsOrder(Reprice(o)) /\ Reprice(o).token = o.token /\ Reprice(o).side = o.side
          /\ Reprice(o).price >= min => Repaired(m, Reprice(o))
    <3> TAKE o \in ToSet(orders)
    <3>1. IsOrder(o) /\ o.level \in Nat /\ (o.side = "buy" => o.price \in Nat /\ OffTheAsk(m, o.token, o.price))
      BY DEF AreOrders, IsOrder
    <3>2. CASE o.token # t \/ o.side # "buy"
      <4>1. Reprice(o) = o
        BY <3>2
      <4>2. Repaired(m, o)
        BY <3>1, <3>2 DEF Repaired
      <4> HIDE DEF Reprice
      <4> QED
        BY <3>1, <4>1, <4>2
    <3>3. CASE o.token = t /\ o.side = "buy" /\ Target(o.level) < min
      <4>1. Reprice(o) = [o EXCEPT !.price = 0]
        BY <3>3
      <4> DEFINE p == [o EXCEPT !.price = 0]
      <4>2. IsOrder(p) /\ p.price = 0 /\ p.token = o.token /\ p.side = o.side
        BY <3>1, PriceChanges
      <4> HIDE DEF p, Reprice
      <4> QED
        BY <1>2, <4>1, <4>2 DEF p
    <3>4. CASE o.token = t /\ o.side = "buy" /\ ~(Target(o.level) < min)
      <4> DEFINE up == Max({o.price, Target(o.level)})
                 price == Min({up, top, cap})
                 p == [o EXCEPT !.price = price]
      <4>1. Reprice(o) = p
        BY <3>4
      <4>2. up \in Int /\ up >= Target(o.level) /\ Target(o.level) \in Int
        BY <2>3, <3>1, <3>4, MaxTwo
      <4> HIDE DEF up
      <4>3. price \in {up, top, cap} /\ price \in Int /\ price <= top /\ price <= cap
        BY <2>1, <2>2, <4>2, MinThree
      <4> HIDE DEF price
      <4>4. price \in Nat /\ price > 0
        BY <1>2, <1>7, <2>1, <2>2, <3>4, <4>2, <4>3
      <4>5. IsOrder(p) /\ p.price = price /\ p.token = o.token /\ p.side = o.side
        BY <3>1, <4>4, PriceChanges
      <4>6. Pays(m, price)
        BY <2>1, <4>3, <4>4
      <4>7. OffTheAsk(m, t, price)
        BY <1>2, <2>2, <4>3 DEF OffTheAsk
      <4> HIDE DEF p, Reprice, t
      <4>8. Repaired(m, p)
        BY <3>4, <4>5, <4>6, <4>7 DEF Repaired
      <4> QED
        BY <4>1, <4>5, <4>8
    <3> QED
      BY <3>2, <3>3, <3>4
  <2> HIDE DEF Reprice
  <2>5. orders \in Seq(ToSet(orders))
    BY DEF AreOrders
  <2>6. DOMAIN repriced = DOMAIN orders /\ (\A i \in DOMAIN orders : repriced[i] = Reprice(orders[i]))
        /\ repriced = [i \in DOMAIN orders |-> repriced[i]]
    OBVIOUS
  <2> HIDE DEF repriced, t, book, min
  <2>7. /\ repriced \in Seq(ToSet(repriced))
        /\ \A o \in ToSet(repriced) : \E i \in DOMAIN orders : o = repriced[i] /\ orders[i] \in ToSet(orders)
    BY <2>5, <2>6, MappedAre
  <2>8. \A o \in ToSet(repriced) :
          /\ IsOrder(o) /\ (o.price >= min => Repaired(m, o))
          /\ \E p \in ToSet(orders) : o.token = p.token /\ o.side = p.side
    BY <2>4, <2>6, <2>7
  <2>9. AreOrders(repriced)
    BY <2>7, <2>8 DEF AreOrders
  <2> HIDE DEF high, priced
  <2>10. AreOrders(priced) /\ \A o \in ToSet(priced) : o \in ToSet(repriced) /\ o \in high
    BY <1>7, <2>9, KeptAre
  <2>11. \A o \in ToSet(priced) : o \in ToSet(repriced) /\ o.price >= min
    BY <2>10 DEF high
  <2> QED
    BY <2>8, <2>10, <2>11 DEF priced
<1>8. cap \in Int \/ RepairCap(m) = {}
  BY RepairCapPays
<1>9. RepairCap(m) = {} \/ cap <= 0 \/ cap > 0
  BY <1>8
<1>10. RepairCap(m) # {} /\ cap > 0 => top \in Int
  <2>1. ASSUME RepairCap(m) # {}, cap > 0 PROVE top \in Int
    <3> DEFINE limit == IF book.ask # NoPrice THEN Min({cap, PostOnlyCap(book)}) ELSE cap
    <3>1. limit \in Int
      <4> HIDE DEF cap
      <4> QED
        BY <1>2, <1>8, <2>1, MinTwo
    <3> HIDE DEF limit, book
    <3>2. RoundDown(limit, book.tick) \in Int
      BY <1>2, <3>1, RoundsDown
    <3> QED
      BY <3>2 DEF limit
  <2> QED
    BY <2>1
<1> HIDE DEF priced, repriced, high, top, cap, others, book, t
<1>11. top \in Int => top < min \/ top >= min
  BY <1>2
<1> HIDE DEF min
<1>12. \/ ~Has(orders, t, {"buy"})
       \/ Has(orders, t, {"buy"}) /\ priced = Keep(orders, others)
       \/ /\ Has(orders, t, {"buy"}) /\ RepairCap(m) # {} /\ cap > 0 /\ top >= min
          /\ priced = Keep(repriced, high)
  <2>1. Unpaired(m) # 0
    BY <1>2
  <2>2. CASE RepairCap(m) = {} \/ cap <= 0
    BY <1>1, <2>1, <2>2
  <2>3. CASE ~(RepairCap(m) = {} \/ cap <= 0)
    <3>1. RepairCap(m) # {} /\ cap > 0 /\ (top < min \/ top >= min)
      BY <1>9, <1>10, <1>11, <2>3
    <3> QED
      BY <1>1, <1>6, <2>1, <2>3, <3>1
  <2> QED
    BY <2>2, <2>3
<1> QED
  BY <1>4, <1>5, <1>7, <1>12 DEF priced

(* A tick for the reward is taken off the ask and within the target.       *)
LEMMA ImprovedFits ==
  ASSUME cfg \in Configs, NEW m \in Market, NEW t \in Tokens, m.book[t].tick > 0,
         NEW price \in Nat, NEW other \in Nat, price + other <= TargetTotal(m),
         FloorTo(price, m.book[t].tick) = price, OffTheAsk(m, t, price)
  PROVE  LET improved == TryImprove(m, t, price, other)
         IN  /\ improved \in Nat /\ price <= improved
             /\ improved + other <= TargetTotal(m) /\ OffTheAsk(m, t, improved)
<1> DEFINE book == m.book[t]
           tick == book.tick
           offered == Max({0, PostOnlyCap(book)})
           bounds == {price + tick, CapOf(m, t), Ceiling} \cup
                     (IF book.ask # NoPrice THEN {offered} ELSE {})
           raised == Min(bounds)
           improved == TryImprove(m, t, price, other)
<1>1. /\ tick \in Nat /\ tick > 0 /\ CapOf(m, t) \in Int /\ PostOnlyCap(book) \in Int
      /\ TargetTotal(m) \in Nat /\ Ceiling \in Int
  BY MarketTyped, PriceRange
<1>2. improved = IF raised <= price \/ raised + other > TargetTotal(m)
                 THEN price ELSE FloorTo(raised, tick)
  BY DEF TryImprove
<1>3. offered \in Int /\ offered = IF 0 >= PostOnlyCap(book) THEN 0 ELSE PostOnlyCap(book)
  BY <1>1, MaxTwo
<1>4. book.ask # NoPrice => offered \in bounds
  OBVIOUS
<1>5. bounds \subseteq Int /\ bounds # {}
  BY <1>1, <1>3
<1>6. \E n \in Int : \A y \in bounds : n <= y
  <2> DEFINE some == {price + tick, CapOf(m, t), Ceiling, offered}
             a == price + tick  b == CapOf(m, t)  c == Ceiling
  <2>1. bounds \subseteq some /\ a \in Int /\ b \in Int /\ c \in Int
    BY <1>1
  <2> HIDE DEF a, b, c, bounds, offered
  <2>2. some = {a, b, c, offered}
    BY DEF a, b, c
  <2> HIDE DEF some
  <2>3. \E n \in Int : n <= a /\ n <= b /\ n <= c /\ n <= offered
    <3>1. a \in Int /\ b \in Int /\ c \in Int /\ offered \in Int
      BY <1>3, <2>1
    <3>2. \E n \in Int : n <= a /\ n <= b
      BY <3>1
    <3>3. \E n \in Int : n <= c /\ n <= offered
      BY <3>1
    <3> QED
      BY <3>1, <3>2, <3>3
  <2> QED
    BY <2>1, <2>2, <2>3
<1> HIDE DEF bounds
<1>7. raised \in Int /\ \A y \in bounds : raised <= y
  BY <1>5, <1>6, MinAny
<1>8. raised > price /\ book.ask # NoPrice => raised <= PostOnlyCap(book)
  BY <1>1, <1>3, <1>4, <1>7
<1> HIDE DEF raised, offered, improved, tick
<1>9. CASE improved = price
  BY <1>9 DEF improved
<1>10. CASE raised > price /\ raised + other <= TargetTotal(m) /\ improved = FloorTo(raised, tick)
  <2>1. improved \in Int /\ improved <= raised /\ improved >= 0
    BY <1>1, <1>7, <1>10, Floor
  <2>2. FloorTo(price, tick) <= FloorTo(raised, tick)
    BY <1>1, <1>7, <1>10, FloorGrows
  <2>3. price <= improved
    BY <1>10, <2>2 DEF tick
  <2>4. improved \in Nat /\ improved + other <= TargetTotal(m)
    BY <1>1, <1>7, <1>10, <2>1
  <2>5. OffTheAsk(m, t, improved)
    BY <1>1, <1>7, <1>8, <1>10, <2>1 DEF OffTheAsk
  <2> QED
    BY <2>3, <2>4, <2>5 DEF improved
<1> QED
  BY <1>1, <1>2, <1>7, <1>9, <1>10

(* What rewards leave of orders without a gap: every bid is off the ask,   *)
(* and no more than one of two prices that fit the target.                 *)
Fits(m, b, orders) ==
  /\ AreOrders(orders)
  /\ \A o \in ToSet(orders) :
       o.side = "buy" => o.price <= b[o.token] /\ OffTheAsk(m, o.token, o.price)

(* Before rewards the two prices are those of the quote engine.            *)
LEMMA QuotedFits ==
  ASSUME NEW m, NEW b, NEW orders, Quoted(m, b, orders)
  PROVE  Fits(m, b, orders)
BY DEF Quoted, Fits, Bid

(* The bid of level 0 that rewards look at.                                *)
LEMMA BestIs ==
  ASSUME NEW orders, AreOrders(orders), NEW t, Best(orders, t) # {}
  PROVE  /\ Min(Best(orders, t)) \in DOMAIN orders
         /\ LET o == orders[Min(Best(orders, t))]
            IN  o \in ToSet(orders) /\ o.token = t /\ o.side = "buy" /\ o.level = 0
<1> DEFINE at == Best(orders, t)  i == Min(at)
<1>1. DOMAIN orders = 1..Len(orders) /\ Len(orders) \in Nat
  BY DEF AreOrders
<1>2. at \subseteq Int /\ at # {} /\ \A y \in at : 0 <= y
  BY <1>1 DEF Best
<1> HIDE DEF at
<1>3. i \in at
  <2>1. 0 \in Int /\ \A y \in at : 0 <= y
    BY <1>2
  <2> QED
    BY <1>2, <2>1, MinAny
<1> HIDE DEF i
<1>4. i \in DOMAIN orders /\ orders[i].token = t /\ orders[i].side = "buy" /\ orders[i].level = 0
  BY <1>3 DEF at, Best
<1>5. orders[i] \in ToSet(orders)
  BY <1>4, InSet
<1> QED
  BY <1>4, <1>5 DEF i, at

(* Without rewards, or without bids of both tokens, nothing is raised.     *)
LEMMA NoHints ==
  ASSUME cfg \in Configs, NEW m \in Market, NEW orders, NEW t \in Tokens,
         \/ ~cfg.rewards_enabled
         \/ \A o \in ToSet(orders) : ~(o.token = t /\ o.side = "buy")
  PROVE  RewardHints(m, orders) = orders
<1>1. \A i \in DOMAIN orders : orders[i] \in ToSet(orders)
  BY InSet
<1>2. ~cfg.rewards_enabled \/ Best(orders, t) = {}
  BY <1>1 DEF Best
<1> QED
  BY <1>2 DEF RewardHints, Tokens

(* Price and size together.                                                *)
LEMMA OrderChanges ==
  ASSUME NEW o, IsOrder(o), NEW price \in Nat, NEW size
  PROVE  LET p == [o EXCEPT !.price = price, !.size = size]
         IN  IsOrder(p) /\ p.price = price /\ p.token = o.token /\ p.side = o.side
BY DEF IsOrder

(* Two raises in a row fit the target: the second is judged with the price *)
(* that the first has left.                                                *)
LEMMA HintsFit ==
  ASSUME cfg \in Configs, NEW m \in Market, NEW b, NEW orders, Level0(m, b), Quoted(m, b, orders)
  PROVE  /\ \E c : Level0(m, c) /\ Fits(m, c, RewardHints(m, orders))
         /\ \A o \in ToSet(RewardHints(m, orders)) : o.side = "buy" \/ o \in ToSet(orders)
<1> DEFINE i == Min(Best(orders, "up"))  j == Min(Best(orders, "down"))
           up   == IF m.scoring["up"] = "no" THEN TryImprove(m, "up", orders[i].price, orders[j].price)
                   ELSE orders[i].price
           down == IF m.scoring["down"] = "no" THEN TryImprove(m, "down", orders[j].price, up)
                   ELSE orders[j].price
           Raised(o, price) == [o EXCEPT !.price = price,
                                         !.size = IF m.scoring[o.token] = "no" THEN Max({@, 200}) ELSE @]
           hinted == RewardHints(m, orders)
<1>1. AreOrders(orders) /\ \A o \in ToSet(orders) : Ticks(m) /\ Bid(m, b, o) /\ IsOrder(o)
  BY DEF Quoted, AreOrders
<1>2. CASE hinted = orders
  <2> HIDE DEF hinted
  <2>1. Fits(m, b, hinted)
    BY <1>2, QuotedFits
  <2> QED
    BY <1>2, <2>1 DEF hinted
<1>3. ASSUME Best(orders, "up") # {}, Best(orders, "down") # {},
             hinted = [orders EXCEPT ![i] = Raised(orders[i], up), ![j] = Raised(orders[j], down)]
      PROVE  /\ \E c : Level0(m, c) /\ Fits(m, c, hinted)
             /\ \A o \in ToSet(hinted) : o.side = "buy" \/ o \in ToSet(orders)
  <2>1. /\ i \in DOMAIN orders /\ orders[i] \in ToSet(orders) /\ orders[i].token = "up"
        /\ orders[i].side = "buy" /\ orders[i].level = 0
        /\ j \in DOMAIN orders /\ orders[j] \in ToSet(orders) /\ orders[j].token = "down"
        /\ orders[j].side = "buy" /\ orders[j].level = 0
    BY <1>1, <1>3, BestIs
  <2> HIDE DEF i, j
  <2>2. i # j
    BY <2>1
  <2>3. /\ b["up"] \in Nat /\ b["down"] \in Nat /\ b["up"] + b["down"] <= TargetTotal(m)
        /\ TargetTotal(m) \in Nat
    BY MarketTyped DEF Level0, Tokens
  <2>4. /\ orders[i].price = b["up"] /\ OffTheAsk(m, "up", b["up"])
        /\ FloorTo(b["up"], m.book["up"].tick) = b["up"]
        /\ orders[j].price = b["down"] /\ OffTheAsk(m, "down", b["down"])
        /\ FloorTo(b["down"], m.book["down"].tick) = b["down"]
    <3>1. Bid(m, b, orders[i]) /\ Bid(m, b, orders[j])
      BY <1>1, <2>1
    <3> QED
      BY <2>1, <3>1 DEF Bid
  <2>5. m.book["up"].tick > 0 /\ m.book["down"].tick > 0 /\ "up" \in Tokens /\ "down" \in Tokens
    BY <1>1, <2>1 DEF Ticks, Tokens
  <2>6. up \in Nat /\ b["up"] <= up /\ up + b["down"] <= TargetTotal(m) /\ OffTheAsk(m, "up", up)
    <3>1. LET improved == TryImprove(m, "up", b["up"], b["down"])
          IN  /\ improved \in Nat /\ b["up"] <= improved
              /\ improved + b["down"] <= TargetTotal(m) /\ OffTheAsk(m, "up", improved)
      BY <2>3, <2>4, <2>5, ImprovedFits
    <3> QED
      BY <2>3, <2>4, <3>1
  <2> HIDE DEF up
  <2>7. down \in Nat /\ b["down"] <= down /\ up + down <= TargetTotal(m)
        /\ OffTheAsk(m, "down", down)
    <3>0. b["down"] + up <= TargetTotal(m)
      BY <2>3, <2>6
    <3>1. LET improved == TryImprove(m, "down", b["down"], up)
          IN  /\ improved \in Nat /\ b["down"] <= improved
              /\ improved + up <= TargetTotal(m) /\ OffTheAsk(m, "down", improved)
      BY <2>3, <2>4, <2>5, <2>6, <3>0, ImprovedFits
    <3> DEFINE improved == TryImprove(m, "down", b["down"], up)
    <3>2. down = improved \/ down = b["down"]
      BY <2>4
    <3> HIDE DEF improved, down
    <3> QED
      BY <2>3, <2>4, <2>6, <3>0, <3>1, <3>2 DEF improved
  <2> HIDE DEF down
  <2> DEFINE p == Raised(orders[i], up)  q == Raised(orders[j], down)
  <2>8. /\ IsOrder(p) /\ p.price = up /\ p.token = "up" /\ p.side = "buy"
        /\ IsOrder(q) /\ q.price = down /\ q.token = "down" /\ q.side = "buy"
    <3>1. IsOrder(orders[i]) /\ IsOrder(orders[j])
      BY <1>1, <2>1
    <3>2. \A o, price : IsOrder(o) /\ price \in Nat =>
            IsOrder(Raised(o, price)) /\ Raised(o, price).price = price
            /\ Raised(o, price).token = o.token /\ Raised(o, price).side = o.side
      <4> SUFFICES ASSUME NEW o, NEW price, IsOrder(o), price \in Nat
                   PROVE  IsOrder(Raised(o, price)) /\ Raised(o, price).price = price
                          /\ Raised(o, price).token = o.token /\ Raised(o, price).side = o.side
        OBVIOUS
      <4> DEFINE size == IF m.scoring[o.token] = "no" THEN Max({o.size, 200}) ELSE o.size
                 r == [o EXCEPT !.price = price, !.size = size]
      <4>1. Raised(o, price) = r
        OBVIOUS
      <4> HIDE DEF size, Raised
      <4>2. IsOrder(r) /\ r.price = price /\ r.token = o.token /\ r.side = o.side
        BY DEF IsOrder
      <4> QED
        BY <4>1, <4>2
    <3> HIDE DEF Raised
    <3> QED
      BY <2>1, <2>6, <2>7, <3>1, <3>2
  <2>9. hinted = [orders EXCEPT ![i] = p, ![j] = q]
    BY <1>3
  <2>10. /\ DOMAIN hinted = DOMAIN orders /\ hinted = [k \in DOMAIN orders |-> hinted[k]]
         /\ \A k \in DOMAIN orders : hinted[k] = IF k = j THEN q ELSE IF k = i THEN p ELSE orders[k]
    <3> HIDE DEF p, q, hinted
    <3> QED
      BY <2>1, <2>2, <2>9
  <2> HIDE DEF p, q, hinted
  <2>11. /\ hinted \in Seq(ToSet(hinted))
         /\ \A o \in ToSet(hinted) : \E k \in DOMAIN orders : o = hinted[k] /\ orders[k] \in ToSet(orders)
    <3>1. orders \in Seq(ToSet(orders))
      BY <1>1 DEF AreOrders
    <3> QED
      BY <2>10, <3>1, MappedAre
  <2>12. \A o \in ToSet(hinted) : o = q \/ o = p \/ o \in ToSet(orders)
    BY <2>10, <2>11
  <2> DEFINE c == [t \in Tokens |-> IF t = "up" THEN up ELSE down]
  <2>13. c["up"] = up /\ c["down"] = down /\ \A t \in Tokens : t = "up" \/ t = "down"
    BY DEF Tokens
  <2>14. Level0(m, c)
    <3>1. c \in [Tokens -> Nat]
      BY <2>6, <2>7
    <3> HIDE DEF c
    <3> QED
      BY <2>7, <2>13, <3>1 DEF Level0
  <2> HIDE DEF c
  <2>15. ASSUME NEW o \in ToSet(hinted)
         PROVE  /\ IsOrder(o)
                /\ o.side = "buy" => o.price <= c[o.token] /\ OffTheAsk(m, o.token, o.price)
    <3>1. CASE o = p
      BY <2>6, <2>8, <2>13, <3>1
    <3>2. CASE o = q
      BY <2>7, <2>8, <2>13, <3>2
    <3>3. CASE o \in ToSet(orders)
      <4>1. IsOrder(o) /\ Bid(m, b, o)
        BY <1>1, <3>3
      <4>2. o.side = "buy" => o.price \in Nat /\ o.price <= b[o.token]
            /\ OffTheAsk(m, o.token, o.price)
        BY <4>1 DEF IsOrder, Bid
      <4>3. o.token \in Tokens
        BY <4>1 DEF IsOrder
      <4>4. b[o.token] <= c[o.token] /\ b[o.token] \in Nat /\ c[o.token] \in Nat
        BY <2>3, <2>6, <2>7, <2>13, <4>3
      <4> QED
        BY <4>1, <4>2, <4>4
    <3> QED
      BY <2>12, <3>1, <3>2, <3>3
  <2>16. Fits(m, c, hinted)
    BY <2>11, <2>15 DEF Fits, AreOrders
  <2> QED
    BY <2>8, <2>12, <2>14, <2>16
<1>4. \/ hinted = orders
      \/ /\ Best(orders, "up") # {} /\ Best(orders, "down") # {}
         /\ hinted = [orders EXCEPT ![i] = Raised(orders[i], up), ![j] = Raised(orders[j], down)]
  <2>1. Hinted(m, orders) = [orders EXCEPT ![i] = Raised(orders[i], up), ![j] = Raised(orders[j], down)]
    BY DEF Hinted
  <2>2. \/ hinted = orders
        \/ Best(orders, "up") # {} /\ Best(orders, "down") # {} /\ hinted = Hinted(m, orders)
    BY DEF RewardHints
  <2> HIDE DEF i, j, up, down, Raised, hinted
  <2> QED
    BY <2>1, <2>2
<1> HIDE DEF i, j, up, down, Raised
<1> QED
  BY <1>2, <1>3, <1>4 DEF hinted

(* What swap_remove leaves was there before.                               *)
LEMMA RemovedAre ==
  ASSUME NEW S, NEW s \in Seq(S), s # <<>>, NEW i
  PROVE  SwapRemove(s, i) \in Seq(S)
<1> DEFINE n == Len(s) - 1
           front == Front(s)
<1>1. n \in Nat /\ n + 1 = Len(s) /\ \A k \in 1..(n + 1) : s[k] \in S
  OBVIOUS
<1>2. front = [k \in 1..n |-> s[k]]
  <2>1. front = SubSeq(s, 1, n)
    BY DEF Front
  <2>2. SubSeq(s, 1, n) = [k \in 1..n |-> s[k]]
    BY <1>1
  <2> QED
    BY <2>1, <2>2
<1>3. Last(s) \in S
  BY <1>1 DEF Last
<1> HIDE DEF front, n
<1>4. front \in Seq(S)
  BY <1>1, <1>2
<1>5. [front EXCEPT ![i] = Last(s)] \in Seq(S)
  <2> DEFINE g == [k \in 1..n |-> IF k = i THEN Last(s) ELSE s[k]]
  <2>1. [front EXCEPT ![i] = Last(s)] = g
    BY <1>2
  <2>2. g \in [1..n -> S]
    BY <1>1, <1>3
  <2> HIDE DEF g
  <2>3. g \in Seq(S)
    BY <1>1, <2>2
  <2> QED
    BY <2>1, <2>3
<1> QED
  BY <1>4, <1>5 DEF SwapRemove, front

(* The budget only takes orders away.                                      *)
LEMMA BudgetTakes ==
  ASSUME NEW m, NEW orders, orders \in Seq(ToSet(orders))
  PROVE  /\ MarketBudget(m, orders) \in Seq(ToSet(MarketBudget(m, orders)))
         /\ ToSet(MarketBudget(m, orders)) \subseteq ToSet(orders)
<1> DEFINE left == cfg.max_usdc_exposure - Cost(m)
           S == ToSet(orders)
           SE == Seq(S)
           rest == MarketBudget(m, orders)
<1>1. rest = IF left <= 0 THEN <<>> ELSE Prunes!Fold(left, orders, orders)
  BY DEF MarketBudget, Prunes!Fold, FoldLeft, MapThenFoldSet, Max, Prunes!FoldLeft,
         Prunes!MapThenFoldSet, Prunes!Max, PruneOp
<1>2. Len(orders) \in Nat /\ DOMAIN orders = 1..Len(orders)
  OBVIOUS
<1>3. \A r \in SE, i \in 1..Len(orders) : PruneOp(left, r, orders[i]) \in SE
  BY RemovedAre DEF PruneOp
<1>4. <<>> \in SE /\ orders \in SE
  OBVIOUS
<1> HIDE DEF SE, left
<1>5. Prunes!Fold(left, orders, orders) \in SE
  BY <1>2, <1>3, <1>4, Prunes!FoldStaysIn
<1> HIDE DEF rest
<1>6. rest \in SE
  BY <1>1, <1>4, <1>5
<1>7. rest \in Seq(S)
  BY <1>6 DEF SE
<1> HIDE DEF S
<1>8. rest \in Seq(ToSet(rest)) /\ ToSet(rest) \subseteq S
  BY <1>7, SeqOfItself
<1> QED
  BY <1>8 DEF rest, S

(* Has, over the set of the orders.                                        *)
LEMMA HasIs ==
  ASSUME NEW orders, NEW t, NEW side
  PROVE  Has(orders, t, side) <=> \E o \in ToSet(orders) : o.token = t /\ o.side \in side
BY InSet DEF Has

(* What the safety net lets through.                                       *)
LEMMA SafetyNet ==
  ASSUME cfg \in Configs, NEW m \in Market, NEW orders, AreOrders(orders)
  PROVE  LET safe == FinalSafety(m, orders)
         IN  /\ AreOrders(safe) /\ ToSet(safe) \subseteq ToSet(orders)
             /\ Unpaired(m) = 0 => ~OneSided(safe, Sides)
             /\ Unpaired(m) > 0 => \A o \in ToSet(safe) : o.token = Missing(m)
<1> DEFINE kept == {o \in ToSet(orders) : o.size > 0 /\ o.price >= cfg.min_quote_price}
           valid == Keep(orders, kept)
           other == {o \in ToSet(valid) : o.token # Excess(m)}
           safe == FinalSafety(m, orders)
<1>1. safe = IF Unpaired(m) = 0 THEN WhenPaired(m, valid, Sides) ELSE Keep(valid, other)
  BY DEF FinalSafety
<1>2. Unpaired(m) \in Nat
  BY MarketTyped DEF Tokens
<1> HIDE DEF kept
<1>3. AreOrders(valid) /\ \A o \in ToSet(valid) : o \in ToSet(orders)
  BY KeptAre
<1> HIDE DEF valid
<1>4. CASE Unpaired(m) = 0
  <2>1. safe = IF OneSided(valid, Sides) THEN <<>> ELSE valid
    BY <1>1, <1>4 DEF WhenPaired
  <2> HIDE DEF safe
  <2>2. CASE ~OneSided(valid, Sides)
    BY <1>3, <1>4, <2>1, <2>2 DEF safe
  <2>3. CASE OneSided(valid, Sides)
    <3>1. safe = <<>>
      BY <2>1, <2>3
    <3>2. AreOrders(safe) /\ ToSet(safe) = {}
      BY <3>1, EmptyList DEF AreOrders
    <3>3. ~OneSided(safe, Sides)
      BY <3>2, HasIs DEF OneSided
    <3> QED
      BY <1>4, <3>2, <3>3 DEF safe
  <2> QED
    BY <2>2, <2>3
<1>5. CASE Unpaired(m) > 0
  <2>1. safe = Keep(valid, other)
    BY <1>1, <1>5
  <2> HIDE DEF safe, other
  <2>2. AreOrders(safe) /\ \A o \in ToSet(safe) : o \in ToSet(valid) /\ o \in other
    BY <1>3, <2>1, KeptAre
  <2>3. \A o \in ToSet(safe) : o.token \in Tokens /\ o.token # Excess(m)
    BY <2>2 DEF other, AreOrders, IsOrder
  <2>4. \A o \in ToSet(safe) : o.token = Missing(m)
    BY <2>3 DEF Excess, Other, Missing, Tokens
  <2> QED
    BY <1>3, <1>5, <2>2, <2>4 DEF safe
<1> QED
  BY <1>2, <1>4, <1>5

(* A completion that buys loses no more than it may.                       *)
LossBounded(m, take) ==
  take.side = "buy" =>
    (take.p_max + FeePerShare(take.p_max) + m.inv[Excess(m)].cost - One) * take.shares
      <= Max({cfg.max_loss, -cfg.min_profit * take.shares})

(* A share costs an integer.                                               *)
LEMMA CostIsInt ==
  ASSUME NEW p \in Thousandths
  PROVE  p + FeePerShare(p) \in Int
<1>1. p <= p
  BY DEF Thousandths
<1>2. CostsUpTo(p, p)
  BY <1>1, CostGrows
<1> QED
  BY <1>2 DEF CostsUpTo

(* The completion that is taken keeps its loss within max_loss, or its profit. *)
LEMMA TakersPay ==
  ASSUME cfg \in Configs, NEW m \in Market, NEW take \in TakerCompletion(m)
  PROVE  Unpaired(m) > 0 /\ LossBounded(m, take)
<1>1. Unpaired(m) \in Nat
  BY MarketTyped DEF Tokens
<1>2. Unpaired(m) > 0 /\ (take \in SellCompletion(m) \/ take \in BuyCompletion(m))
  BY <1>1 DEF TakerCompletion
<1>3. CASE take \in SellCompletion(m)
  <2>1. take.side = "sell"
    BY <1>3 DEF SellCompletion, Action
  <2> QED
    BY <1>2, <2>1 DEF LossBounded
<1>4. CASE take \in BuyCompletion(m)
  <2>1. \E p \in RepairCap(m) : p > 0 /\ take = Action(Missing(m), "buy", p, m)
    BY <1>4 DEF BuyCompletion, RepairCap
  <2>2. PICK p \in RepairCap(m) : p > 0 /\ take = Action(Missing(m), "buy", p, m)
    BY <2>1
  <2>3. p = Max(RepairCap(m)) /\ p \in Int /\ p <= 1000
    BY <1>2, <2>2, RepairCapPays
  <2>4. p \in Nat /\ Pays(m, p)
    <3>1. p \in Nat /\ 0 < p /\ p <= Max(RepairCap(m))
      BY <2>2, <2>3
    <3> QED
      BY <1>2, <2>2, <3>1, RepairCapPays
  <2>5. take.p_max = p /\ take.shares = Unpaired(m)
    BY <2>2 DEF Action
  <2> DEFINE u == Unpaired(m)
             cost == m.inv[Excess(m)].cost
             loss == p + FeePerShare(p) + cost - One
             profit == MinProfit(m)
  <2>6. p + FeePerShare(p) \in Int
    <3>1. p \in Thousandths
      BY <2>3, <2>4 DEF Thousandths
    <3> QED
      BY <3>1, CostIsInt
  <2>7. loss \in Int
    <3>1. cost \in Int /\ One \in Int
      BY MarketTyped DEF Tokens, One
    <3> HIDE DEF cost
    <3> QED
      BY <2>6, <3>1
  <2>8. loss <= -profit
    BY <2>4 DEF Pays
  <2>9. /\ profit \in Int
        /\ profit = cfg.min_profit \/ (-profit) * u <= cfg.max_loss
    BY <1>2, MinProfitIs
  <2>10. cfg.max_loss \in Int /\ cfg.min_profit \in Int
    BY ConfigTyped
  <2>11. LossBounded(m, take) <=> loss * u <= Max({cfg.max_loss, -cfg.min_profit * u})
    BY <2>2, <2>5 DEF LossBounded, Action
  <2> HIDE DEF loss, profit, u
  <2>12. u \in Nat
    BY <1>1 DEF u
  <2>13. loss * u <= (-profit) * u
    BY <2>7, <2>8, <2>9, <2>12
  <2> DEFINE other == -cfg.min_profit * u
             most == Max({cfg.max_loss, other})
             x == loss * u
             y == (-profit) * u
  <2>14. x \in Int /\ y \in Int /\ other \in Int
    BY <2>7, <2>9, <2>10, <2>12
  <2>15. y = other \/ y <= cfg.max_loss
    <3>1. CASE profit = cfg.min_profit
      BY <2>10, <2>12, <3>1
    <3>2. CASE (-profit) * u <= cfg.max_loss
      BY <3>2
    <3> QED
      BY <2>9, <3>1, <3>2
  <2>16. x <= y
    BY <2>13
  <2> HIDE DEF other, x, y
  <2>17. most \in Int /\ other <= most /\ cfg.max_loss <= most
    BY <2>10, <2>14, MaxTwo
  <2> HIDE DEF most
  <2>18. x <= most
    BY <2>10, <2>14, <2>15, <2>16, <2>17
  <2> QED
    BY <1>2, <2>11, <2>18 DEF x, most, other
<1> QED
  BY <1>2, <1>3, <1>4

(* What is known of the command of a pass, and of the bids it was made of. *)
Safe(m, b, orders, c) ==
  /\ \A o \in ToSet(c.orders) : o.side = "buy" => OffTheAsk(m, o.token, o.price)
  /\ Unpaired(m) = 0 =>
       /\ \A o \in ToSet(c.orders) :
            /\ o.side = "buy" /\ o.token \in Tokens
            /\ o.price \in Nat /\ o.price <= b[o.token]
       /\ ~OneSided(c.orders, Sides)
       /\ ~cfg.rewards_enabled => ToSet(c.orders) \subseteq ToSet(orders)
  /\ Unpaired(m) > 0 =>
       /\ \A o \in ToSet(c.orders) :
            o.token = Missing(m) /\ (o.side = "buy" => Pays(m, o.price))
       /\ \A take \in c.taker : LossBounded(m, take)

(* A command without orders is safe if its completion is.                  *)
LEMMA NoOrders ==
  ASSUME cfg \in Configs, NEW m \in Market, NEW b, NEW orders, NEW c, c.orders = <<>>,
         \A take \in c.taker : LossBounded(m, take)
  PROVE  Safe(m, b, orders, c)
<1>1. ToSet(c.orders) = {}
  BY EmptyList
<1>2. ~OneSided(c.orders, Sides)
  BY <1>1, HasIs DEF OneSided
<1> QED
  BY <1>1, <1>2 DEF Safe

(* A pass over bids that fit and are off the ask decides on a safe command: *)
(* the induction of the claims over the steps of the strategy engine.      *)
LEMMA DecidedSafe ==
  ASSUME cfg \in Configs, NEW m \in Market, NEW b, NEW orders,
         Level0(m, b), Quoted(m, b, orders),
         \A o \in ToSet(orders) : o.side = "sell" => Unpaired(m) > 0
  PROVE  \E c : Level0(m, c) /\ Safe(m, c, orders, Decide(m, orders))
<1> DEFINE left == Max({0, cfg.max_usdc_exposure - Cost(m)})
           adjusted == AdjustForInventory(m, orders)
           priced == RepairPricing(m, adjusted)
           hinted == RewardHints(m, priced)
           budgeted == MarketBudget(m, hinted)
           safe == FinalSafety(m, budgeted)
           taken == {take \in TakerCompletion(m) : CompletionCost(take) <= left}
           decided == Decide(m, orders)
<1>1. decided = IF taken # {} THEN Complete(CHOOSE take \in taken : TRUE)
                ELSE IF left = 0 THEN Stop ELSE Quote(safe)
  BY DEF Decide
<1>2. CASE taken # {}
  <2>1. PICK take \in taken : decided = Complete(take)
    BY <1>1, <1>2
  <2>2. LossBounded(m, take)
    BY <2>1, TakersPay
  <2> HIDE DEF decided, taken
  <2>3. decided.orders = <<>> /\ decided.taker = {take}
    BY <2>1 DEF Complete
  <2>4. Safe(m, b, orders, decided)
    BY <2>2, <2>3, NoOrders
  <2> QED
    BY <2>4 DEF decided
<1>3. CASE taken = {} /\ left = 0
  <2>1. decided = Stop
    BY <1>1, <1>3
  <2> HIDE DEF decided
  <2>2. decided.orders = <<>> /\ decided.taker = {}
    BY <2>1 DEF Stop
  <2>3. Safe(m, b, orders, decided)
    BY <2>2, NoOrders
  <2> QED
    BY <2>3 DEF decided
<1>4. CASE taken = {} /\ left # 0
  <2>1. decided = Quote(safe)
    BY <1>1, <1>4
  <2>2. decided.orders = safe /\ decided.taker = {}
    <3> HIDE DEF decided, safe
    <3> QED
      BY <2>1 DEF Quote
  <2>3. Unpaired(m) \in Nat /\ Missing(m) \in Tokens /\ Excess(m) \in Tokens
        /\ Excess(m) # Missing(m)
    BY MarketTyped DEF Tokens
  <2>4. AreOrders(orders) /\ \A o \in ToSet(orders) : Ticks(m) /\ Bid(m, b, o) /\ IsOrder(o)
    BY DEF Quoted, AreOrders
  <2>5. ASSUME AreOrders(hinted)
        PROVE  /\ AreOrders(safe) /\ ToSet(safe) \subseteq ToSet(hinted)
               /\ Unpaired(m) = 0 => ~OneSided(safe, Sides)
               /\ Unpaired(m) > 0 => \A o \in ToSet(safe) : o.token = Missing(m)
    <3> HIDE DEF hinted
    <3>1. /\ budgeted \in Seq(ToSet(budgeted))
          /\ ToSet(budgeted) \subseteq ToSet(hinted)
      BY <2>5, BudgetTakes DEF AreOrders
    <3> HIDE DEF budgeted
    <3>2. AreOrders(budgeted)
      BY <2>5, <3>1 DEF AreOrders
    <3>3. /\ AreOrders(safe) /\ ToSet(safe) \subseteq ToSet(budgeted)
          /\ Unpaired(m) = 0 => ~OneSided(safe, Sides)
          /\ Unpaired(m) > 0 => \A o \in ToSet(safe) : o.token = Missing(m)
      BY <3>2, SafetyNet
    <3> QED
      BY <3>1, <3>3 DEF hinted, budgeted
  <2>6. CASE Unpaired(m) = 0
    <3>1. priced = adjusted /\ (adjusted = orders \/ adjusted = <<>>)
      BY <2>4, <2>6, AdjustedAre DEF RepairPricing
    <3> HIDE DEF adjusted, priced
    <3>2. Quoted(m, b, priced) /\ ToSet(priced) \subseteq ToSet(orders)
      BY <3>1, NothingQuoted, EmptyList
    <3>3. PICK c : Level0(m, c) /\ Fits(m, c, hinted)
      BY <3>2, HintsFit
    <3>4. \A o \in ToSet(hinted) : o.side = "buy" \/ o \in ToSet(priced)
      BY <3>2, HintsFit
    <3>5. ~cfg.rewards_enabled => hinted = priced
      BY <2>3, NoHints
    <3> HIDE DEF hinted
    <3>6. /\ AreOrders(safe) /\ ToSet(safe) \subseteq ToSet(hinted) /\ ~OneSided(safe, Sides)
          /\ AreOrders(hinted)
      BY <2>5, <2>6, <3>3 DEF Fits
    <3> HIDE DEF safe
    <3>7. ASSUME NEW o \in ToSet(safe)
          PROVE  /\ o.side = "buy" /\ o.token \in Tokens /\ o.price \in Nat
                 /\ o.price <= c[o.token] /\ OffTheAsk(m, o.token, o.price)
      <4>1. IsOrder(o) /\ o \in ToSet(hinted)
        BY <3>6 DEF AreOrders
      <4>2. o.side = "buy"
        <5>1. o.side = "sell" => o \in ToSet(orders)
          BY <3>2, <3>4, <4>1
        <5> QED
          BY <2>3, <2>6, <4>1, <5>1 DEF IsOrder, Sides
      <4>3. o.price <= c[o.token] /\ OffTheAsk(m, o.token, o.price)
        BY <3>3, <4>1, <4>2 DEF Fits
      <4> QED
        BY <4>1, <4>2, <4>3 DEF IsOrder
    <3>8. ~cfg.rewards_enabled => ToSet(safe) \subseteq ToSet(orders)
      BY <3>2, <3>5, <3>6
    <3> HIDE DEF decided
    <3>9. Safe(m, c, orders, decided)
      BY <2>2, <2>6, <3>6, <3>7, <3>8 DEF Safe
    <3> QED
      BY <3>3, <3>9 DEF decided
  <2>7. CASE Unpaired(m) > 0
    <3>1. /\ AreOrders(adjusted)
          /\ \A o \in ToSet(adjusted) : ~(o.token = Excess(m) /\ o.side = "buy")
          /\ \A o \in ToSet(adjusted) : \E p \in ToSet(orders) : SameQuote(o, p)
      BY <2>4, <2>7, AdjustedAre
    <3> HIDE DEF adjusted
    <3>2. \A o \in ToSet(adjusted) : o.side = "buy" => Ticks(m) /\ OffTheAsk(m, o.token, o.price)
      <4> TAKE o \in ToSet(adjusted)
      <4>1. PICK p \in ToSet(orders) : SameQuote(o, p)
        BY <3>1
      <4>2. Ticks(m) /\ Bid(m, b, p)
        BY <2>4
      <4> QED
        BY <4>1, <4>2 DEF SameQuote, Bid
    <3>3. /\ AreOrders(priced)
          /\ \A o \in ToSet(priced) : Repaired(m, o)
          /\ \A o \in ToSet(priced) : \E p \in ToSet(adjusted) : o.token = p.token /\ o.side = p.side
      BY <2>7, <3>1, <3>2, RepairedAre
    <3> HIDE DEF priced
    <3>4. \A o \in ToSet(priced) : ~(o.token = Excess(m) /\ o.side = "buy")
      BY <3>1, <3>3
    <3>5. hinted = priced
      BY <2>3, <3>4, NoHints
    <3> HIDE DEF hinted
    <3>6. /\ ToSet(safe) \subseteq ToSet(priced)
          /\ \A o \in ToSet(safe) : o.token = Missing(m)
      BY <2>5, <2>7, <3>3, <3>5
    <3> HIDE DEF safe, decided
    <3>7. Safe(m, b, orders, decided)
      <4>1. \A o \in ToSet(safe) : Repaired(m, o) /\ o.token = Missing(m)
        BY <3>3, <3>6
      <4> QED
        BY <2>2, <2>3, <2>7, <4>1 DEF Safe, Repaired
    <3> QED
      BY <3>7 DEF decided
  <2> QED
    BY <2>3, <2>6, <2>7
<1> QED
  BY <1>2, <1>3, <1>4

(* The state between two passes.                                           *)
QuotingTyped ==
  /\ cfg \in Configs /\ market \in Market
  /\ now \in Nat /\ now > 0
  /\ limiter \in [Tokens -> Entry]
  /\ \A t \in Tokens : limiter[t].ts > 0 => limiter[t].seen

(* What the claims come from: the last command is sound for its market.    *)
CommandSafe ==
  \/ command = Stop
  \/ \E b, orders : Level0(market, b) /\ Safe(market, b, orders, command)

(* A market whose book has changed is a market.                            *)
LEMMA OtherBook ==
  ASSUME NEW m \in Market, NEW t \in Tokens, NEW book \in Books
  PROVE  [m EXCEPT !.book[t] = book] \in Market
<1>1. book \in BookTop
  BY QuotingAssumption
<1> QED
  BY <1>1 DEF Market

(* The limiter remembers the bids of the last pass.                        *)
ClimbKept ==
  Unpaired(market) = 0 /\ ~cfg.rewards_enabled /\ Steady(market) =>
    \A o \in ToSet(command.orders) :
      o.side = "buy" => Remembered(market, now, limiter[o.token], o)

(* A pass over a market leaves a typed state and a sound command, and bids *)
(* that the limiter has let climb and remembers.                           *)
LEMMA PassSafe ==
  ASSUME QuotingTyped, NEW m \in Market, NEW time \in Nat, time > 0, Pass(m, time)
  PROVE  /\ QuotingTyped' /\ CommandSafe' /\ ClimbKept'
         /\ Unpaired(m) = 0 /\ ~cfg.rewards_enabled =>
              \A o \in ToSet(command'.orders) :
                o.side = "buy" => Slow(m, o.token, time, limiter[o.token], o.price)
<1> DEFINE built == BuildDesired(m, time, limiter)
<1>1. cfg \in Configs /\ limiter \in [Tokens -> Entry] /\ cfg' = cfg /\ market' = m /\ now' = time
  BY DEF QuotingTyped, Pass
<1>2. CASE ~m.quoting_enabled
  <2>1. command' = Stop /\ limiter' = limiter
    BY <1>2 DEF Pass
  <2>2. ToSet(command'.orders) = {}
    BY <2>1, EmptyList DEF Stop
  <2>3. QuotingTyped'
    BY <1>1, <2>1 DEF QuotingTyped
  <2> QED
    BY <2>1, <2>2, <2>3 DEF CommandSafe, ClimbKept
<1>3. CASE m.quoting_enabled
  <2>1. command' = Decide(m, built.orders) /\ limiter' = built.limiter
    BY <1>3 DEF Pass
  <2>2. /\ built.limiter \in [Tokens -> Entry]
        /\ \A t \in Tokens : \/ built.limiter[t] = limiter[t]
                             \/ built.limiter[t].seen /\ built.limiter[t].ts = time
        /\ \E b : Level0(m, b) /\ Quoted(m, b, built.orders)
        /\ \A o \in ToSet(built.orders) :
             /\ o.side = "buy" => Slow(m, o.token, time, limiter[o.token], o.price)
             /\ o.side = "sell" => Unpaired(m) > 0
             /\ Steady(m) /\ o.side = "buy" => Remembered(m, time, built.limiter[o.token], o)
    BY <1>1, BuiltSafe
  <2> HIDE DEF built
  <2>3. QuotingTyped'
    BY <1>1, <2>1, <2>2 DEF QuotingTyped
  <2>4. PICK b, orders :
          orders = built.orders /\ Level0(m, b) /\ Safe(m, b, orders, command')
    BY <1>1, <2>1, <2>2, DecidedSafe
  <2>5. (\E c, some : Level0(market, c) /\ Safe(market, c, some, command))'
    <3>1. Level0(market, b)' <=> Level0(m, b)
      BY <1>1 DEF Level0, TargetTotal
    <3>2. Safe(market, b, orders, command)' <=> Safe(m, b, orders, command')
      <4>1. (\A o \in ToSet(command.orders) : o.side = "buy" => OffTheAsk(market, o.token, o.price))'
              <=> \A o \in ToSet(command'.orders) : o.side = "buy" => OffTheAsk(m, o.token, o.price)
        BY <1>1 DEF OffTheAsk, PostOnlyCap
      <4>2. MinProfit(market)' = MinProfit(m)
        BY <1>1 DEF MinProfit, Emergency, HardCap
      <4>3. (\A o \in ToSet(command.orders) :
               o.token = Missing(market) /\ (o.side = "buy" => Pays(market, o.price)))'
              <=> \A o \in ToSet(command'.orders) : o.token = Missing(m) /\ (o.side = "buy" => Pays(m, o.price))
        BY <1>1, <4>2 DEF Pays
      <4>4. (\A take \in command.taker : LossBounded(market, take))'
              <=> \A take \in command'.taker : LossBounded(m, take)
        BY <1>1 DEF LossBounded
      <4> QED
        BY <1>1, <4>1, <4>3, <4>4 DEF Safe
    <3> QED
      BY <2>4, <3>1, <3>2
  <2>6. Unpaired(m) = 0 /\ ~cfg.rewards_enabled => ToSet(command'.orders) \subseteq ToSet(built.orders)
    BY <2>4 DEF Safe
  <2>7. ClimbKept'
    <3>1. (Unpaired(market) = 0 /\ ~cfg.rewards_enabled /\ Steady(market))'
            => Unpaired(m) = 0 /\ ~cfg.rewards_enabled /\ Steady(m)
      BY <1>1 DEF Steady, CapOf, TargetTotal
    <3>2. ASSUME Unpaired(m) = 0, ~cfg.rewards_enabled, Steady(m),
                 NEW o \in ToSet(command'.orders), o.side = "buy"
          PROVE  Remembered(m, time, limiter'[o.token], o)
      BY <2>1, <2>2, <2>6, <3>2
    <3>3. \A o : Remembered(market, now, limiter[o.token], o)'
                  <=> Remembered(m, time, limiter'[o.token], o)
      BY <1>1 DEF Remembered
    <3> QED
      BY <3>1, <3>2, <3>3 DEF ClimbKept
  <2> QED
    BY <2>2, <2>3, <2>5, <2>6, <2>7 DEF CommandSafe
<1> QED
  BY <1>2, <1>3

(* A step is a pass over the market it leaves.                             *)
LEMMA PassTaken ==
  ASSUME QuotingTyped, QuotingNext
  PROVE  Pass(market', now') /\ market' \in Market /\ now' \in Nat /\ now' > 0
<1>1. CASE FirstTick
  <2>1. Pass(market, now) /\ market' = market /\ now' = now
    BY <1>1 DEF FirstTick, Pass
  <2> QED
    BY <2>1 DEF QuotingTyped
<1>2. CASE NextTick
  <2>1. PICK t \in Tokens, book \in Books, delay \in Delays :
          Pass([market EXCEPT !.book[t] = book], now + delay)
    BY <1>2 DEF NextTick
  <2> DEFINE m == [market EXCEPT !.book[t] = book]
             time == now + delay
  <2>2. m \in Market
    BY OtherBook DEF QuotingTyped
  <2>3. delay \in Nat /\ now \in Nat /\ now > 0
    BY QuotingAssumption DEF QuotingTyped
  <2>4. time \in Nat /\ time > 0
    BY <2>3
  <2> HIDE DEF m, time
  <2>5. Pass(m, time)
    BY <2>1 DEF m, time
  <2>6. market' = m /\ now' = time
    BY <2>5 DEF Pass
  <2> QED
    BY <2>2, <2>4, <2>5, <2>6
<1> QED
  BY <1>1, <1>2 DEF QuotingNext

(* The invariant holds at the start, and every step keeps it.              *)
LEMMA QuotingStarts == QuotingInit => QuotingTyped /\ CommandSafe /\ ClimbKept
<1> SUFFICES ASSUME QuotingInit PROVE QuotingTyped /\ CommandSafe /\ ClimbKept
  OBVIOUS
<1>1. limiter \in [Tokens -> Entry] /\ \A t \in Tokens : limiter[t].ts = 0
  BY DEF QuotingInit, Unseen, Entry
<1>2. market \in Market
  BY QuotingAssumption DEF QuotingInit
<1>3. ToSet(command.orders) = {}
  BY EmptyList DEF QuotingInit, Stop
<1> QED
  BY <1>1, <1>2, <1>3 DEF QuotingInit, QuotingTyped, CommandSafe, ClimbKept

LEMMA QuotingStays ==
  QuotingTyped /\ CommandSafe /\ ClimbKept /\ [QuotingNext]_quotingVars
    => QuotingTyped' /\ CommandSafe' /\ ClimbKept'
<1> SUFFICES ASSUME QuotingTyped, CommandSafe, ClimbKept, [QuotingNext]_quotingVars
             PROVE  QuotingTyped' /\ CommandSafe' /\ ClimbKept'
  OBVIOUS
<1>1. CASE QuotingNext
  <2>1. Pass(market', now') /\ market' \in Market /\ now' \in Nat /\ now' > 0
    BY <1>1, PassTaken
  <2> DEFINE m == market'  time == now'
  <2> HIDE DEF m, time
  <2>2. Pass(m, time) /\ m \in Market /\ time \in Nat /\ time > 0
    BY <2>1 DEF m, time
  <2> QED
    BY <2>2, PassSafe
<1>2. CASE UNCHANGED quotingVars
  <2>1. /\ cfg' = cfg /\ market' = market /\ now' = now /\ limiter' = limiter /\ command' = command
    BY <1>2 DEF quotingVars
  <2>2. QuotingTyped'
    BY <2>1 DEF QuotingTyped
  <2>3. CommandSafe'
    BY <2>1 DEF CommandSafe, Level0, TargetTotal, Safe, OffTheAsk, PostOnlyCap, Pays,
                LossBounded, MinProfit, Emergency, HardCap
  <2>4. ClimbKept'
    BY <2>1 DEF ClimbKept, Steady, CapOf, TargetTotal, Unpaired, Shares, Remembered
  <2> QED
    BY <2>2, <2>3, <2>4
<1> QED
  BY <1>1, <1>2

(* After every pass, over any markets, configurations and sequence of books, the *)
(* state of the limiter is typed and the last command is safe for its market; *)
(* where nothing is repaired the limiter remembers that command's bids.    *)
THEOREM QuotingInvariant == QuotingSpec => [](QuotingTyped /\ CommandSafe /\ ClimbKept)
BY QuotingStarts, QuotingStays, PTL DEF QuotingSpec
-----------------------------------------------------------------------------
(* The quotes of the claims are the orders of the command.                 *)
LEMMA QuotesAre ==
  /\ Quotes = ToSet(command.orders)
  /\ \A t \in Tokens : Has(command.orders, t, Sides) <=>
       \E o \in ToSet(command.orders) : o.token = t /\ o.side \in Sides
<1>1. \A o : o \in Quotes <=> o \in ToSet(command.orders)
  BY InSet DEF Quotes
<1> QED
  BY <1>1, HasIs

(* A stop asks for nothing.                                                *)
LEMMA StopIs == command = Stop => Quotes = {} /\ command.taker = {}
BY EmptyList, QuotesAre DEF Stop

(* A bid of each token, whatever its level, costs no more than the two prices *)
(* of level 0, which fit the target of the market: the combined cap survives *)
(* inventory rules, reward hints, the budget and the safety net.           *)
THEOREM PairsFitTheTarget == QuotingSpec => []CombinedCapHolds
<1>1. QuotingTyped /\ CommandSafe => CombinedCapHolds
  <2> SUFFICES ASSUME QuotingTyped, CommandSafe, NEW up \in Buys("up"), NEW down \in Buys("down")
               PROVE  up.price + down.price <= TargetTotal(market)
    BY DEF CombinedCapHolds
  <2>1. /\ up \in Quotes /\ up.token = "up" /\ up.side = "buy"
        /\ down \in Quotes /\ down.token = "down" /\ down.side = "buy"
    BY DEF Buys
  <2>2. PICK b, orders : Level0(market, b) /\ Safe(market, b, orders, command)
    BY <2>1, StopIs DEF CommandSafe
  <2>3. up \in ToSet(command.orders) /\ down \in ToSet(command.orders)
    BY <2>1, QuotesAre
  <2>4. Unpaired(market) \in Nat /\ TargetTotal(market) \in Nat
    BY MarketTyped DEF QuotingTyped, Tokens
  <2>5. CASE Unpaired(market) = 0
    <3>1. up.price \in Nat /\ up.price <= b["up"] /\ down.price \in Nat /\ down.price <= b["down"]
      BY <2>1, <2>2, <2>3, <2>5 DEF Safe
    <3>2. b["up"] \in Nat /\ b["down"] \in Nat /\ b["up"] + b["down"] <= TargetTotal(market)
      BY <2>2 DEF Level0, Tokens
    <3> QED
      BY <2>4, <3>1, <3>2
  <2>6. CASE Unpaired(market) > 0
    <3>1. up.token = Missing(market) /\ down.token = Missing(market)
      BY <2>2, <2>3, <2>6 DEF Safe
    <3> QED
      BY <2>1, <3>1
  <2> QED
    BY <2>4, <2>5, <2>6
<1> QED
  BY <1>1, QuotingInvariant, PTL

(* No bid is closer to the ask than min_ticks_from_ask, whichever of pricing, *)
(* repair and reward hints has set it last, for any books and tick sizes.  *)
THEOREM BidsOffTheAsk == QuotingSpec => []BidsStayOffTheAsk
<1>1. QuotingTyped /\ CommandSafe => BidsStayOffTheAsk
  <2> SUFFICES ASSUME CommandSafe, NEW t \in Tokens, NEW o \in Buys(t)
               PROVE  OffTheAsk(market, t, o.price)
    BY DEF BidsStayOffTheAsk, OffTheAsk
  <2>1. o \in Quotes /\ o.token = t /\ o.side = "buy"
    BY DEF Buys
  <2>2. PICK b, orders : Safe(market, b, orders, command)
    BY <2>1, StopIs DEF CommandSafe
  <2> QED
    BY <2>1, <2>2, QuotesAre DEF Safe
<1> QED
  BY <1>1, QuotingInvariant, PTL

(* With a gap, every bid for the missing token and every completion that buys *)
(* it makes a pair whose loss, fee included, is one the configuration allows. *)
THEOREM RepairsPay == QuotingSpec => []RepairPays
<1>1. QuotingTyped /\ CommandSafe => RepairPays
  <2> SUFFICES ASSUME QuotingTyped, CommandSafe, Unpaired(market) > 0
               PROVE  /\ \A o \in Buys(Missing(market)) : Pays(market, o.price)
                      /\ \A take \in command.taker : LossBounded(market, take)
    BY DEF RepairPays, Pays, LossBounded
  <2>1. CASE command = Stop
    BY <2>1, StopIs DEF Buys
  <2>2. CASE \E b, orders : Level0(market, b) /\ Safe(market, b, orders, command)
    <3>1. PICK b, orders : Safe(market, b, orders, command)
      BY <2>2
    <3> QED
      BY <3>1, QuotesAre DEF Safe, Buys
  <2> QED
    BY <2>1, <2>2 DEF CommandSafe
<1> QED
  BY <1>1, QuotingInvariant, PTL

(* What pruning and the safety net leave is bids for both tokens or nothing, *)
(* or, with a gap, orders for the missing token alone.                     *)
THEOREM PairedOrRepaired == QuotingSpec => []PairedOrRepair
<1>1. QuotingTyped /\ CommandSafe => PairedOrRepair
  <2> SUFFICES ASSUME QuotingTyped, CommandSafe PROVE PairedOrRepair
    OBVIOUS
  <2>1. CASE command = Stop
    BY <2>1, StopIs DEF PairedOrRepair, Buys
  <2>2. CASE \E b, orders : Level0(market, b) /\ Safe(market, b, orders, command)
    <3>1. PICK b, orders : Safe(market, b, orders, command)
      BY <2>2
    <3>2. Unpaired(market) \in Nat
      BY MarketTyped DEF QuotingTyped, Tokens
    <3>3. CASE Unpaired(market) = 0
      <4>1. /\ \A o \in ToSet(command.orders) : o.side = "buy"
            /\ ~OneSided(command.orders, Sides)
        BY <3>1, <3>3 DEF Safe
      <4>2. \A t \in Tokens : Has(command.orders, t, Sides) <=> Buys(t) # {}
        BY <4>1, QuotesAre DEF Buys, Sides
      <4> QED
        BY <3>3, <4>1, <4>2 DEF PairedOrRepair, OneSided, Tokens
    <3>4. CASE Unpaired(market) > 0
      BY <3>1, <3>4, QuotesAre DEF Safe, PairedOrRepair
    <3> QED
      BY <3>2, <3>3, <3>4
  <2> QED
    BY <2>1, <2>2 DEF CommandSafe
<1> QED
  BY <1>1, QuotingInvariant, PTL

(* Where nothing is repaired, rewards are off and the caps of the tokens fit *)
(* the target together, no bid is further above the level-0 bid of the pass *)
(* before than the limiter's rate allows, and what the ladder rounded off. *)
THEOREM ClimbBounded == QuotingSpec => ClimbIsBounded
<1> DEFINE Climb ==
      \A t \in Tokens :
       LET allowed == ((cfg.chase_max_up * (now' - now)) \div 1000) * market'.book[t].tick
           rounded == limiter[t].p0 % market.book[t].tick
       IN  /\ cfg.chase_limiter_enabled /\ ~cfg.rewards_enabled /\ now' > now
           /\ Unpaired(market) = 0 /\ Unpaired(market') = 0
           /\ CapOf(market, "up") + CapOf(market, "down") <= TargetTotal(market)
           => \A o \in Buys(t)', before \in Buys(t) :
                before.level = 0 => o.price <= before.price + rounded + allowed
<1>1. QuotingTyped /\ ClimbKept /\ [QuotingNext]_quotingVars => [Climb]_quotingVars
  <2> SUFFICES ASSUME QuotingTyped, ClimbKept, QuotingNext, NEW t \in Tokens,
                      cfg.chase_limiter_enabled, ~cfg.rewards_enabled, now' > now,
                      Unpaired(market) = 0, Unpaired(market') = 0,
                      CapOf(market, "up") + CapOf(market, "down") <= TargetTotal(market),
                      NEW o \in Buys(t)', NEW before \in Buys(t), before.level = 0
               PROVE  o.price <= before.price + (limiter[t].p0 % market.book[t].tick)
                        + ((cfg.chase_max_up * (now' - now)) \div 1000) * market'.book[t].tick
    OBVIOUS
  <2> DEFINE m == market'  time == now'
  <2>1. Pass(m, time) /\ m \in Market /\ time \in Nat /\ time > 0
    BY PassTaken
  <2>2. o \in ToSet(command'.orders) /\ o.token = t /\ o.side = "buy"
    <3>1. (Quotes = ToSet(command.orders))'
      BY QuotesAre, PTL
    <3> QED
      BY <3>1 DEF Buys
  <2>3. /\ before \in ToSet(command.orders) /\ before.token = t
        /\ Remembered(market, now, limiter[t], before)
    BY QuotesAre DEF Buys, ClimbKept, Steady
  <2>4. /\ market.book[t].tick > 0 /\ limiter[t].ts = now
        /\ before.price = FloorTo(limiter[t].p0, market.book[t].tick)
    BY <2>3 DEF Remembered
  <2>5. limiter[t].seen /\ now < time
    BY <2>4 DEF QuotingTyped
  <2>6. Unpaired(m) = 0
    OBVIOUS
  <2> HIDE DEF m, time
  <2>7. Slow(m, t, time, limiter[t], o.price)
    BY <2>1, <2>2, <2>6, PassSafe
  <2>8. o.price <= limiter[t].p0 + Allowed(m, t, time, limiter[t])
    BY <2>4, <2>5, <2>7 DEF Slow
  <2>9. Allowed(m, t, time, limiter[t]) = ((cfg.chase_max_up * (time - now)) \div 1000) * m.book[t].tick
    BY <2>4, <2>6 DEF Allowed
  <2>10. limiter[t].p0 = before.price + (limiter[t].p0 % market.book[t].tick)
    <3>1. market.book[t].tick \in Nat /\ limiter[t].p0 \in Nat
      <4>1. market.book[t].tick \in Nat
        BY MarketTyped DEF QuotingTyped
      <4> QED
        BY <4>1 DEF QuotingTyped, Entry
    <3> DEFINE tick == market.book[t].tick  p == limiter[t].p0  price == before.price
    <3>2. tick \in Nat /\ tick > 0 /\ p \in Nat /\ price = FloorTo(p, tick)
      BY <2>4, <3>1
    <3> HIDE DEF tick, p, price
    <3>3. p = price + (p % tick)
      <4>1. p % tick \in Int
        BY <3>2
      <4>2. price = p - (p % tick)
        BY <3>2 DEF FloorTo
      <4> QED
        BY <3>2, <4>1, <4>2
    <3> QED
      BY <3>3 DEF tick, p, price
  <2> QED
    BY <2>8, <2>9, <2>10 DEF m, time
<1>2. ClimbIsBounded <=> [][Climb]_quotingVars
  BY DEF ClimbIsBounded
<1> QED
  BY <1>1, <1>2, QuotingInvariant, PTL DEF QuotingSpec
=============================================================================
