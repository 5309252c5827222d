-------------------------- MODULE InventoryLedger --------------------------
(***************************************************************************)
(* How StateManager's inventory of one market follows what the account     *)
(* holds.  Three paths lead to it, all through the channel tx_events:      *)
(*                                                                         *)
(*  - fills: the user websocket session turns the cumulative matched size  *)
(*    of an order into fills (FillTracker); a session starts with nothing; *)
(*  - seeds: reconciliation reads the positions after every connect;       *)
(*  - merges: the inventory engine asks for a merge of complete sets it    *)
(*    saw in a quote tick, the on-chain worker reports it when it is done. *)
(*                                                                         *)
(* Shares are counted in sets of the smallest quantity; prices and costs   *)
(* are left out.  Time stamps only order a fill after or before a connect. *)
(***************************************************************************)
EXTENDS Integers, Sequences, FiniteSets, Functions

CONSTANTS
  Up, Down,     \* the two outcome tokens of the market
  PerToken,     \* bound: orders per token
  Size,         \* size of an order
  Sells,        \* the orders that sell, the others buy
  Initial,      \* shares of each token held at startup
  MinSets,      \* merge.min_sets
  BatchSets,    \* merge.batch_sets
  Replays,      \* does a new session repeat the open orders?
  Faults,       \* what may go wrong: see below
  MaxEpoch,     \* bound: sessions
  MaxMerges     \* bound: merge requests

Tokens == {Up, Down}
Orders == Tokens \X (1..PerToken)
Token(o) == o[1]

AllFaults ==
  {"resync_skipped",  \* a resync less than 2 s ago, a failed fetch, a dropped event
   "merge_dropped",   \* the worker finds the condition not prepared
   "lost_receipt",    \* a merge is mined, but its call errs or its event is dropped
   "slow_chain"}      \* a merge takes longer than merge.interval_s

ASSUME LedgerAssumption ==
  /\ PerToken \in Nat /\ Size \in Nat \ {0} /\ Initial \in Nat
  /\ Sells \subseteq Orders /\ Replays \in BOOLEAN /\ Faults \subseteq AllFaults
  /\ BatchSets \in Nat \ {0} /\ MinSets \in Nat
  /\ MaxEpoch \in Nat /\ MaxMerges \in Nat

VARIABLES
  status,     \* the exchange: "new", "live" or "gone", per order
  matched,    \* the exchange: cumulative matched size, per order
  held,       \* shares the account holds, per token
  up,         \* is a user websocket session up?
  epoch,      \* number of sessions so far
  stream,     \* what the exchange has sent to the session
  tracker,    \* FillTracker.by_order_id
  conn,       \* connection events for reconciliation
  resync,     \* the resync that is under way
  events,     \* the channel tx_events
  inv,        \* StateManager: shares per token
  lastTrade,  \* StateManager: inventory.last_trade_ms
  snapshot,   \* inventory engine: complete sets in its latest tick
  cooling,    \* inventory engine: interval_s not over since the last merge
  merges,     \* number of merges requested so far (bounded by MaxMerges)
  queue,      \* requests to the on-chain worker
  worker,     \* the merge it executes
  emitted,    \* history: shares of an order that became fills
  quiet,      \* history: nothing matched or merged since the session came up
  blurred     \* history: events may be missing, see Settled

exchangeVars == <<status, matched, held>>
sessionVars  == <<up, epoch, stream, tracker, conn, emitted>>
stateVars    == <<inv, lastTrade>>
engineVars   == <<snapshot, cooling, merges, queue, worker>>
vars == <<exchangeVars, sessionVars, resync, events, stateVars, engineVars, quiet, blurred>>

None == [absent |-> TRUE]
Unseen == -1
Shares == [Tokens -> Nat]
Kinds == {"placement", "update", "cancellation"}
Update == [order : Orders, kind : Kinds, matched : 0..Size, ts : Int]
Event ==
  [kind : {"fill"}, token : Tokens, sell : BOOLEAN, shares : 1..Size, ts : Int]
    \cup [kind : {"seed"}, shares : Shares, ts : Int]
    \cup [kind : {"merge"}, sets : Nat]

ExchangeTyped ==
  /\ status \in [Orders -> {"new", "live", "gone"}]
  /\ matched \in [Orders -> 0..Size]
  /\ held \in Shares

SessionTyped ==
  /\ up \in BOOLEAN /\ epoch \in 0..MaxEpoch
  /\ stream \in Seq(Update)
  /\ tracker \in [Orders -> 0..Size \cup {Unseen}]
  /\ conn \in Seq(1..MaxEpoch)
  /\ emitted \in [Orders -> Nat]

StateTyped ==
  /\ resync \in [epoch : 1..MaxEpoch, shares : Shares] \cup {None}
  /\ events \in Seq(Event)
  /\ inv \in Shares /\ lastTrade \in Int
  /\ quiet \in BOOLEAN /\ blurred \in BOOLEAN

EngineTyped ==
  /\ snapshot \in Nat /\ cooling \in BOOLEAN /\ merges \in 0..MaxMerges
  /\ queue \in Seq(Nat)
  /\ worker \in [sets : Nat, mined : BOOLEAN] \cup {None}

TypeOK == ExchangeTyped /\ SessionTyped /\ StateTyped /\ EngineTyped

Init ==
  /\ status = [o \in Orders |-> "new"] /\ matched = [o \in Orders |-> 0]
  /\ held = [t \in Tokens |-> Initial]
  /\ up = FALSE /\ epoch = 0 /\ stream = <<>> /\ conn = <<>> /\ resync = None
  /\ tracker = [o \in Orders |-> Unseen]
  /\ events = <<>>
  /\ inv = held /\ lastTrade = 0  \* the seed of startup reconciliation
  /\ snapshot = 0 /\ cooling = FALSE /\ merges = 0
  /\ queue = <<>> /\ worker = None
  /\ emitted = [o \in Orders |-> 0]
  /\ quiet = TRUE /\ blurred = TRUE

-----------------------------------------------------------------------------
(* The exchange.  It tells the session, if one is up, of every change.     *)

ConnectedAt(e) == 2 * e
\* Exchange stamps have whole seconds: what happens right after a connect
\* may be stamped before it.
Stamps == {2 * epoch + 1, 2 * epoch - 1}

Told(o, kind, size, ts) ==
  IF up THEN Append(stream, [order |-> o, kind |-> kind, matched |-> size, ts |-> ts])
        ELSE stream

Place(o) ==
  /\ status[o] = "new"
  /\ status' = [status EXCEPT ![o] = "live"]
  /\ stream' = Told(o, "placement", matched[o], 2 * epoch + 1)
  /\ UNCHANGED <<matched, held, up, epoch, tracker, conn, emitted, resync, events,
                 stateVars, engineVars, quiet, blurred>>

Match(o) ==
  /\ status[o] = "live"
  /\ o \in Sells => held[Token(o)] > 0
  /\ matched' = [matched EXCEPT ![o] = @ + 1]
  /\ status' = IF matched'[o] = Size THEN [status EXCEPT ![o] = "gone"] ELSE status
  /\ held' = [held EXCEPT ![Token(o)] = IF o \in Sells THEN @ - 1 ELSE @ + 1]
  /\ \E ts \in Stamps : stream' = Told(o, "update", matched'[o], ts)
  /\ quiet' = FALSE
  /\ UNCHANGED <<up, epoch, tracker, conn, emitted, resync, events, stateVars, engineVars, blurred>>

Cancel(o) ==
  /\ status[o] = "live"
  /\ status' = [status EXCEPT ![o] = "gone"]
  /\ stream' = Told(o, "cancellation", matched[o], 2 * epoch + 1)
  /\ UNCHANGED <<matched, held, up, epoch, tracker, conn, emitted, resync, events,
                 stateVars, engineVars, quiet, blurred>>

-----------------------------------------------------------------------------
(* The user websocket.                                                     *)

OpenOrders == {o \in Orders : status[o] = "live"}

Snapshot(open) ==
  [n \in DOMAIN open |->
     [order |-> open[n], kind |-> "placement", matched |-> matched[open[n]], ts |-> 2 * epoch' + 1]]

\* The chain has the merge, StateManager will hear of it.
MinedUntold == worker # None /\ worker.mined

SessionUp ==
  /\ ~up /\ epoch < MaxEpoch
  /\ up' = TRUE /\ epoch' = epoch + 1
  /\ IF Replays
     THEN \E open \in Injection(1..Cardinality(OpenOrders), OpenOrders) : stream' = Snapshot(open)
     ELSE stream' = <<>>
  /\ conn' = Append(conn, epoch + 1)
  /\ quiet' = ~MinedUntold
  /\ UNCHANGED <<exchangeVars, tracker, emitted, resync, events, stateVars, engineVars, blurred>>

\* What the session has not read is lost, and its FillTracker with it.
SessionDown ==
  /\ up
  /\ up' = FALSE /\ stream' = <<>>
  /\ tracker' = [o \in Orders |-> Unseen]
  /\ blurred' = TRUE
  /\ UNCHANGED <<exchangeVars, epoch, conn, emitted, resync, events, stateVars,
                 engineVars, quiet>>

\* Mutant: past fills of an order that is first seen are counted again.
BaselineZero(u) == IF tracker[u.order] = Unseen THEN 0 ELSE tracker[u.order]

\* FillTracker::apply: the first message of an order sets its baseline.
Baseline(u) == IF tracker[u.order] = Unseen THEN u.matched ELSE tracker[u.order]

IsNew(u) == u.kind # "cancellation" /\ u.matched > Baseline(u)

FillOf(u) ==
  [kind |-> "fill", token |-> Token(u.order), sell |-> u.order \in Sells,
   shares |-> u.matched - Baseline(u), ts |-> u.ts]

Read ==
  /\ stream # <<>>
  /\ stream' = Tail(stream)
  /\ LET u == Head(stream)
     IN  /\ tracker' = [tracker EXCEPT ![u.order] =
              IF u.kind = "cancellation" THEN Unseen
              ELSE IF IsNew(u) THEN u.matched ELSE Baseline(u)]
         /\ IF IsNew(u)
            THEN /\ events' = Append(events, FillOf(u))
                 /\ emitted' = [emitted EXCEPT ![u.order] = @ + FillOf(u).shares]
            ELSE UNCHANGED <<events, emitted>>
  /\ UNCHANGED <<exchangeVars, up, epoch, conn, resync, stateVars, engineVars, quiet, blurred>>

-----------------------------------------------------------------------------
(* Reconciliation: one connection event at a time.                         *)

ResyncSkip ==
  /\ "resync_skipped" \in Faults
  /\ resync = None /\ conn # <<>>
  /\ conn' = Tail(conn)
  /\ UNCHANGED <<exchangeVars, up, epoch, stream, tracker, emitted, resync, events,
                 stateVars, engineVars, quiet, blurred>>

ResyncFetch ==
  /\ resync = None /\ conn # <<>>
  /\ conn' = Tail(conn)
  /\ resync' = [epoch |-> Head(conn), shares |-> held]
  /\ UNCHANGED <<exchangeVars, up, epoch, stream, tracker, emitted, events,
                 stateVars, engineVars, quiet, blurred>>

\* map_positions makes no seed of a market without positions.  The history
\* is cleared for a seed of the running session that nothing can have raced.
ResyncSend ==
  /\ resync # None
  /\ resync' = None
  /\ IF \A t \in Tokens : resync.shares[t] = 0
     THEN UNCHANGED <<events, blurred>>
     ELSE /\ events' = Append(events, [kind |-> "seed", shares |-> resync.shares,
                                       ts |-> ConnectedAt(resync.epoch)])
          /\ blurred' = (blurred /\ ~(up /\ resync.epoch = epoch /\ quiet))
  /\ UNCHANGED <<exchangeVars, sessionVars, stateVars, engineVars, quiet>>

-----------------------------------------------------------------------------
(* StateManager.                                                           *)

\* Mutant: shares are taken away without a look at what is there.
Unclamped(shares, less) == shares - less

Clamped(shares, less) == IF shares > less THEN shares - less ELSE 0

\* Losses and gains do not commute where they are clamped: more is asked for
\* than there is while other events are on their way.
MoreUnderWay == stream # <<>> \/ Len(events) > 1 \/ MinedUntold
Short(token, less) == inv[token] < less /\ MoreUnderWay

ApplyFill ==
  /\ events # <<>> /\ Head(events).kind = "fill"
  /\ LET fill == Head(events)
     IN  /\ inv' = [inv EXCEPT ![fill.token] =
              IF fill.sell THEN Clamped(@, fill.shares) ELSE @ + fill.shares]
         /\ lastTrade' = fill.ts
         /\ blurred' = (blurred \/ (fill.sell /\ Short(fill.token, fill.shares)))
  /\ events' = Tail(events)
  /\ UNCHANGED <<exchangeVars, sessionVars, resync, engineVars, quiet>>

\* A seed older than the last trade is ignored.
ApplySeed ==
  /\ events # <<>> /\ Head(events).kind = "seed"
  /\ LET seed == Head(events)
     IN  IF seed.ts < lastTrade
         THEN UNCHANGED stateVars
         ELSE inv' = seed.shares /\ lastTrade' = seed.ts
  /\ events' = Tail(events)
  /\ UNCHANGED <<exchangeVars, sessionVars, resync, engineVars, quiet, blurred>>

ApplyMerge ==
  /\ events # <<>> /\ Head(events).kind = "merge"
  /\ LET sets == Head(events).sets
     IN  /\ inv' = [t \in Tokens |-> Clamped(inv[t], sets)]
         /\ blurred' = (blurred \/ \E t \in Tokens : Short(t, sets))
  /\ events' = Tail(events)
  /\ UNCHANGED <<exchangeVars, sessionVars, resync, lastTrade, engineVars, quiet>>

-----------------------------------------------------------------------------
(* The inventory engine and the on-chain worker.                           *)

FullSets(shares) == IF shares[Up] < shares[Down] THEN shares[Up] ELSE shares[Down]

\* A quote tick of the market; full channels drop ticks, so it may be any.
Tick ==
  /\ merges < MaxMerges
  /\ snapshot # FullSets(inv)
  /\ snapshot' = FullSets(inv)
  /\ UNCHANGED <<exchangeVars, sessionVars, resync, events, stateVars,
                 cooling, merges, queue, worker, quiet, blurred>>

WholeBatches(sets) == (sets \div BatchSets) * BatchSets

\* InventoryEngine::tick, by the interval or after a fill.
EngineTick ==
  /\ ~cooling /\ merges < MaxMerges
  /\ snapshot >= MinSets /\ WholeBatches(snapshot) > 0
  /\ queue' = Append(queue, WholeBatches(snapshot))
  /\ cooling' = TRUE /\ merges' = merges + 1
  /\ UNCHANGED <<exchangeVars, sessionVars, resync, events, stateVars, snapshot, worker, quiet, blurred>>

\* A merge is done, told and seen in a tick before the interval is over,
\* unless the chain is slow.
MergeUnderWay ==
  \/ queue # <<>> \/ worker # None \/ snapshot # FullSets(inv)
  \/ \E n \in 1..Len(events) : events[n].kind = "merge"

IntervalPasses ==
  /\ cooling /\ merges < MaxMerges
  /\ MergeUnderWay => "slow_chain" \in Faults
  /\ cooling' = FALSE
  /\ UNCHANGED <<exchangeVars, sessionVars, resync, events, stateVars,
                 snapshot, merges, queue, worker, quiet, blurred>>

WorkerTake ==
  /\ worker = None /\ queue # <<>>
  /\ queue' = Tail(queue)
  /\ \/ worker' = [sets |-> Head(queue), mined |-> FALSE]
     \/ "merge_dropped" \in Faults /\ worker' = None
  /\ UNCHANGED <<exchangeVars, sessionVars, resync, events, stateVars,
                 snapshot, cooling, merges, quiet, blurred>>

Covered(sets) == \A t \in Tokens : held[t] >= sets

MergeMined ==
  /\ worker # None /\ ~worker.mined /\ Covered(worker.sets)
  /\ held' = [t \in Tokens |-> held[t] - worker.sets]
  /\ worker' = [worker EXCEPT !.mined = TRUE]
  /\ quiet' = FALSE
  /\ UNCHANGED <<status, matched, sessionVars, resync, events, stateVars,
                 snapshot, cooling, merges, queue, blurred>>

\* Mutant: a merge that failed is told like one that was mined.
ReportsAnyway == worker.mined \/ ~Covered(worker.sets)

\* Only the receipt of a mined merge is told to StateManager.
Reports == worker.mined

MergeDone ==
  /\ worker # None /\ (worker.mined \/ ~Covered(worker.sets))
  /\ worker' = None
  /\ \/ /\ events' = IF Reports THEN Append(events, [kind |-> "merge", sets |-> worker.sets]) ELSE events
        /\ blurred' = blurred
     \/ /\ worker.mined /\ "lost_receipt" \in Faults
        /\ events' = events /\ blurred' = TRUE
  /\ UNCHANGED <<exchangeVars, sessionVars, resync, stateVars,
                 snapshot, cooling, merges, queue, quiet>>

-----------------------------------------------------------------------------
Next ==
  \/ \E o \in Orders : Place(o) \/ Match(o) \/ Cancel(o)
  \/ SessionUp \/ SessionDown \/ Read
  \/ ResyncSkip \/ ResyncFetch \/ ResyncSend
  \/ ApplyFill \/ ApplySeed \/ ApplyMerge
  \/ Tick \/ EngineTick \/ IntervalPasses
  \/ WorkerTake \/ MergeMined \/ MergeDone

Spec == Init /\ [][Next]_vars

-----------------------------------------------------------------------------
(***************************************************************************)
(* However sessions come and go and repeat their orders, no part of an     *)
(* order becomes a fill twice ("avoid double-counting past fills", the     *)
(* comment in FillTracker::apply).                                         *)
(***************************************************************************)
NoFillTwice == \A o \in Orders : emitted[o] <= matched[o]

(***************************************************************************)
(* When everything sent has been handled, the inventory is what the        *)
(* account holds - unless a session was lost since the last clean seed     *)
(* (one of the running session, with nothing matched or merged between its *)
(* connect and its seed), a receipt was lost, or an event that asked for   *)
(* more shares than the inventory had came before one that would have      *)
(* brought them.                                                           *)
(***************************************************************************)
Settled ==
  /\ up /\ stream = <<>> /\ conn = <<>> /\ resync = None /\ events = <<>>
  /\ ~MinedUntold

InventoryIsExact == Settled /\ ~blurred => inv = held
=============================================================================
