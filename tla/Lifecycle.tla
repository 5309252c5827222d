----------------------------- MODULE Lifecycle -----------------------------
(***************************************************************************)
(* The process from start to exit, as main.rs runs it, and the orders that *)
(* rest on the exchange meanwhile.                                         *)
(*                                                                         *)
(*   down --> reconcile --> cleanup --> spawn --> trading                  *)
(*     ^                                             | shutdown            *)
(*     +------- exiting <--- stopping <--------------+                     *)
(*                                                                         *)
(* Startup reconciles with the exchange and cancels what is left of        *)
(* earlier processes, or takes it over.  While the tasks run, a supervisor *)
(* sends heartbeats; when they fail for longer than the grace time it      *)
(* cancels everything and stops the program.  The exchange cancels the     *)
(* orders of an account whose heartbeats have stopped.  The tasks go on    *)
(* posting until the process is gone, and what they have posted may reach  *)
(* the exchange later still.                                               *)
(*                                                                         *)
(* Time passes in units of a fraction of a second; clocks are kept as ages *)
(* and stop at a cap beyond which no comparison changes.                   *)
(***************************************************************************)
EXTENDS Integers, FiniteSets

CONSTANTS
  Orders,         \* ids of orders, of all processes
  Odd,            \* those whose token or side reconciliation cannot map
  Interval,       \* heartbeats.interval_ms
  Grace,          \* heartbeats.grace_ms
  CallMax,        \* environment: no heartbeat call takes longer
  ExchangeGrace,  \* the exchange: the silence after which it cancels
  MaxRuns         \* bound: processes started

\* HeartbeatsConfig::validate, and an exchange more patient than the supervisor.
ASSUME LifecycleAssumption ==
  /\ Odd \subseteq Orders
  /\ Interval \in Nat \ {0} /\ Grace \in Nat \ {0} /\ Grace >= Interval
  /\ CallMax \in Nat /\ ExchangeGrace \in Nat /\ MaxRuns \in Nat
  /\ ExchangeGrace >= Grace + Interval + CallMax
  /\ ExchangeGrace >= Grace + CallMax + CallMax

VARIABLES
  phase,    \* where main is
  clean,    \* trading.startup_cancel_all
  runs,     \* processes started
  seed,     \* orders_by_slug: open orders that OrderManager starts with
  asked,    \* cancel_order_ids: open orders that startup cannot map
  stop,     \* the shutdown flag
  fatal,    \* a reason was left in fatal_tx
  pc,       \* the heartbeat supervisor: where it is
  wait,     \* time until the tick of its interval
  call,     \* age of `now`, taken at its last tick
  ok,       \* age of last_ok_ms
  used,     \* orders that were ever posted
  mine,     \* those posted by the running process
  net,      \* posts on their way to the exchange
  book,     \* orders that rest on the exchange
  armed,    \* the exchange: it has heard a heartbeat of the account
  silent,   \* the exchange: time since it heard one
  heard,    \* history: the exchange has heard this process
  missed,   \* history: orders that rested where startup did not look
  late,     \* history: orders of earlier processes that landed after startup had looked
  kept      \* history: orders startup asked to cancel and the exchange kept

main  == <<phase, clean, runs, seed, asked>>
flags == <<stop, fatal>>
beat  == <<pc, wait, call, ok>>
exch  == <<used, mine, net, book, armed, silent>>
hist  == <<heard, missed, late, kept>>
vars  == <<main, flags, beat, exch, hist>>

Running == {"trading", "stopping", "exiting"}
Calling == {"call", "heard"}
OkCap     == Grace + Interval + CallMax + CallMax + 1
SilentCap == ExchangeGrace + 1
Older(age, cap) == IF age < cap THEN age + 1 ELSE age
-----------------------------------------------------------------------------
(* The process ends: main returns or is killed, and every task with it.    *)
Gone ==
  /\ phase' = "down" /\ pc' = "off" /\ wait' = 0 /\ call' = 0 /\ ok' = 0
  /\ seed' = {} /\ asked' = {} /\ mine' = {}
  /\ stop' = FALSE /\ fatal' = FALSE /\ heard' = FALSE
  /\ missed' = {} /\ late' = {} /\ kept' = {}
  /\ UNCHANGED <<clean, runs, used, net, armed, silent>>

Start ==
  /\ phase = "down" /\ runs < MaxRuns
  /\ phase' = "reconcile" /\ runs' = runs + 1 /\ clean' \in BOOLEAN
  /\ UNCHANGED <<seed, asked, flags, beat, exch, hist>>

\* Mutant: the orders that are taken over are canceled as well.
ReconcileAsksAll ==
  /\ phase = "reconcile"
  /\ phase' = "cleanup"
  /\ \E looked \in SUBSET book :
       /\ seed'   = IF clean THEN {} ELSE looked \ Odd
       /\ asked'  = IF clean THEN {} ELSE looked
       /\ missed' = IF clean THEN {} ELSE book \ looked
  /\ UNCHANGED <<clean, runs, flags, beat, exch, heard, late, kept>>

\* StartupReconciler::run: any lookup that fails ends the process.  Open orders are
\* fetched only to take them over, and only those of the tracked markets that Gamma lists:
\* the current and the next one, and the one before in its grace time.
Reconcile ==
  /\ phase = "reconcile"
  /\ phase' = "cleanup"
  /\ \E looked \in SUBSET book :
       /\ seed'   = IF clean THEN {} ELSE looked \ Odd
       /\ asked'  = IF clean THEN {} ELSE looked \cap Odd
       /\ missed' = IF clean THEN {} ELSE book \ looked
  /\ UNCHANGED <<clean, runs, flags, beat, exch, heard, late, kept>>

ReconcileFails == phase = "reconcile" /\ Gone /\ book' = book

\* cancel_all_orders: an error refuses to trade; orders that the answer lists as not
\* canceled are not looked at.
CancelAll(stays) ==
  /\ clean
  /\ phase' = "spawn" /\ book' = stays /\ kept' = stays

\* cancel_orders, if there are any: neither an error nor a refusal stops the start.
CancelAsked(stays) ==
  /\ ~clean
  /\ phase' = "spawn"
  /\ book' = (book \ asked) \cup (stays \cap asked) /\ kept' = stays \cap asked

CleanUp ==
  /\ phase = "cleanup"
  /\ \E stays \in SUBSET book : CancelAll(stays) \/ CancelAsked(stays)
  /\ UNCHANGED <<clean, runs, seed, asked, flags, beat, used, mine, net,
                 armed, silent, heard, missed, late>>

\* Mutant: the error of cancel_all_orders is only logged.
CleanUpFailsOn ==
  /\ phase = "cleanup" /\ clean
  /\ phase' = "spawn"
  /\ UNCHANGED <<clean, runs, seed, asked, flags, beat, exch, hist>>

CleanUpFails == phase = "cleanup" /\ clean /\ Gone /\ book' \in SUBSET book

\* The tasks are spawned; OrderManager starts with the seeded orders, and the interval of
\* the supervisor ticks at once.
Spawn ==
  /\ phase = "spawn"
  /\ phase' = "trading" /\ pc' = "wait"
  /\ UNCHANGED <<clean, runs, seed, asked, flags, wait, call, ok, exch, hist>>
-----------------------------------------------------------------------------
(* The end: a signal or the watchdog asks for it, the main loop sees it.   *)
Signal ==
  /\ phase # "down" /\ ~stop
  /\ stop' = TRUE
  /\ UNCHANGED <<main, fatal, beat, exch, hist>>

WatchdogAlarm ==
  /\ phase \in Running /\ ~fatal
  /\ fatal' = TRUE /\ stop' = TRUE
  /\ UNCHANGED <<main, beat, exch, hist>>

LoopEnds ==
  /\ phase = "trading" /\ stop
  /\ phase' = "stopping"
  /\ UNCHANGED <<clean, runs, seed, asked, flags, beat, exch, hist>>

\* The StateManager has gone with its channel: the loop ends as well, stop or no stop.
LoopBreaks ==
  /\ phase = "trading"
  /\ phase' = "stopping"
  /\ UNCHANGED <<clean, runs, seed, asked, flags, beat, exch, hist>>

\* Best effort: the call may err or leave orders.
CancelAtExit ==
  /\ phase = "stopping"
  /\ phase' = "exiting" /\ book' \in SUBSET book
  /\ UNCHANGED <<clean, runs, seed, asked, flags, beat, used, mine, net,
                 armed, silent, hist>>

\* Mutant: the supervisor outlives main.
ExitBeating ==
  /\ phase = "exiting"
  /\ phase' = "down"
  /\ UNCHANGED <<clean, runs, seed, asked, flags, beat, exch, hist>>

Exit == phase = "exiting" /\ Gone /\ book' = book

Crash == phase # "down" /\ Gone /\ book' = book
-----------------------------------------------------------------------------
(* run_heartbeat_supervisor                                                *)
BeatTick ==
  /\ pc = "wait" /\ wait = 0
  /\ pc' = "call" /\ wait' = Interval /\ call' = 0
  /\ UNCHANGED <<main, flags, ok, exch, hist>>

\* last_ok_ms is the time of the tick, whenever the answer comes.
BeatOk ==
  /\ pc = "heard"
  /\ pc' = "wait" /\ ok' = call /\ call' = 0
  /\ UNCHANGED <<main, flags, wait, exch, hist>>

\* Mutant: last_ok_ms is set after the match.
BeatFailsQuietly ==
  /\ pc \in Calling
  /\ pc' = "wait" /\ ok' = call /\ call' = 0
  /\ UNCHANGED <<main, flags, wait, exch, hist>>

\* Mutant: the interval starts again when a call has ended.
BeatFailsAndDelays ==
  /\ pc \in Calling
  /\ pc' = IF ok - call > Grace THEN "giveup" ELSE "wait"
  /\ wait' = Interval /\ call' = 0
  /\ UNCHANGED <<main, flags, ok, exch, hist>>

\* The call errs; whether the exchange has heard it or not.
BeatFails ==
  /\ pc \in Calling
  /\ pc' = IF ok - call > Grace THEN "giveup" ELSE "wait"
  /\ call' = 0
  /\ UNCHANGED <<main, flags, wait, ok, exch, hist>>

GiveUp ==
  /\ pc = "giveup"
  /\ pc' = "off" /\ wait' = 0 /\ ok' = 0
  /\ fatal' = TRUE /\ stop' = TRUE
  /\ book' \in SUBSET book
  /\ UNCHANGED <<main, call, used, mine, net, armed, silent, hist>>
-----------------------------------------------------------------------------
(* The exchange and the network                                            *)
BeatHeard ==
  /\ pc = "call"
  /\ pc' = "heard" /\ armed' = TRUE /\ silent' = 0 /\ heard' = TRUE
  /\ UNCHANGED <<main, flags, wait, call, ok, used, mine, net, book,
                 missed, late, kept>>

\* An order is posted by a post stage; some stage may run until the process is gone.
Post(o) ==
  /\ phase \in Running /\ o \notin used
  /\ used' = used \cup {o} /\ mine' = mine \cup {o} /\ net' = net \cup {o}
  /\ UNCHANGED <<main, flags, beat, book, armed, silent, hist>>

\* Startup has looked once it has fetched the open orders, or canceled all.
Looked == phase \in Running \cup {"spawn"} \/ (phase = "cleanup" /\ ~clean)

Land(o) ==
  /\ o \in net
  /\ net' = net \ {o} /\ book' = book \cup {o}
  /\ late'  = IF o \notin mine /\ Looked THEN late \cup {o} ELSE late
  /\ UNCHANGED <<main, flags, beat, used, mine, armed, silent, heard, missed, kept>>

Refused(o) ==
  /\ o \in net
  /\ net' = net \ {o}
  /\ UNCHANGED <<main, flags, beat, used, mine, book, armed, silent, hist>>

\* Filled, or canceled by OrderManager.
Leave(o) ==
  /\ o \in book
  /\ book' = book \ {o}
  /\ UNCHANGED <<main, flags, beat, used, mine, net, armed, silent, hist>>

DeadMan ==
  /\ armed /\ silent > ExchangeGrace /\ book # {}
  /\ book' = {}
  /\ UNCHANGED <<main, flags, beat, used, mine, net, armed, silent, hist>>

\* A tick that is due is taken at once, and no heartbeat call exceeds CallMax.
Advance ==
  /\ pc = "wait" => wait > 0
  /\ pc \in Calling => call < CallMax
  /\ wait' = IF pc \in Calling \cup {"wait"} /\ wait > 0 THEN wait - 1 ELSE wait
  /\ call' = IF pc \in Calling THEN call + 1 ELSE call
  /\ ok'   = IF pc \in Calling \cup {"wait"} THEN Older(ok, OkCap) ELSE ok
  /\ silent' = Older(silent, SilentCap)
  /\ UNCHANGED <<main, flags, pc, used, mine, net, book, armed, hist>>
-----------------------------------------------------------------------------
Init ==
  /\ phase = "down" /\ clean = TRUE /\ runs = 0
  /\ seed = {} /\ asked = {}
  /\ stop = FALSE /\ fatal = FALSE
  /\ pc = "off" /\ wait = 0 /\ call = 0 /\ ok = 0
  /\ used = {} /\ mine = {} /\ net = {} /\ book = {} /\ armed = FALSE /\ silent = 0
  /\ heard = FALSE /\ missed = {} /\ late = {} /\ kept = {}

MainStep ==
  \/ Reconcile \/ ReconcileFails \/ CleanUp \/ CleanUpFails \/ Spawn
  \/ LoopEnds \/ CancelAtExit \/ Exit

Next ==
  \/ Start \/ MainStep \/ LoopBreaks \/ Signal \/ WatchdogAlarm \/ Crash
  \/ BeatTick \/ BeatOk \/ BeatFails \/ GiveUp \/ BeatHeard
  \/ \E o \in Orders : Post(o) \/ Land(o) \/ Refused(o) \/ Leave(o)
  \/ DeadMan \/ Advance

Spec == Init /\ [][Next]_vars
=============================================================================
