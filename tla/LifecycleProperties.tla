------------------------ MODULE LifecycleProperties ------------------------
(* What the lifecycle of the process promises.                             *)
EXTENDS Lifecycle

FlagsTyped ==
  /\ clean \in BOOLEAN /\ stop \in BOOLEAN /\ fatal \in BOOLEAN
  /\ armed \in BOOLEAN /\ heard \in BOOLEAN

StateTyped ==
  /\ phase \in {"down", "reconcile", "cleanup", "spawn"} \cup Running
  /\ runs \in 0..MaxRuns
  /\ seed \subseteq Orders /\ asked \subseteq Odd
  /\ pc \in {"off", "wait", "giveup"} \cup Calling
  /\ wait \in 0..Interval /\ call \in 0..CallMax /\ ok \in 0..OkCap
  /\ used \subseteq Orders /\ mine \subseteq used /\ net \subseteq used
  /\ book \subseteq used \ net
  /\ silent \in 0..SilentCap
  /\ missed \subseteq used /\ late \subseteq used /\ kept \subseteq used

TypeOK == FlagsTyped /\ StateTyped

\* Restart safety.  With startup_cancel_all nothing of earlier processes rests when trading
\* begins, unless it reached the exchange after the cancel, or the exchange kept it against
\* the cancel.  Without it, what rests is in the cache of OrderManager, with the same two
\* exceptions, and a third that startup does not notice: an order of a market it did not
\* look at (an older one, or one that Gamma did not return) is neither taken over nor
\* canceled, and trading begins.
StartKnowsWhatRests ==
  phase \in Running =>
    book \ mine \subseteq late \cup kept \cup (IF clean THEN {} ELSE seed \cup missed)

\* The supervisor gives up, with a cancel-all and the end of the process, before the
\* exchange runs out of patience: its cancel never hits a process that goes on trading.
SupervisorActsFirst ==
  heard /\ pc \in Calling \cup {"wait"} => silent <= ExchangeGrace

\* REST calls return, the tasks and the clocks run, and a post arrives or is lost.
Fairness ==
  /\ WF_vars(MainStep) /\ WF_vars(BeatTick) /\ WF_vars(BeatOk \/ BeatFails) /\ WF_vars(GiveUp)
  /\ WF_vars(Advance) /\ WF_vars(DeadMan)
  /\ \A o \in Orders : WF_vars(Land(o) \/ Refused(o))

FairSpec == Spec /\ Fairness

\* Nothing outlives the process: what a failed cancel left, or what was posted during and
\* after the cancel-all of the shutdown, is canceled by the exchange, for the heartbeats
\* end with the process.  An account that was never heard is not covered.
NothingOutlivesTheProcess ==
  []<>(phase # "down" \/ book = {} \/ ~armed)

\* Heartbeats that the exchange hears no more end trading.
HeartbeatLossEndsTrading == <>[](pc # "heard") => []<>(phase # "trading")
=============================================================================
