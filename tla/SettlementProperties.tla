------------------------ MODULE SettlementProperties ------------------------
(* What the settlement of markets is for. *)
EXTENDS Settlement

\* No more than max_ops_per_minute requests fall into a minute, less the time a tick may
\* have waited: its clock prunes and stamps too early (can_merge, can_redeem, prune_ops).
OperationsAreBudgeted ==
  Len(spent) <= MaxOps

\* When nothing is on its way, StateManager holds of a market what the account holds:
\* merges and redeems are applied once, and to both of its sides, however fills, merges and
\* redeems were mixed, refused and repeated (apply_onchain_merge, apply_onchain_redeem).
MarketsFollowTheChain ==
  (events = <<>> /\ ~worker.mined /\ ~lost)
    => \A m \in tracked : inv[m] = chain[m]

\* The loop, the worker and StateManager keep running, ticks reach both readers, and the
\* Data API answers now and then.
Fairness ==
  /\ \A m \in Markets :
       WF_vars(~fatal /\ ~Settled(m) /\ \E order \in Orders : TakeTick(m, order, {}, 0))
  /\ WF_vars(~fatal /\ \E order \in Orders : IntervalTick(order, {}))
  /\ WF_vars(~fatal /\ WorkerStep /\ faults' = faults)
  /\ WF_vars(~fatal /\ Apply) /\ WF_vars(~fatal /\ Check) /\ WF_vars(~fatal /\ RefreshReadiness)
  /\ SF_vars(~fatal /\ Advance)

FairSpec == Spec /\ Fairness

\* What is left in a resolved market comes back: it is redeemed, or the market is
\* dropped first, or the watchdog stops the program.  Answers of "not ready", failed
\* calls, requests that found no room and lost reports only delay it.
ResolvedMarketsSettle ==
  \A m \in Markets :
    []<>(fatal \/ m \notin tracked \/ stage[m] # "resolved" \/ ~Held(chain[m]))

\* Inventory that has gone wrong for good is noticed: the program stops.
DesyncIsCaught == <>[](\E m \in tracked : inv[m] # chain[m]) => <>fatal
=============================================================================
