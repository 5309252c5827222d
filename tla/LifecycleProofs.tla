-------------------------- MODULE LifecycleProofs --------------------------
(***************************************************************************)
(* Restart safety, and that the supervisor is done before the exchange     *)
(* loses its patience, for any number of orders and processes and for all  *)
(* time constants that meet LifecycleAssumption.                           *)
(***************************************************************************)
EXTENDS LifecycleProperties, TLAPS

(* The actions, grouped for the proofs below.                              *)
OrderStep == \E o \in Orders : Post(o) \/ Land(o) \/ Refused(o) \/ Leave(o)
EndStep   == ReconcileFails \/ CleanUpFails \/ Exit \/ Crash
BeatStep  == BeatTick \/ BeatOk \/ BeatFails \/ GiveUp \/ BeatHeard

(* Every step is one of these.                                             *)
LEMMA StepCases ==
  ASSUME Next
  PROVE  \/ Start \/ Reconcile \/ CleanUp \/ Spawn \/ LoopEnds \/ LoopBreaks
         \/ CancelAtExit \/ EndStep \/ Signal \/ WatchdogAlarm \/ BeatStep \/ OrderStep
         \/ DeadMan \/ Advance
<1>1. MainStep => Reconcile \/ CleanUp \/ Spawn \/ LoopEnds \/ CancelAtExit \/ EndStep
  BY Zenon DEF MainStep, EndStep
<1>2. Crash => EndStep
  BY Zenon DEF EndStep
<1> QED
  BY <1>1, <1>2, Zenon DEF Next, BeatStep, OrderStep

(* Every variable keeps its type; boolean flags apart, for Zenon.          *)
THEOREM LifecycleTyped == Spec => []TypeOK
<1> USE LifecycleAssumption DEF Running, Calling, OkCap, SilentCap
<1>1. Init => TypeOK
  <2>1. Init => FlagsTyped
    BY Zenon DEF Init, FlagsTyped
  <2>2. Init => StateTyped
    BY DEF Init, StateTyped
  <2> QED
    BY <2>1, <2>2 DEF TypeOK
<1>2. FlagsTyped /\ [Next]_vars => FlagsTyped'
  <2> SUFFICES ASSUME FlagsTyped, [Next]_vars
               PROVE  FlagsTyped'
    OBVIOUS
  <2> USE DEF FlagsTyped, main, flags, beat, exch, hist
  <2>1. CASE \/ Start \/ Reconcile \/ CleanUp \/ Spawn \/ LoopEnds \/ LoopBreaks
            \/ CancelAtExit
    BY <2>1, Zenon DEF Start, Reconcile, CleanUp, Spawn, LoopEnds, LoopBreaks, CancelAtExit,
                       CancelAll, CancelAsked
  <2>2. CASE EndStep
    BY <2>2, Zenon DEF EndStep, ReconcileFails, CleanUpFails, Exit, Crash, Gone
  <2>3. CASE Signal \/ WatchdogAlarm \/ BeatStep
    BY <2>3, Zenon DEF Signal, WatchdogAlarm, BeatStep, BeatTick, BeatOk, BeatFails,
                       GiveUp, BeatHeard
  <2>4. CASE OrderStep \/ DeadMan \/ Advance
    BY <2>4, Zenon DEF OrderStep, Post, Land, Refused, Leave, DeadMan, Advance
  <2>5. CASE UNCHANGED vars
    BY <2>5, Zenon DEF vars
  <2> QED
    BY StepCases, <2>1, <2>2, <2>3, <2>4, <2>5
<1>3. StateTyped /\ [Next]_vars => StateTyped'
  <2> SUFFICES ASSUME StateTyped, [Next]_vars
               PROVE  StateTyped'
    OBVIOUS
  <2> USE DEF StateTyped, main, flags, beat, exch, hist
  <2>1. CASE Start \/ Reconcile \/ Spawn \/ LoopEnds \/ LoopBreaks
    BY <2>1 DEF Start, Reconcile, Spawn, LoopEnds, LoopBreaks
  <2>2. CASE CleanUp
    <3>1. PICK stays \in SUBSET book : CancelAll(stays) \/ CancelAsked(stays)
      BY <2>2 DEF CleanUp
    <3> QED
      BY <2>2, <3>1 DEF CleanUp, CancelAll, CancelAsked
  <2>3. CASE EndStep
    BY <2>3 DEF EndStep, ReconcileFails, CleanUpFails, Exit, Crash, Gone
  <2>4. CASE CancelAtExit \/ Signal \/ WatchdogAlarm \/ DeadMan
    BY <2>4 DEF CancelAtExit, Signal, WatchdogAlarm, DeadMan
  <2>5. CASE BeatStep
    BY <2>5 DEF BeatStep, BeatTick, BeatOk, BeatFails, GiveUp, BeatHeard
  <2>6. CASE OrderStep
    BY <2>6 DEF OrderStep, Post, Land, Refused, Leave
  <2>7. CASE Advance
    BY <2>7 DEF Advance, Older
  <2>8. CASE UNCHANGED vars
    BY <2>8 DEF vars
  <2> QED
    BY StepCases, <2>1, <2>2, <2>3, <2>4, <2>5, <2>6, <2>7, <2>8
<1> QED
  BY <1>1, <1>2, <1>3, PTL DEF Spec, TypeOK

-----------------------------------------------------------------------------
(* Restart safety.  Before the tasks run nothing is posted; from the look  *)
(* of startup on, every older order is accounted for.                      *)
Accounted ==
  /\ phase \notin Running => mine = {}
  /\ phase = "cleanup" /\ ~clean => book \subseteq seed \cup asked \cup missed \cup late
  /\ phase = "spawn" =>
       book \subseteq late \cup kept \cup (IF clean THEN {} ELSE seed \cup missed)
  /\ StartKnowsWhatRests

(* When trading begins, whatever rests of earlier processes is accounted   *)
(* for: landed late, kept by the exchange when asked, or, if startup does  *)
(* not cancel everything, taken over, unless startup did not look at its   *)
(* market.                                                                 *)
THEOREM RestartIsSafe == Spec => []StartKnowsWhatRests
<1> USE DEF Running, Accounted, StartKnowsWhatRests
<1>1. Init => Accounted
  BY DEF Init
<1>2. TypeOK /\ Accounted /\ [Next]_vars => Accounted'
  <2> SUFFICES ASSUME TypeOK, Accounted, [Next]_vars
               PROVE  Accounted'
    OBVIOUS
  <2> USE DEF main, flags, beat, exch, hist
  <2>1. CASE Start \/ Spawn \/ LoopEnds \/ LoopBreaks
    BY <2>1 DEF Start, Spawn, LoopEnds, LoopBreaks
  <2>2. CASE Reconcile
    BY <2>2 DEF Reconcile
  <2>3. CASE CleanUp
    <3>1. PICK stays \in SUBSET book : CancelAll(stays) \/ CancelAsked(stays)
      BY <2>3 DEF CleanUp
    <3> QED
      BY <2>3, <3>1 DEF CleanUp, CancelAll, CancelAsked
  <2>4. CASE EndStep
    BY <2>4 DEF EndStep, ReconcileFails, CleanUpFails, Exit, Crash, Gone
  <2>5. CASE Signal \/ WatchdogAlarm \/ DeadMan \/ CancelAtExit
    BY <2>5 DEF Signal, WatchdogAlarm, DeadMan, CancelAtExit
  <2>6. CASE BeatStep
    BY <2>6 DEF BeatStep, BeatTick, BeatOk, BeatFails, GiveUp, BeatHeard
  <2>7. CASE OrderStep
    BY <2>7 DEF OrderStep, Post, Land, Refused, Leave, Looked
  <2>8. CASE Advance
    BY <2>8 DEF Advance
  <2>9. CASE UNCHANGED vars
    BY <2>9 DEF vars
  <2> QED
    BY StepCases, <2>1, <2>2, <2>3, <2>4, <2>5, <2>6, <2>7, <2>8, <2>9
<1> QED
  BY LifecycleTyped, <1>1, <1>2, PTL DEF Spec

-----------------------------------------------------------------------------
(* The ages of the supervisor.  A failed call leaves last_ok_ms at most    *)
(* Grace behind its tick; from there to the next tick is what is left of   *)
(* the interval.  The exchange heard of us no earlier than at last_ok_ms.  *)
Slack == IF CallMax > Interval THEN CallMax ELSE Interval

AgesAgree ==
  /\ phase \notin Running => pc = "off" /\ wait = 0 /\ ok = 0 /\ heard = FALSE
  /\ pc = "wait" => ok + wait <= Grace + Slack
  /\ pc \in Calling =>
       /\ ok <= Grace + Slack + call /\ call <= ok
       /\ wait = 0 \/ wait + call = Interval
  /\ heard /\ pc \in Calling \cup {"wait"} => silent <= ok
  /\ heard /\ pc = "heard" => silent <= call

(* While the supervisor has not given up, the exchange has heard it within *)
(* its patience: ExchangeGrace need only exceed Grace by the longer of the *)
(* interval and a call, and a call.                                        *)
THEOREM SupervisorIsFirst == Spec => []SupervisorActsFirst
<1> USE LifecycleAssumption DEF Running, Calling, AgesAgree, Slack
<1>1. Init => AgesAgree
  BY DEF Init
<1>2. TypeOK /\ AgesAgree /\ [Next]_vars => AgesAgree'
  <2> SUFFICES ASSUME TypeOK, AgesAgree, [Next]_vars
               PROVE  AgesAgree'
    OBVIOUS
  <2> USE DEF main, flags, beat, exch, hist
  <2>0. /\ wait \in 0..Interval /\ call \in 0..CallMax /\ ok \in 0..OkCap
        /\ silent \in 0..SilentCap /\ heard \in BOOLEAN
    BY DEF TypeOK, StateTyped, FlagsTyped
  <2>1. CASE Start \/ Reconcile \/ CleanUp \/ LoopEnds \/ LoopBreaks \/ CancelAtExit
    BY <2>1 DEF Start, Reconcile, CleanUp, CancelAll, CancelAsked, LoopEnds, LoopBreaks, CancelAtExit
  <2>2. CASE Spawn
    BY <2>0, <2>2 DEF Spawn
  <2>3. CASE EndStep
    BY <2>3 DEF EndStep, ReconcileFails, CleanUpFails, Exit, Crash, Gone
  <2>4. CASE Signal \/ WatchdogAlarm \/ DeadMan
    BY <2>4 DEF Signal, WatchdogAlarm, DeadMan
  <2>5. CASE BeatTick
    BY <2>0, <2>5 DEF BeatTick, OkCap
  <2>6. CASE BeatOk
    BY <2>0, <2>6 DEF BeatOk
  <2>7. CASE BeatFails
    BY <2>0, <2>7 DEF BeatFails, OkCap
  <2>8. CASE GiveUp \/ BeatHeard
    BY <2>0, <2>8 DEF GiveUp, BeatHeard
  <2>9. CASE OrderStep
    BY <2>9 DEF OrderStep, Post, Land, Refused, Leave
  <2>10. CASE Advance
    BY <2>0, <2>10 DEF Advance, Older, OkCap, SilentCap
  <2>11. CASE UNCHANGED vars
    BY <2>11 DEF vars
  <2> QED
    BY StepCases, <2>1, <2>2, <2>3, <2>4, <2>5, <2>6, <2>7, <2>8, <2>9, <2>10, <2>11
       DEF BeatStep
<1>3. TypeOK /\ AgesAgree => SupervisorActsFirst
  BY DEF TypeOK, StateTyped, SupervisorActsFirst
<1> QED
  BY LifecycleTyped, <1>1, <1>2, <1>3, PTL DEF Spec
=============================================================================
