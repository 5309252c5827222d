----------------------------- MODULE RecordLog -----------------------------
(***************************************************************************)
(* What the event log promises to whoever records an event: a lossy log.   *)
(* Events are numbered in the order in which they were recorded.  Events   *)
(* may be lost while they wait, stored ones may be pruned, and an append   *)
(* may spoil the last of them, but nothing is stored twice, out of order,  *)
(* or ahead of an event that still waits.                                  *)
(* EventLog implements this.                                               *)
(***************************************************************************)
EXTENDS Naturals, Sequences, FiniteSets

VARIABLES
  recorded,   \* how many events were recorded so far; event n is the n-th
  pending,    \* events accepted and not yet stored, oldest first
  stored      \* events that a reader of the log finds, oldest first

logVars == <<recorded, pending, stored>>

\* The elements of s at the indexes in keep, in the order of s.
Pick(s, keep) ==
  [i \in 1..Cardinality(keep) |->
     s[CHOOSE j \in keep : Cardinality({k \in keep : k <= j}) = i]]

\* Some of the events of `from` were added to `old`, in their order.  (TLC evaluates a
\* bound variable once, an argument at each use.)
Adds(old, from, new) ==
  \E a \in {old}, b \in {from}, c \in {new} :
    \E keep \in SUBSET DOMAIN b : c = a \o Pick(b, keep)

LogInit == recorded = 0 /\ pending = <<>> /\ stored = <<>>

Record ==
  /\ recorded' = recorded + 1
  /\ pending' \in {pending, Append(pending, recorded')}
  /\ UNCHANGED stored

Lose ==
  /\ Adds(<<>>, pending, pending')
  /\ UNCHANGED <<recorded, stored>>

\* Some of the events of `from` are stored behind what was stored, whose last event may
\* be spoiled by what is appended to it.
Stores(from) ==
  \E all \in {stored} : \E old \in {all, SubSeq(all, 1, Len(all) - 1)} : Adds(old, from, stored')

\* The oldest pending events leave; some of them are stored.
Store ==
  \E n \in DOMAIN pending :
    /\ pending' = SubSeq(pending, n + 1, Len(pending))
    /\ Stores(SubSeq(pending, 1, n))
    /\ UNCHANGED recorded

\* A crash in the middle of a write stores some and loses the others.
Cut ==
  /\ pending' = <<>>
  /\ Stores(pending)
  /\ UNCHANGED recorded

Prune ==
  /\ Adds(<<>>, stored, stored')
  /\ UNCHANGED <<recorded, pending>>

LogNext == Record \/ Lose \/ Store \/ Cut \/ Prune

LogSpec == LogInit /\ [][LogNext]_logVars
=============================================================================
