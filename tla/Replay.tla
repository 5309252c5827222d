------------------------------- MODULE Replay -------------------------------
(***************************************************************************)
(* Reading an event log back: the readers of src/persistence/replay.rs as  *)
(* operators on the lines of a file.  A line is a record with its sequence *)
(* number and time stamp, or Garbage, a line that does not parse.          *)
(***************************************************************************)
EXTENDS Naturals, Sequences, FiniteSets

IsGarbage(line) == line.seq = 0

\* A strict reader that has to order the events first gives up on a file with garbage.
Refused(lines, strict) == strict /\ \E i \in DOMAIN lines : IsGarbage(lines[i])

\* The events of a file: the numbers of the lines that parse.
ReadEvents(lines, strict) ==
  IF Refused(lines, strict) THEN {} ELSE {i \in DOMAIN lines : ~IsGarbage(lines[i])}

\* Lexicographic order of the sort keys; the last component is the line.
Before(k, l) ==
  \E i \in DOMAIN k : k[i] < l[i] /\ \A j \in 1..(i - 1) : k[j] = l[j]

SortKey(lines, i, ordering) ==
  CASE ordering = "file" -> <<i>>
    [] ordering = "seq"  -> <<lines[i].seq, i>>
    [] ordering = "ts"   -> <<lines[i].ts, lines[i].seq, i>>

\* The events in the order of their keys: the n-th is the one that n do not come after.
OrderEvents(lines, events, ordering) ==
  LET After(i) == {j \in events : Before(SortKey(lines, i, ordering), SortKey(lines, j, ordering))}
  IN  [n \in 1..Cardinality(events) |->
         lines[CHOOSE i \in events : Cardinality(events \ After(i)) = n]]

\* Read and handled line by line: a strict reader has handled what is before the garbage.
RunInFileOrder(lines, strict) ==
  {i \in ReadEvents(lines, FALSE) : strict => \A j \in 1..i : ~IsGarbage(lines[j])}

\* What a replay hands to its handler, one event after the other.
Replayed(lines, ordering, strict) ==
  LET events == IF ordering = "file" THEN RunInFileOrder(lines, strict)
                ELSE ReadEvents(lines, strict)
  IN  OrderEvents(lines, events, ordering)
=============================================================================
