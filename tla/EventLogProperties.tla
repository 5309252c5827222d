------------------------- MODULE EventLogProperties -------------------------
(***************************************************************************)
(* What is claimed of EventLog: that a replay of its files implements      *)
(* RecordLog, that what it loses shows, that its buffer keeps its limits,  *)
(* and that what it accepts does not stay in memory.                       *)
(***************************************************************************)
EXTENDS EventLog

Ids(s) == [i \in DOMAIN s |-> s[i].id]

\* What a replay reads from a file.  Its defaults, strict and by sequence number, do for
\* a file of one run whose lines all parse; they refuse a file with garbage and mix the
\* runs of a file of several, which are read in the order of the file and not strictly.
Events(file) ==
  LET runs == {file.lines[i].run : i \in DOMAIN file.lines}
  IN  IF Cardinality(runs) <= 1 /\ ~Refused(file.lines, TRUE)
      THEN Replayed(file.lines, "seq", TRUE)
      ELSE Replayed(file.lines, "file", FALSE)

StoredEvents == FoldLeft(LAMBDA all, file : all \o Events(file), <<>>, Append(rotated, current))
PendingEvents == Ids(buffer) \o Ids(channel)

\* The buffer respects its limits, because buffer_bytes never undercounts it, whatever
\* fails, and counts it exactly as long as no write was cut short (push_line, flush_buffer).
BufferBytesCoverBuffer ==
  /\ Len(buffer) <= MaxEvents /\ Bytes(buffer) <= MaxBytes
  /\ bufferBytes >= Bytes(buffer)
  /\ "write" \notin hit => bufferBytes = Bytes(buffer)

\* Every line there is, of a file or of the buffer, oldest first.
AllLines == StoredEvents \o buffer

\* The numbers that are missing between a run's stored and buffered lines are
\* the dropped ones while it runs, unless the disk failed (next_seq, dropped_events).  A
\* line without newline that the run before left spoils the first one, with no gap.
LossesAreCounted ==
  LET lines == AllLines
      mine  == {i \in DOMAIN lines : lines[i].run = run}
      seqs  == {lines[i].seq : i \in mine}
  IN  /\ Cardinality(mine) = Cardinality(seqs)
      /\ up # "down" /\ hit \cap {"write", "flush", "tie", "remove"} = {} /\ seqs # {}
           => Max(seqs) - Min(seqs) + 1 - Cardinality(mine) <= dropped

Log == INSTANCE RecordLog WITH pending <- PendingEvents, stored <- Ids(StoredEvents)

\* The event log implements the lossy log: what a replay of its files returns was stored
\* once and in order, across full buffers, failing files, rotation, pruning and restarts,
\* and only what lacked its newline is spoiled by an append (flush_buffer).
ImplementsRecordLog == Log!LogSpec

\* An accepted event leaves the memory of the process: it is written, or lost
\* for a reason (the flush ticker behind the biased select).
AcceptedEventsLeave ==
  \A id \in 1..MaxOffers :
    (\E i \in DOMAIN PendingEvents : PendingEvents[i] = id)
      ~> ~(\E i \in DOMAIN PendingEvents : PendingEvents[i] = id)
=============================================================================
