------------------------------ MODULE EventLog ------------------------------
(***************************************************************************)
(* The event log: producers try_send to a bounded channel, one task moves  *)
(* the events to a bounded buffer of lines and the buffer to a file, which *)
(* it rotates by size and prunes to a budget.  Every file operation is a   *)
(* step of its own, because the process may crash between two of them, and *)
(* each may fail.  A write that is cut short leaves a piece of a line, or  *)
(* all of it but the newline, which is a write of its own; the next line   *)
(* is appended to what is there.                                           *)
(***************************************************************************)
EXTENDS Naturals, Sequences, SequencesExt, Replay

CONSTANTS
  Sizes,        \* bytes of a line with its newline
  ChannelCap,   \* capacity of the channel: buffer_max_events, at least 1
  MaxEvents,    \* buffer_max_events
  MaxBytes,     \* buffer_max_bytes
  FlushEvents,  \* flush_threshold_events
  FlushBytes,   \* flush_threshold_bytes
  RotateBytes,  \* rotation_max_bytes
  TotalBytes,   \* max_total_bytes, 0 for no budget
  SampleAnswers,\* what should_sample may answer
  Faults,       \* kinds of failures that may happen, each once
  MaxFaults,    \* bound: failures of any kind
  MaxOffers,    \* bound: events recorded
  MaxRuns       \* bound: starts of the process

FaultKinds == {"init", "open", "write", "flush", "rename", "tie", "list", "remove"}

ASSUME LogAssumption ==
  /\ Sizes \subseteq Nat \ {0} /\ SampleAnswers \subseteq BOOLEAN
  /\ ChannelCap \in Nat \ {0}
  /\ \A n \in {MaxEvents, MaxBytes, FlushEvents, FlushBytes, RotateBytes, TotalBytes,
               MaxFaults, MaxOffers, MaxRuns} : n \in Nat
  /\ Faults \subseteq FaultKinds

VARIABLES
  recorded,    \* events recorded so far; the n-th has id n
  channel,     \* the mpsc channel of LogEvents
  buffer,      \* EventLogger.buffer, lines with their ids
  bufferBytes, \* EventLogger.buffer_bytes
  dropped,     \* EventLogger.dropped_events
  written,     \* EventLogger.written_bytes
  seq,         \* EventLogger.seq
  current,     \* the file that is appended to: its lines, and does the last lack its newline?
  rotated,     \* the rotated files, oldest first
  up,          \* the process and its logger task
  pc,          \* the file operation the task is at
  scan,        \* prune_to_budget: the next rotated file of its list
  run,         \* which start of the process this is
  hit          \* kinds of failures that have happened (history)

memory == <<channel, buffer, bufferBytes, dropped, seq>>
disk   == <<current, rotated>>
vars   == <<recorded, memory, written, disk, up, pc, scan, run, hit>>

-----------------------------------------------------------------------------
(* Lines and files *)

\* A line is a record of the event's id, the run, its number in the run, and its bytes,
\* the newline counted even where it is missing.
Garbage(size) == [id |-> 0, run |-> 0, seq |-> 0, size |-> size]
NoFile  == [lines |-> <<>>, torn |-> FALSE]

Line == [id : Nat, run : Nat, seq : Nat, size : Nat \ {0}]
File == {file \in [lines : Seq(Line), torn : BOOLEAN] : file.torn => file.lines # <<>>}
Event == [id : Nat, size : Sizes]

TypeOK ==
  /\ recorded \in Nat /\ channel \in Seq(Event)
  /\ buffer \in Seq(Line) /\ bufferBytes \in Nat /\ dropped \in Nat /\ seq \in Nat
  /\ written \in Nat /\ current \in File /\ rotated \in Seq(File)
  /\ up \in {"down", "starting", "running", "stopping", "dead"}
  /\ pc \in {"idle", "write", "rotate", "prune"}
  /\ scan \in Nat \ {0} /\ run \in Nat /\ hit \subseteq Faults

Minus(a, b) == IF a >= b THEN a - b ELSE 0   \* saturating_sub

SumOver(Size(_), s) == FoldLeft(LAMBDA total, x : total + Size(x), 0, s)
Bytes(lines)   == SumOver(LAMBDA line : line.size, lines)
FileSize(file) == Minus(Bytes(file.lines), IF file.torn THEN 1 ELSE 0)
Total == FileSize(current) + SumOver(FileSize, rotated)

\* Appending lines.  A write that is cut short ends with a part of one more line (a byte,
\* say), or bare, with a line but not its newline.  What is appended continues a last
\* line without newline, and the two do not parse as one.
Ends == {"line", "part", "bare"}
AppendLines(file, lines, end) ==
  LET text == lines \o (IF end = "part" THEN <<Garbage(2)>> ELSE <<>>)
  IN  IF text = <<>> THEN file
      ELSE [lines |-> IF file.torn
                      THEN Front(file.lines)
                             \o <<Garbage(Last(file.lines).size - 1 + text[1].size)>> \o Tail(text)
                      ELSE file.lines \o text,
            torn  |-> end # "line"]

\* One of the failures happens.
Hit(kind) ==
  /\ kind \in Faults \ hit /\ Cardinality(hit) < MaxFaults
  /\ hit' = hit \cup {kind}
-----------------------------------------------------------------------------
(* Producers and the logger task *)

Init ==
  /\ recorded = 0 /\ channel = <<>> /\ buffer = <<>> /\ bufferBytes = 0
  /\ dropped = 0 /\ written = 0 /\ seq = 0
  /\ current = NoFile /\ rotated = <<>>
  /\ up = "down" /\ pc = "idle" /\ scan = 1 /\ run = 0 /\ hit = {}

\* try_send: an event is dropped without a trace when the channel is full or closed.
Offer(size) ==
  /\ up # "down" /\ recorded < MaxOffers
  /\ recorded' = recorded + 1
  /\ channel' = IF up \in {"starting", "running"} /\ Len(channel) < ChannelCap
                THEN Append(channel, [id |-> recorded', size |-> size])
                ELSE channel
  /\ UNCHANGED <<buffer, bufferBytes, dropped, seq, written, disk, up, pc, scan, run, hit>>

\* push_line: how many of the oldest lines make room for one of that size.
Evicted(size) ==
  LET Fits(n) ==
        /\ Len(buffer) - n < MaxEvents
        /\ Minus(bufferBytes, Bytes(SubSeq(buffer, 1, n))) + size <= MaxBytes
      enough == {n \in 0..Len(buffer) : Fits(n)}
  IN  IF enough = {} THEN Len(buffer)
      ELSE CHOOSE n \in enough : \A m \in enough : n <= m

ShouldFlush == Len(buffer') >= FlushEvents \/ bufferBytes' >= FlushBytes

\* handle_event: sample, number, buffer, and flush when a threshold is reached.
Handle(sampled) ==
  /\ up = "running" /\ pc = "idle" /\ channel # <<>>
  /\ channel' = Tail(channel)
  /\ LET size == Head(channel).size
         line == [id |-> Head(channel).id, run |-> run, seq |-> seq + 1, size |-> size]
         n    == Evicted(size)
     IN  \/ /\ ~sampled
            /\ pc' = "idle"
            /\ UNCHANGED <<buffer, bufferBytes, dropped, seq>>
         \/ /\ sampled /\ size > MaxBytes
            /\ seq' = seq + 1 /\ dropped' = dropped + 1
            /\ UNCHANGED <<buffer, bufferBytes>>
            /\ pc' = IF ShouldFlush /\ buffer # <<>> THEN "write" ELSE "idle"
         \/ /\ sampled /\ size <= MaxBytes
            /\ seq' = seq + 1 /\ dropped' = dropped + n
            /\ buffer' = Append(SubSeq(buffer, n + 1, Len(buffer)), line)
            /\ bufferBytes' = Minus(bufferBytes, Bytes(SubSeq(buffer, 1, n))) + size
            /\ pc' = IF ShouldFlush THEN "write" ELSE "idle"
  /\ UNCHANGED <<recorded, written, disk, up, scan, run, hit>>

\* Mutant: the ticker flushes what has reached the threshold.
FlushTickAtThreshold ==
  /\ up = "running" /\ pc = "idle" /\ channel = <<>> /\ Len(buffer) >= FlushEvents
  /\ pc' = "write"
  /\ UNCHANGED <<recorded, memory, written, disk, up, scan, run, hit>>

\* The ticker of the biased select: only an empty channel lets it through.
FlushTick ==
  /\ up = "running" /\ pc = "idle" /\ channel = <<>> /\ buffer # <<>>
  /\ pc' = "write"
  /\ UNCHANGED <<recorded, memory, written, disk, up, scan, run, hit>>
-----------------------------------------------------------------------------
(* A flush: write, rotate, prune.  An error ends it where it is. *)

\* Back to the select loop; an EventLogger that is dropped ends here.
Return ==
  /\ pc' = "idle" /\ scan' = 1
  /\ up' = IF up = "stopping" THEN "down" ELSE "running"

\* An error while the logger is being made: the task returns, the channel closes.
ReturnError ==
  IF up = "starting"
  THEN /\ up' = "dead" /\ pc' = "idle" /\ scan' = 1 /\ channel' = <<>>
  ELSE Return /\ UNCHANGED channel

\* What stays buffered after a write error: nothing in a logger that is dropped.
Left(lines, bytes) ==
  IF up = "stopping"
  THEN buffer' = <<>> /\ bufferBytes' = 0
  ELSE buffer' = lines /\ bufferBytes' = bytes

\* Mutant: the lines are written and stay in the buffer.
WriteTwice ==
  /\ pc = "write"
  /\ current' = AppendLines(current, buffer, "line")
  /\ written' = written + Bytes(buffer)
  /\ pc' = "rotate"
  /\ UNCHANGED <<recorded, channel, buffer, bufferBytes, dropped, seq, rotated, up, scan, run, hit>>

\* Mutant: the bytes of written lines stay counted.
WriteUncounted ==
  /\ pc = "write"
  /\ current' = AppendLines(current, buffer, "line")
  /\ buffer' = <<>>
  /\ written' = written + Bytes(buffer)
  /\ pc' = "rotate"
  /\ UNCHANGED <<recorded, channel, bufferBytes, dropped, seq, rotated, up, scan, run, hit>>

Write ==
  /\ pc = "write"
  /\ current' = AppendLines(current, buffer, "line")
  /\ buffer' = <<>>
  /\ bufferBytes' = Minus(bufferBytes, Bytes(buffer))
  /\ written' = written + Bytes(buffer)
  /\ pc' = "rotate"
  /\ UNCHANGED <<recorded, channel, dropped, seq, rotated, up, scan, run, hit>>

\* Mutant: the lines leave the buffer before the file is open.
OpenFailsLate ==
  /\ pc = "write" /\ Hit("open") /\ Return /\ Left(<<>>, 0)
  /\ UNCHANGED <<recorded, channel, dropped, seq, written, disk, run>>

OpenFails ==
  /\ pc = "write" /\ Hit("open") /\ Return /\ Left(buffer, bufferBytes)
  /\ UNCHANGED <<recorded, channel, dropped, seq, written, disk, run>>

\* A write_all of the i-th line or of its newline fails: the line is popped and still
\* counted in bufferBytes; some prefix of what was written has left the BufWriter.
WriteFails(i, n, end) ==
  /\ pc = "write" /\ Hit("write") /\ Return
  /\ i \in DOMAIN buffer /\ n <= i /\ (n = i => end = "bare")
  /\ current' = AppendLines(current, SubSeq(buffer, 1, n), end)
  /\ Left(SubSeq(buffer, i + 1, Len(buffer)),
          Minus(bufferBytes, Bytes(SubSeq(buffer, 1, i - 1))))
  /\ written' = written + Bytes(SubSeq(buffer, 1, i - 1))
  /\ UNCHANGED <<recorded, channel, dropped, seq, rotated, run>>

\* The last flush of the BufWriter fails, and its drop may still write the rest: every
\* line is popped and counted.
FlushFails(n, end) ==
  /\ pc = "write" /\ Hit("flush") /\ Return
  /\ n <= Len(buffer) /\ (n = Len(buffer) => end # "part")
  /\ current' = AppendLines(current, SubSeq(buffer, 1, n), end)
  /\ buffer' = <<>>
  /\ bufferBytes' = Minus(bufferBytes, Bytes(buffer))
  /\ written' = written + Bytes(buffer)
  /\ UNCHANGED <<recorded, channel, dropped, seq, rotated, run>>

ShouldRotate == RotateBytes > 0 /\ written >= RotateBytes

\* maybe_rotate; the rotation of a file that is not there only resets the count.
Rotate ==
  /\ pc = "rotate"
  /\ IF ShouldRotate
     THEN /\ written' = 0 /\ current' = NoFile
          /\ rotated' = IF current = NoFile THEN rotated ELSE Append(rotated, current)
     ELSE UNCHANGED <<written, disk>>
  /\ pc' = "prune"
  /\ UNCHANGED <<recorded, memory, up, scan, run, hit>>

\* Two rotations within a millisecond: the rename replaces the file before.
RotateOver ==
  /\ pc = "rotate" /\ ShouldRotate /\ current # NoFile /\ rotated # <<>>
  /\ Hit("tie")
  /\ written' = 0 /\ current' = NoFile
  /\ rotated' = [rotated EXCEPT ![Len(rotated)] = current]
  /\ pc' = "prune"
  /\ UNCHANGED <<recorded, memory, up, scan, run>>

RenameFails ==
  /\ pc = "rotate" /\ ShouldRotate /\ current # NoFile /\ Hit("rename")
  /\ ReturnError
  /\ UNCHANGED <<recorded, buffer, bufferBytes, dropped, seq, written, disk, run>>

OverBudget == TotalBytes > 0 /\ Total > TotalBytes

\* prune_to_budget: the loop over the rotated files, oldest first.
RemoveOldest ==
  /\ pc = "prune" /\ OverBudget /\ scan \in DOMAIN rotated
  /\ rotated' = RemoveAt(rotated, scan)
  /\ UNCHANGED <<recorded, memory, written, current, up, pc, scan, run, hit>>

RemoveFails ==
  /\ pc = "prune" /\ OverBudget /\ scan \in DOMAIN rotated /\ Hit("remove")
  /\ scan' = scan + 1
  /\ UNCHANGED <<recorded, memory, written, disk, up, pc, run>>

ListFails ==
  /\ pc = "prune" /\ scan = 1 /\ Hit("list") /\ ReturnError
  /\ UNCHANGED <<recorded, buffer, bufferBytes, dropped, seq, written, disk, run>>

PruneDone ==
  /\ pc = "prune" /\ ~(OverBudget /\ scan \in DOMAIN rotated)
  /\ Return
  /\ UNCHANGED <<recorded, memory, written, disk, run, hit>>
-----------------------------------------------------------------------------
(* The process *)

Forget == channel' = <<>> /\ buffer' = <<>> /\ bufferBytes' = 0 /\ dropped' = 0 /\ seq' = 0

\* EventLogger::new: the length of the file counts as written.
Start ==
  /\ up = "down" /\ run < MaxRuns
  /\ run' = run + 1
  /\ Forget
  /\ scan' = 1
  /\ \/ /\ up' = "starting" /\ pc' = "rotate" /\ written' = FileSize(current)
        /\ UNCHANGED hit
     \/ /\ Hit("init")
        /\ up' = "dead" /\ pc' = "idle" /\ UNCHANGED written
  /\ UNCHANGED <<recorded, disk>>

\* The end of main: the task is dropped at its await, with it the channel and,
\* after a last flush, the logger.
Stop ==
  /\ up \in {"running", "dead"} /\ pc = "idle"
  /\ channel' = <<>>
  /\ IF buffer = <<>>
     THEN up' = "down" /\ UNCHANGED pc
     ELSE up' = "stopping" /\ pc' = "write"
  /\ UNCHANGED <<recorded, buffer, bufferBytes, dropped, seq, written, disk, scan, run, hit>>

\* The process dies, perhaps in the middle of a write.
Crash(n, end) ==
  /\ up # "down"
  /\ up' = "down" /\ pc' = "idle" /\ scan' = 1
  /\ IF pc = "write"
     THEN /\ n <= Len(buffer) /\ (n = Len(buffer) => end # "part")
          /\ current' = AppendLines(current, SubSeq(buffer, 1, n), end)
     ELSE n = 0 /\ end = "line" /\ UNCHANGED current
  /\ Forget
  /\ UNCHANGED <<recorded, written, rotated, run, hit>>

FileStep ==
  \/ Write \/ OpenFails
  \/ \E i \in 1..MaxEvents, n \in 0..MaxEvents, end \in Ends : WriteFails(i, n, end)
  \/ \E n \in 0..MaxEvents, end \in Ends : FlushFails(n, end)
  \/ Rotate \/ RotateOver \/ RenameFails
  \/ RemoveOldest \/ RemoveFails \/ ListFails \/ PruneDone

LoggerStep == (\E sampled \in SampleAnswers : Handle(sampled)) \/ FlushTick \/ FileStep

Next ==
  \/ \E size \in Sizes : Offer(size)
  \/ LoggerStep
  \/ Start \/ Stop
  \/ \E n \in 0..MaxEvents, end \in Ends : Crash(n, end)

Spec == Init /\ [][Next]_vars

\* The task runs while it has work.
FairSpec == Spec /\ WF_vars(LoggerStep)
=============================================================================
